------------------------ MODULE ShardConsensusProofs ------------------------
(***************************************************************************)
(* Theorems about the shard, for every finite set of poolers, every        *)
(* placement in cells, both policies, and any number of rounds, writes,    *)
(* crashes and aborts.  In this order:                                     *)
(*                                                                         *)
(*  - durability: a recruitment that passes CheckSufficientRecruitment     *)
(*    meets every set of poolers that can commit under the policy, and a   *)
(*    write made during a transition is durable under both policies;       *)
(*  - types: besides the types, a primary has released at least one and at *)
(*    most all of the records of its WAL, so a position to report always   *)
(*    exists.  Every action keeps the types of what it changes and never   *)
(*    shortens the WAL of a pooler that stays a primary (StepTypes); the   *)
(*    release of commits, which happens with every action, does the rest;  *)
(*  - promises: the shard implements TermPromises.  The refinement maps a  *)
(*    pooler's promise to the round whose revocation it has persisted,     *)
(*    which is well defined because what a pooler persists is word for     *)
(*    word what one round authored.  So at most one round of a term can    *)
(*    have recruited a majority;                                           *)
(*  - history: the rule position of every WAL moves forward;               *)
(*  - agreement, while the leader changes no cohort: from at most one      *)
(*    proposing round per term follows that a rule number stands for one   *)
(*    rule, and that Postgres waits for a quorum of the rule in force.     *)
(*                                                                         *)
(* What agreement is for, that no commit is lost, is in ShardLeaderProofs. *)
(***************************************************************************)
EXTENDS ShardConsensus, FunctionTheorems, FiniteSetTheorems, SequenceTheorems,
        WellFoundedInduction, TLAPS

-----------------------------------------------------------------------------
(* What the durability policies guarantee.                                 *)

\* The cells of a finite set of poolers are finitely many.
LEMMA CellsFinite ==
    ASSUME NEW S \in SUBSET Poolers
    PROVE  IsFiniteSet(S) /\ IsFiniteSet(CellsOf(S))
<1>1. IsFiniteSet(S)
  BY PoolersAssumption, FS_Subset
<1> DEFINE f == [p \in S |-> CellOf[p]]
<1>2. f \in Surjection(S, CellsOf(S))
  BY DEF CellsOf, Surjection
<1> HIDE DEF f
<1> QED
  BY <1>1, <1>2, FS_Surjection

\* A policy satisfied by a set of poolers is satisfied by every larger one.
LEMMA SatisfiedByMonotone ==
    ASSUME NEW policy \in Policies, NEW T \in SUBSET Poolers, NEW S \in SUBSET T,
           SatisfiedBy(policy, S)
    PROVE  SatisfiedBy(policy, T)
<1>1. S \in SUBSET Poolers
  OBVIOUS
<1>2. IsFiniteSet(T) /\ IsFiniteSet(CellsOf(T))
  BY CellsFinite
<1>3. CellsOf(S) \in SUBSET CellsOf(T)
  BY DEF CellsOf
<1>4. /\ Cardinality(S) <= Cardinality(T)
      /\ Cardinality(CellsOf(S)) <= Cardinality(CellsOf(T))
  BY <1>2, <1>3, FS_Subset
<1>5. /\ Cardinality(S) \in Nat /\ Cardinality(T) \in Nat
      /\ Cardinality(CellsOf(S)) \in Nat /\ Cardinality(CellsOf(T)) \in Nat
  BY <1>1, CellsFinite, FS_CardinalityType
<1>6. policy.n \in Nat
  BY DEF Policies, MultiCell
<1> QED
  BY <1>4, <1>5, <1>6 DEF SatisfiedBy

\* The standbys Postgres waits for under BuildSyncReplicationConfig satisfy the
\* policy together with the primary, and are members of the cohort.
LEMMA CommitQuorumSatisfiesPolicy ==
    ASSUME NEW policy \in Policies, NEW cohort \in SUBSET Poolers, NEW primary,
           CanBuildSyncReplicationConfig([policy |-> policy, cohort |-> cohort], primary),
           NEW S \in SUBSET BuildSyncReplicationConfig(
                                [policy |-> policy, cohort |-> cohort], primary).standbys,
           Cardinality(S) >= BuildSyncReplicationConfig(
                                [policy |-> policy, cohort |-> cohort], primary).numSync
    PROVE  S \cup {primary} \subseteq cohort /\ SatisfiedBy(policy, S \cup {primary})
<1> DEFINE config == BuildSyncReplicationConfig([policy |-> policy, cohort |-> cohort], primary)
<1>1. primary \in cohort
  BY DEF CanBuildSyncReplicationConfig
<1>2. config.standbys \subseteq cohort \ {primary}
  BY <1>1 DEF BuildSyncReplicationConfig
<1>3. S \subseteq cohort \ {primary}
  BY <1>2
<1>4. IsFiniteSet(S) /\ Cardinality(S) \in Nat
  BY <1>3, CellsFinite, FS_CardinalityType
<1>5. CASE policy.kind = "AT_LEAST_N"
  <2>1. policy.n \in Nat \ {0}
    BY <1>5 DEF Policies, MultiCell
  <2>2. config.numSync = policy.n - 1
    BY <1>5, <2>1 DEF BuildSyncReplicationConfig
  <2>3. Cardinality(S \cup {primary}) = Cardinality(S) + 1
    BY <1>3, <1>4, FS_AddElement
  <2>4. Cardinality(S \cup {primary}) >= policy.n
    BY <1>4, <2>1, <2>2, <2>3
  <2> QED
    BY <1>1, <1>3, <1>5, <2>4 DEF SatisfiedBy
<1>6. CASE policy.kind # "AT_LEAST_N"
  <2>1. config.numSync = 1 /\ \A s \in config.standbys : CellOf[s] # CellOf[primary]
    BY <1>6 DEF BuildSyncReplicationConfig
  <2>2. Cardinality(S) >= 1
    BY <2>1
  <2>3. S # {}
    BY <1>4, <2>2, FS_EmptySet
  <2>4. PICK s \in S : CellOf[s] # CellOf[primary]
    BY <2>1, <2>3
  <2> DEFINE pair == {CellOf[s], CellOf[primary]}
  <2>5. IsFiniteSet(pair) /\ Cardinality(pair) = 2
    <3> DEFINE one == {CellOf[s]}
    <3>1. IsFiniteSet(one) /\ Cardinality(one) = 1
      BY FS_Singleton
    <3>2. pair = one \cup {CellOf[primary]} /\ CellOf[primary] \notin one
      BY <2>4
    <3> HIDE DEF one
    <3>3. IsFiniteSet(one \cup {CellOf[primary]})
      BY <3>1, FS_AddElement
    <3>4. Cardinality(one \cup {CellOf[primary]}) = Cardinality(one) + 1
      BY <3>1, <3>2, FS_AddElement
    <3> QED
      BY <3>1, <3>2, <3>3, <3>4
  <2>6. pair \in SUBSET CellsOf(S \cup {primary})
    BY <2>4 DEF CellsOf
  <2>7. IsFiniteSet(CellsOf(S \cup {primary}))
    BY <1>1, <1>3, CellsFinite
  <2>8. Cardinality(CellsOf(S \cup {primary})) \in Nat
    BY <2>7, FS_CardinalityType
  <2>9. Cardinality(CellsOf(S \cup {primary})) >= 2
    BY <2>5, <2>6, <2>7, <2>8, FS_Subset
  <2> QED
    BY <1>1, <1>3, <1>6, <2>9 DEF SatisfiedBy
<1> QED
  BY <1>5, <1>6

\* A sufficient recruitment has a member in common with every set of poolers
\* that satisfies the policy: a new leader hears of all that was committed, and
\* the members left out cannot commit without it (CheckSufficientRecruitment).
THEOREM RecruitmentMeetsEveryQuorum ==
    ASSUME NEW policy \in Policies, NEW cohort \in SUBSET Poolers,
           NEW recruited, CheckSufficientRecruitment(policy, cohort, recruited),
           NEW Q \in SUBSET cohort, SatisfiedBy(policy, Q)
    PROVE  Q \cap recruited # {}
<1> SUFFICES ASSUME Q \cap recruited = {}
             PROVE  FALSE
  OBVIOUS
<1>1. Q \in SUBSET (cohort \ recruited) /\ cohort \ recruited \in SUBSET Poolers
  OBVIOUS
<1>2. SatisfiedBy(policy, cohort \ recruited)
  BY <1>1, SatisfiedByMonotone
<1> QED
  BY <1>2 DEF CheckSufficientRecruitment, CheckUnrecruitedCannotCommit

\* The same for what Postgres counts: the primary and any standbys that release
\* a commit under the configuration BuildSyncReplicationConfig derives.
THEOREM RecruitmentFencesCommits ==
    ASSUME NEW policy \in Policies, NEW cohort \in SUBSET Poolers, NEW primary,
           CanBuildSyncReplicationConfig([policy |-> policy, cohort |-> cohort], primary),
           NEW S \in SUBSET BuildSyncReplicationConfig(
                                [policy |-> policy, cohort |-> cohort], primary).standbys,
           Cardinality(S) >= BuildSyncReplicationConfig(
                                [policy |-> policy, cohort |-> cohort], primary).numSync,
           NEW recruited, CheckSufficientRecruitment(policy, cohort, recruited)
    PROVE  (S \cup {primary}) \cap recruited # {}
<1>1. S \cup {primary} \in SUBSET cohort /\ SatisfiedBy(policy, S \cup {primary})
  BY CommitQuorumSatisfiesPolicy
<1> QED
  BY <1>1, RecruitmentMeetsEveryQuorum

\* A write that is durable under the policy of a transition is durable under the
\* outgoing and under the incoming policy, counted in their own cohorts
\* (BuildPolicyTransition).
THEOREM TransitionSatisfiesBoth ==
    ASSUME NEW out \in [policy : Policies, cohort : SUBSET Poolers],
           NEW in \in [policy : Policies, cohort : SUBSET Poolers],
           HasPolicyTransition(out, in),
           NEW Q \in SUBSET BothPolicy(out, in).cohort,
           SatisfiedBy(BothPolicy(out, in).policy, Q)
    PROVE  /\ Q \subseteq out.cohort /\ SatisfiedBy(out.policy, Q)
           /\ Q \subseteq in.cohort /\ SatisfiedBy(in.policy, Q)
<1>1. /\ out.policy \in Policies /\ in.policy \in Policies
      /\ out.cohort \in SUBSET Poolers /\ in.cohort \in SUBSET Poolers
      /\ out.policy.kind = in.policy.kind
  BY DEF HasPolicyTransition
<1>2. out.policy.n \in Nat /\ in.policy.n \in Nat
  BY <1>1 DEF Policies, MultiCell
<1>3. Q \subseteq out.cohort /\ Q \subseteq in.cohort
  BY <1>1 DEF HasPolicyTransition, BothPolicy
<1>4. Cardinality(Q) \in Nat
  BY <1>1, <1>3, CellsFinite, FS_CardinalityType
<1>5. CASE out.policy.n = in.policy.n
  BY <1>1, <1>3, <1>5 DEF BothPolicy, SatisfiedBy
<1>6. CASE out.policy.n # in.policy.n
  BY <1>1, <1>2, <1>3, <1>4, <1>6 DEF BothPolicy, SatisfiedBy
<1> QED
  BY <1>5, <1>6

-----------------------------------------------------------------------------
(* Max of a non-empty bounded set of naturals is in the set and bounds it. *)
(* The library has no such fact; it follows from the well-foundedness of   *)
(* the naturals.                                                           *)

\* A non-empty set of naturals has a least element.
LEMMA LeastNatural ==
    ASSUME NEW T \in SUBSET Nat, T # {}
    PROVE  \E x \in T : \A y \in T : x <= y
<1>1. PICK x \in T : \A y \in Nat : <<y, x>> \in OpToRel(<, Nat) => y \notin T
  BY NatLessThanWellFounded, WFMin
<1>2. \A y \in T : ~(y < x)
  BY <1>1 DEF OpToRel
<1> QED
  BY <1>2

BoundedOn(f, n) == \E b \in Nat : \A i \in 1..n : f[i] <= b

\* One more value does not make a sequence of naturals unbounded.
LEMMA OneMoreBounded ==
    ASSUME NEW m \in Nat, \A g \in [1..m -> Nat] : BoundedOn(g, m),
           NEW f \in [1..(m + 1) -> Nat]
    PROVE  BoundedOn(f, m + 1)
<1>1. \A i \in 1..m : i \in 1..(m + 1)
  OBVIOUS
<1>2. [i \in 1..m |-> f[i]] \in [1..m -> Nat]
  BY <1>1
<1>3. BoundedOn([i \in 1..m |-> f[i]], m)
  BY <1>2
<1>4. PICK b \in Nat : \A i \in 1..m : f[i] <= b
  BY <1>3 DEF BoundedOn
<1>5. f[m + 1] \in Nat
  OBVIOUS
<1>6. PICK c \in Nat : c >= b /\ c >= f[m + 1]
  <2>1. b + f[m + 1] \in Nat /\ b + f[m + 1] >= b /\ b + f[m + 1] >= f[m + 1]
    BY <1>4, <1>5
  <2> QED
    BY <2>1
<1>7. ASSUME NEW i \in 1..(m + 1) PROVE f[i] <= c
  <2>1. f[i] \in Nat
    OBVIOUS
  <2>2. i \in 1..m \/ i = m + 1
    OBVIOUS
  <2>3. CASE i \in 1..m
    <3>1. f[i] <= b
      BY <1>4, <2>3
    <3> QED
      BY <1>6, <2>1, <3>1
  <2>4. CASE i = m + 1
    BY <1>6, <2>4
  <2> QED
    BY <2>2, <2>3, <2>4
<1> QED
  BY <1>7 DEF BoundedOn

\* A finite set of naturals is bounded: the least number of values that could be
\* unbounded is neither 0 nor the successor of another.
LEMMA FiniteIsBounded ==
    ASSUME NEW S \in SUBSET Nat, IsFiniteSet(S)
    PROVE  \E b \in Nat : \A x \in S : x <= b
<1> DEFINE Bad == {n \in Nat : \E f \in [1..n -> Nat] : ~BoundedOn(f, n)}
<1>1. Bad = {}
  <2> SUFFICES ASSUME Bad # {} PROVE FALSE
    OBVIOUS
  <2>1. PICK n \in Bad : \A m \in Bad : n <= m
    <3>1. Bad \in SUBSET Nat
      OBVIOUS
    <3> HIDE DEF Bad
    <3> QED
      BY <3>1, LeastNatural
  <2>2. PICK f \in [1..n -> Nat] : ~BoundedOn(f, n)
    BY <2>1
  <2>3. n \in Nat
    BY <2>1
  <2>4. n # 0
    BY <2>2 DEF BoundedOn
  <2>5. PICK m \in Nat : n = m + 1
    <3>1. n - 1 \in Nat /\ n = (n - 1) + 1
      BY <2>3, <2>4
    <3> QED
      BY <3>1
  <2>6. m \notin Bad
    <3>1. ~(n <= m)
      BY <2>3, <2>5
    <3> QED
      BY <2>1, <3>1
  <2>7. \A g \in [1..m -> Nat] : BoundedOn(g, m)
    BY <2>5, <2>6
  <2>8. f \in [1..(m + 1) -> Nat] /\ ~BoundedOn(f, m + 1)
    BY <2>2, <2>5
  <2> HIDE DEF Bad
  <2> QED
    BY <2>7, <2>8, OneMoreBounded
<1>2. PICK n \in Nat : ExistsBijection(1..n, S)
  BY FS_NatBijection
<1>3. PICK f \in Bijection(1..n, S) : TRUE
  BY <1>2 DEF ExistsBijection
<1>4. f \in [1..n -> Nat] /\ \A x \in S : \E i \in 1..n : f[i] = x
  BY <1>3 DEF Bijection, Surjection, Injection
<1>5. BoundedOn(f, n)
  BY <1>1, <1>4
<1> QED
  BY <1>4, <1>5 DEF BoundedOn

\* Max is what its name says on a non-empty bounded set of naturals.
LEMMA MaxOfBounded ==
    ASSUME NEW S \in SUBSET Nat, S # {}, NEW b \in Nat, \A x \in S : x <= b
    PROVE  Max(S) \in S /\ \A x \in S : x <= Max(S)
<1> DEFINE T == {n \in Nat : \E x \in S : n = b - x}
<1>1. \A y \in S : b - y \in T
  <2> TAKE y \in S
  <2>1. y \in Nat /\ y <= b
    OBVIOUS
  <2> QED
    BY <2>1
<1>2. T \in SUBSET Nat /\ T # {}
  BY <1>1
<1>3. PICK n \in T : \A m \in T : n <= m
  <2> HIDE DEF T
  <2> QED
    BY <1>2, LeastNatural
<1>4. PICK x \in S : n = b - x
  BY <1>3
<1>5. \A y \in S : x >= y
  BY <1>3, <1>4, <1>1
<1> QED
  BY <1>5 DEF Max

-----------------------------------------------------------------------------
(* The types of what the actions are built from.                           *)

\* The absent rule and position are of the type of the others.
LEMMA AbsentTypes ==
    /\ NoNumber \in RuleNumber
    /\ NoRule \in RuleType
    /\ NoPosition \in PositionType
    /\ NoRevocation \in RevocationType
<1>1. NoNumber \in RuleNumber
  BY DEF NoNumber, RuleNumber
<1>2. AtLeastN(1) \in Policies
  BY DEF AtLeastN, Policies
<1>3. NoRule \in RuleType
  BY <1>1, <1>2 DEF NoRule, RuleType
<1>4. NoPosition \in PositionType
  BY <1>3 DEF NoPosition, PositionType
<1>5. NoRevocation \in RevocationType
  BY <1>1, ConstantsAssumption DEF NoRevocation, RevocationType
<1> QED
  BY <1>1, <1>3, <1>4, <1>5

\* The parts of a position are rules, and a decided rule makes a position.
LEMMA PositionParts ==
    /\ \A pos \in PositionType : /\ pos.decision \in RuleType
                                 /\ pos.proposal \in RuleType
                                 /\ PossiblyUndecidedRule(pos) \in RuleType
    /\ \A rule \in RuleType : Decided(rule) \in PositionType
    /\ \A a, b \in RuleType : [decision |-> a, proposal |-> b] \in PositionType
<1>1. \A pos \in PositionType : pos.decision \in RuleType /\ pos.proposal \in RuleType
  BY DEF PositionType
<1>2. \A pos \in PositionType : PossiblyUndecidedRule(pos) \in RuleType
  BY <1>1 DEF PossiblyUndecidedRule
<1>3. \A a, b \in RuleType : [decision |-> a, proposal |-> b] \in PositionType
  BY DEF PositionType
<1>4. \A rule \in RuleType : Decided(rule) \in PositionType
  BY <1>3, AbsentTypes DEF Decided
<1> QED
  BY <1>1, <1>2, <1>3, <1>4

\* The parts of a rule.
LEMMA RuleParts ==
    \A rule \in RuleType : /\ rule.num \in RuleNumber
                           /\ rule.num.term \in Nat
                           /\ rule.leader \in Poolers \cup {None}
                           /\ rule.cohort \in SUBSET Poolers
                           /\ rule.policy \in Policies
BY DEF RuleType, RuleNumber

PolicyCohortType == [policy : Policies, cohort : SUBSET Poolers]

\* Every policy the code derives, and the configuration derived from it.
LEMMA PolicyTypes ==
    /\ \A rule \in RuleType : PolicyWithCohort(rule) \in PolicyCohortType
    /\ \A a, b \in PolicyCohortType : BothPolicy(a, b) \in PolicyCohortType
    /\ \A pos \in PositionType : ExpectedSyncStandbyPolicy(pos) \in PolicyCohortType
    /\ \A a, b \in RuleType : TransitionPolicy(a, b) \in PolicyCohortType
    /\ \A pc \in PolicyCohortType : \A p : BuildSyncReplicationConfig(pc, p) \in SyncType
<1>1. \A rule \in RuleType : PolicyWithCohort(rule) \in PolicyCohortType
  BY RuleParts DEF PolicyWithCohort, PolicyCohortType
<1>2. \A a, b \in PolicyCohortType : BothPolicy(a, b) \in PolicyCohortType
  BY DEF BothPolicy
<1>3. \A pos \in PositionType : ExpectedSyncStandbyPolicy(pos) \in PolicyCohortType
  BY <1>1, <1>2, PositionParts DEF ExpectedSyncStandbyPolicy
<1>4. \A a, b \in RuleType : TransitionPolicy(a, b) \in PolicyCohortType
  BY <1>1, <1>2 DEF TransitionPolicy
<1>5. ASSUME NEW pc \in PolicyCohortType, NEW p
      PROVE  BuildSyncReplicationConfig(pc, p) \in SyncType
  <2>1. pc.policy \in Policies /\ pc.cohort \in SUBSET Poolers
    BY DEF PolicyCohortType
  <2>2. pc.policy.kind = "AT_LEAST_N" => pc.policy.n \in Nat \ {0}
    BY <2>1 DEF Policies, MultiCell
  <2> QED
    BY <2>1, <2>2 DEF BuildSyncReplicationConfig, SyncType
<1> QED
  BY <1>1, <1>2, <1>3, <1>4, <1>5

\* The fold of two replication primaries is one.
LEMMA MergeType ==
    ASSUME NEW a \in PrimaryType, NEW b \in PrimaryType
    PROVE  MergeReplicationPrimary(a, b) \in PrimaryType
<1>1. /\ a.pos \in PositionType /\ b.pos \in PositionType
      /\ b.primary \in Poolers \cup {None}
      /\ a.rewindReady \in BOOLEAN /\ b.rewindReady \in BOOLEAN
  BY DEF PrimaryType
<1> DEFINE cmp == CompareRulePosition(b.pos, a.pos)
           sameTerm == PossiblyUndecidedRule(b.pos).num.term =
                       PossiblyUndecidedRule(a.pos).num.term
           merged == [pos         |-> IF cmp > 0 THEN b.pos ELSE a.pos,
                      primary     |-> b.primary,
                      rewindReady |-> b.rewindReady \/ (sameTerm /\ a.rewindReady)]
<1>2. (b.rewindReady \/ (sameTerm /\ a.rewindReady)) \in BOOLEAN
  OBVIOUS
<1>3. (IF cmp > 0 THEN b.pos ELSE a.pos) \in PositionType
  BY <1>1
<1>4. MergeReplicationPrimary(a, b) = IF cmp < 0 THEN a ELSE merged
  BY DEF MergeReplicationPrimary
<1>5. merged \in PrimaryType
  BY <1>1, <1>2, <1>3, Zenon DEF PrimaryType
<1> QED
  BY <1>4, <1>5

-----------------------------------------------------------------------------
(* The types of what the actions read.                                     *)

\* A pooler's WAL has a last record and a last visible one.
LEMMA WalTypes ==
    ASSUME TypeOK, NEW p \in Poolers
    PROVE  /\ wal[p] \in Seq(RecordType)
           /\ Lsn(p) \in Nat \ {0}
           /\ VisibleLsn(p) \in 1..Lsn(p)
           /\ \A i \in 1..Lsn(p) : wal[p][i] \in RecordType /\ wal[p][i].pos \in PositionType
           /\ LastPos(p) \in PositionType
           /\ Visible(p) \in PositionType
<1>1. wal[p] \in Seq(RecordType) /\ Lsn(p) \in Nat \ {0}
  BY LenProperties DEF TypeOK, Lsn
<1>2. VisibleLsn(p) \in 1..Lsn(p)
  BY <1>1 DEF TypeOK, VisibleLsn
<1>3. ASSUME NEW i \in 1..Lsn(p)
      PROVE  wal[p][i] \in RecordType /\ wal[p][i].pos \in PositionType
  <2>1. wal[p][i] \in RecordType
    BY <1>1, ElementOfSeq DEF Lsn
  <2> QED
    BY <2>1 DEF RecordType
<1>4. Lsn(p) \in 1..Lsn(p)
  BY <1>1
<1> QED
  BY <1>1, <1>2, <1>3, <1>4 DEF LastPos, Last, Visible, Lsn

StatusType == [id : Poolers, pos : PositionType, lsn : Nat, rev : RevocationType,
               floorOutstanding : BOOLEAN]

\* A pooler's status.
LEMMA StatusTyped ==
    ASSUME TypeOK, NEW p \in Poolers
    PROVE  Status(p) \in StatusType
<1>1. rev[p] \in RevocationType
  BY DEF TypeOK
<1>2. Lsn(p) \in Nat /\ Visible(p) \in PositionType
  BY WalTypes
<1>3. FloorOutstanding(p, Visible(p)) \in BOOLEAN
  BY DEF FloorOutstanding
<1> QED
  BY <1>1, <1>2, <1>3, Zenon DEF Status, StatusType

\* A coordinator authors revocations of a positive term under its own name.
LEMMA AuthoredType ==
    ASSUME NEW statuses \in SUBSET StatusType, NEW r \in Rounds,
           NEW authored \in NewTermRevocations(statuses, CoordinatorOf[r], r)
    PROVE  /\ authored \in RevocationType
           /\ authored.term # 0
           /\ authored.at = r
<1>1. CoordinatorOf[r] \in Coordinators /\ r \in 0..NumRounds
  BY ConstantsAssumption DEF Rounds
<1>2. PICK best \in {o.pos : o \in statuses} :
        \E highest \in Highest({PossiblyUndecidedRule(best).num.term}
                                  \cup {o.rev.term : o \in statuses}) :
            authored = [term |-> highest + 1, coord |-> CoordinatorOf[r], at |-> r,
                        outgoing |-> PossiblyUndecidedRule(best).num]
  BY DEF NewTermRevocations, MostAdvanced
<1>3. best \in PositionType
  BY DEF StatusType
<1>4. PossiblyUndecidedRule(best).num \in RuleNumber /\ PossiblyUndecidedRule(best).num.term \in Nat
  BY <1>3, PositionParts, RuleParts
<1>5. \A o \in statuses : o.rev.term \in Nat
  BY DEF StatusType, RevocationType
<1>6. PICK highest \in Nat :
            authored = [term |-> highest + 1, coord |-> CoordinatorOf[r], at |-> r,
                        outgoing |-> PossiblyUndecidedRule(best).num]
  BY <1>2, <1>4, <1>5 DEF Highest
<1> QED
  BY <1>1, <1>4, <1>6 DEF RevocationType

\* A proposal built from recruits is a position; its proposal has the term of
\* the revocation.
LEMMA ProposalType ==
    ASSUME NEW authored \in RevocationType, NEW recruits \in SUBSET RecruitType,
           NEW transition \in BuildSafeProposal(authored, recruits)
    PROVE  /\ transition \in PositionType
           /\ transition.proposal.num.term = authored.term
           /\ transition.proposal.leader \in Poolers
<1> DEFINE R == FilterByValidPosition(recruits)
<1>1. R \in SUBSET RecruitType
  BY DEF FilterByValidPosition
<1>2. PICK out \in {s.pos : s \in R} : \E leader \in FailoverCandidates(R, out) :
        transition = BuildFailoverProposal(authored, PossiblyUndecidedRule(out), leader)
  BY DEF BuildSafeProposal, MostAdvanced
<1>3. PICK leader \in FailoverCandidates(R, out) :
        transition = BuildFailoverProposal(authored, PossiblyUndecidedRule(out), leader)
  BY <1>2
<1>4. out \in PositionType
  BY <1>1, <1>2 DEF RecruitType
<1> DEFINE rule == PossiblyUndecidedRule(out)
<1>5. rule \in RuleType
  BY <1>4, PositionParts
<1>6. leader \in Poolers
  BY <1>3, <1>5, RuleParts DEF FailoverCandidates
<1>7. authored.term \in Nat
  BY DEF RevocationType
<1> HIDE DEF rule, R
<1> DEFINE next == [rule EXCEPT !.num = [term |-> authored.term, subterm |-> 0],
                                !.leader = leader]
<1>8. /\ next \in RuleType
      /\ next.num.term = authored.term
      /\ next.leader = leader
  BY <1>5, <1>6, <1>7 DEF RuleType, RuleNumber
<1>9. transition = [decision |-> rule, proposal |-> next]
  BY <1>3 DEF BuildFailoverProposal, rule
<1> HIDE DEF next
<1> QED
  BY <1>5, <1>6, <1>8, <1>9 DEF PositionType

\* A relayed replication primary.
LEMMA AnnouncementType ==
    ASSUME TypeOK, NEW m \in Announcements
    PROVE  m \in PrimaryType
<1>1. PICK pos \in Announced :
        m = [pos         |-> pos,
             primary     |-> PossiblyUndecidedRule(pos).leader,
             rewindReady |-> HasPromoted(PossiblyUndecidedRule(pos).num.term)]
  BY DEF Announcements
<1>2. pos \in PositionType
  <2>1. CASE pos \in {rounds[r].transition : r \in {q \in Rounds : rounds[q].transition # NoPosition}}
    BY <2>1 DEF TypeOK, RoundType
  <2>2. CASE pos \in UNION {{wal[q][i].pos : i \in 1..VisibleLsn(q)} : q \in Poolers}
    <3>1. PICK q \in Poolers : pos \in {wal[q][i].pos : i \in 1..VisibleLsn(q)}
      BY <2>2
    <3>2. PICK i \in 1..VisibleLsn(q) : pos = wal[q][i].pos
      BY <3>1
    <3>3. i \in 1..Lsn(q)
      <4>1. VisibleLsn(q) \in 1..Lsn(q) /\ Lsn(q) \in Nat
        BY WalTypes
      <4> QED
        BY <4>1
    <3> QED
      BY <3>2, <3>3, WalTypes
  <2> QED
    BY <2>1, <2>2 DEF Announced
<1>3. PossiblyUndecidedRule(pos).leader \in Poolers \cup {None}
  BY <1>2, PositionParts, RuleParts
<1>4. HasPromoted(PossiblyUndecidedRule(pos).num.term) \in BOOLEAN
  BY DEF HasPromoted
<1> QED
  BY <1>1, <1>2, <1>3, <1>4, Zenon DEF PrimaryType

\* pg_rewind leaves a non-empty prefix of the WAL.
LEMMA RewindKeepsPrefix ==
    ASSUME TypeOK, NEW p \in Poolers, NEW leader \in Poolers, NEW n \in RewindPoints(p, leader)
    PROVE  n \in 1..Lsn(p)
<1>1. Lsn(p) \in Nat \ {0}
  BY WalTypes
<1> DEFINE Shared == {k \in 0..Lsn(p) : k <= Lsn(leader)
                        /\ SubSeq(wal[p], 1, k) = SubSeq(wal[leader], 1, k)}
<1>2. 0 \in Shared
  BY <1>1, WalTypes, SubSeqEmpty DEF Lsn
<1>3. Shared \in SUBSET Nat /\ \A k \in Shared : k <= Lsn(p)
  BY <1>1
<1>4. Max(Shared) \in Shared
  <2> HIDE DEF Shared
  <2> QED
    BY <1>1, <1>2, <1>3, MaxOfBounded
<1>5. Max(Shared) \in 0..Lsn(p)
  BY <1>4
<1>6. n = Lsn(p) \/ n \in 1..Max(Shared)
  BY DEF RewindPoints
<1> HIDE DEF Shared
<1> QED
  BY <1>1, <1>5, <1>6

-----------------------------------------------------------------------------
(* What every action but the release of commits establishes: the types of  *)
(* all it may change, and that only a pooler which is no primary after the *)
(* step may have a shorter WAL.                                            *)

BaseTypes ==
    /\ wal \in [Poolers -> Seq(RecordType)]
    /\ prim \in [Poolers -> Nat]
    /\ conn \in [Poolers -> Poolers \cup {None}]
    /\ guc \in [Poolers -> SyncType]
    /\ op \in [Poolers -> OpType]
    /\ rev \in [Poolers -> RevocationType]
    /\ floor \in [Poolers -> FloorType]
    /\ suspect \in [Poolers -> BOOLEAN]
    /\ rp \in [Poolers -> PrimaryType]
    /\ rounds \in [Rounds -> RoundType]
    /\ spent \in SpentType

WalStep ==
    /\ wal' \in [Poolers -> Seq(RecordType)]
    /\ \A q \in Poolers : /\ Len(wal'[q]) > 0
                          /\ Len(wal'[q]) >= Len(wal[q]) \/ prim'[q] = 0

StepTypes == BaseTypes' /\ WalStep

\* Appending a record.
LEMMA AppendTypes ==
    ASSUME TypeOK, NEW p \in Poolers, NEW term \in Nat, NEW pos \in PositionType,
           NEW kind \in {"switch", "probe", "rule", "data"},
           AppendRecord(p, term, kind, pos)
    PROVE  WalStep
<1> DEFINE record == [by |-> term, kind |-> kind, pos |-> pos]
<1>1. record \in RecordType
  BY DEF RecordType
<1> HIDE DEF record
<1>2. wal[p] \in Seq(RecordType)
  BY WalTypes
<1>3. /\ Append(wal[p], record) \in Seq(RecordType)
      /\ Len(Append(wal[p], record)) = Len(wal[p]) + 1
  BY <1>1, <1>2, AppendProperties
<1>4. wal' = [wal EXCEPT ![p] = Append(wal[p], record)]
  BY DEF AppendRecord, record
<1>5. \A q \in Poolers : Len(wal[q]) \in Nat \ {0}
  BY WalTypes DEF Lsn
<1>6. wal' \in [Poolers -> Seq(RecordType)]
  BY <1>3, <1>4 DEF TypeOK
<1>7. ASSUME NEW q \in Poolers
      PROVE  Len(wal'[q]) > 0 /\ Len(wal'[q]) >= Len(wal[q])
  <2>1. CASE q = p
    <3>1. wal'[q] = Append(wal[p], record)
      BY <1>4, <2>1 DEF TypeOK
    <3> QED
      BY <1>3, <1>5, <2>1, <3>1
  <2>2. CASE q # p
    <3>1. wal'[q] = wal[q]
      BY <1>4, <2>2 DEF TypeOK
    <3> QED
      BY <1>5, <3>1
  <2> QED
    BY <2>1, <2>2
<1> QED
  BY <1>6, <1>7 DEF WalStep

\* A step that leaves the WALs alone.
LEMMA WalUnchanged ==
    ASSUME TypeOK, UNCHANGED wal
    PROVE  WalStep
<1>1. \A q \in Poolers : Len(wal[q]) \in Nat \ {0}
  BY WalTypes DEF Lsn
<1> QED
  BY <1>1 DEF WalStep, TypeOK

\* The absent operation, configuration, replication primary and floor.
LEMMA NothingTypes ==
    NoOp \in OpType /\ NoSync \in SyncType /\ NoPrimary \in PrimaryType /\ NoFloor \in FloorType
<1>1. NoPrimary \in PrimaryType
  <2>1. FALSE \in BOOLEAN /\ None \in Poolers \cup {None}
    OBVIOUS
  <2> QED
    BY <2>1, AbsentTypes, Zenon DEF NoPrimary, PrimaryType
<1>2. NoOp \in OpType /\ NoSync \in SyncType /\ NoFloor \in FloorType
  BY AbsentTypes, ConstantsAssumption DEF NoOp, NoSync, NoFloor, OpType, SyncType, FloorType
<1> QED
  BY <1>1, <1>2

\* Setting the synchronous policy.
LEMMA SetPolicyTypes ==
    ASSUME TypeOK, NEW p \in Poolers, NEW pc \in PolicyCohortType, SetPolicy(p, pc)
    PROVE  guc' \in [Poolers -> SyncType]
BY PolicyTypes DEF SetPolicy, TypeOK

\* The coordinator's steps.
LEMMA StartRoundTypes ==
    ASSUME TypeOK, NEW r \in Rounds, NEW heard \in SUBSET Poolers, StartRound(r, heard)
    PROVE  StepTypes
<1>1. WalStep
  BY WalUnchanged DEF StartRound, pgVars
<1> DEFINE statuses == {Status(p) : p \in heard}
<1>2. statuses \in SUBSET StatusType
  BY StatusTyped
<1>3. PICK authored \in NewTermRevocations(statuses, CoordinatorOf[r], r) :
        rounds' = [rounds EXCEPT ![r].phase = "recruiting", ![r].rev = authored]
  BY DEF StartRound
<1> HIDE DEF statuses
<1>4. authored \in RevocationType
  BY <1>2, AuthoredType
<1>5. rounds' \in [Rounds -> RoundType]
  <2> DEFINE begun == [rounds[r] EXCEPT !.phase = "recruiting", !.rev = authored]
  <2>1. rounds[r] \in RoundType
    BY DEF TypeOK
  <2>2. begun \in RoundType
    BY <1>4, <2>1 DEF RoundType
  <2>3. rounds' = [rounds EXCEPT ![r] = begun]
    BY <1>3, <2>1 DEF TypeOK
  <2> HIDE DEF begun
  <2> QED
    BY <2>2, <2>3 DEF TypeOK
<1> QED
  BY <1>1, <1>5 DEF StepTypes, BaseTypes, TypeOK, StartRound, pgVars, promiseVars, memVars

\* A recruit's answer is counted, kept with others or completes a proposal.
LEMMA CollectRecruitTypes ==
    ASSUME TypeOK, NEW r \in Rounds, NEW status \in RecruitType, CollectRecruit(r, status)
    PROVE  rounds' \in [Rounds -> RoundType]
<1> DEFINE recruits == rounds[r].recruits \cup {status}
           joined == [rounds[r] EXCEPT !.accepted = @ \cup {status.id}]
<1>1. /\ rounds[r] \in RoundType
      /\ rounds[r].rev \in RevocationType
      /\ recruits \in SUBSET RecruitType
      /\ joined \in RoundType
  BY ZenonT(60) DEF TypeOK, RoundType, RecruitType
<1> HIDE DEF joined, recruits
<1>2. CASE rounds' = [rounds EXCEPT ![r] = joined]
  BY <1>1, <1>2 DEF TypeOK
<1>3. CASE rounds' = [rounds EXCEPT ![r] = [joined EXCEPT !.recruits = recruits]]
  <2>1. [joined EXCEPT !.recruits = recruits] \in RoundType
    BY <1>1 DEF RoundType
  <2> QED
    BY <1>3, <2>1 DEF TypeOK
<1>4. CASE \E transition \in BuildSafeProposal(rounds[r].rev, recruits) :
             rounds' = [rounds EXCEPT ![r] =
                [joined EXCEPT !.phase = "proposed", !.recruits = {}, !.transition = transition]]
  <2>1. PICK transition \in BuildSafeProposal(rounds[r].rev, recruits) :
             rounds' = [rounds EXCEPT ![r] =
                [joined EXCEPT !.phase = "proposed", !.recruits = {}, !.transition = transition]]
    BY <1>4
  <2>2. transition \in PositionType
    BY <1>1, ProposalType
  <2>3. [joined EXCEPT !.phase = "proposed", !.recruits = {}, !.transition = transition]
          \in RoundType
    BY <1>1, <2>2 DEF RoundType
  <2> QED
    BY <2>1, <2>3 DEF TypeOK
<1> QED
  BY <1>2, <1>3, <1>4 DEF CollectRecruit, joined, recruits

\* Stopping replication.
LEMMA StopReplicationTypes ==
    ASSUME TypeOK, NEW p \in Poolers, NEW c \in Poolers \cup {None}, StopReplication(p, c)
    PROVE  /\ prim' \in [Poolers -> Nat]
           /\ guc' \in [Poolers -> SyncType]
           /\ conn' \in [Poolers -> Poolers \cup {None}]
           /\ suspect' \in [Poolers -> BOOLEAN]
<1>1. /\ prim' \in [Poolers -> Nat]
      /\ guc' \in [Poolers -> SyncType]
      /\ conn' \in [Poolers -> Poolers \cup {None}]
  BY NothingTypes DEF StopReplication, TypeOK
<1>2. suspect' \in [Poolers -> BOOLEAN]
  <2>1. suspect' = [suspect EXCEPT ![p] = suspect[p] \/ prim[p] # 0]
    BY DEF StopReplication
  <2>2. (suspect[p] \/ prim[p] # 0) \in BOOLEAN
    OBVIOUS
  <2> QED
    BY <2>1, <2>2 DEF TypeOK
<1> QED
  BY <1>1, <1>2

\* Recruiting a pooler.
LEMMA RecruitTypes ==
    ASSUME TypeOK, NEW r \in Rounds, NEW p \in Poolers, Recruit(r, p)
    PROVE  StepTypes
<1>1. WalStep
  BY WalUnchanged DEF Recruit
<1>2. rounds[r] \in RoundType /\ rounds[r].rev \in RevocationType /\ conn[p] \in Poolers \cup {None}
  BY DEF TypeOK, RoundType
<1> DEFINE status == [id |-> p, pos |-> LastPos(p), lsn |-> Lsn(p)]
<1>3. status \in RecruitType
  BY WalTypes DEF RecruitType
<1>4. \E c \in Poolers \cup {None} : StopReplication(p, c)
  <2>1. None \in Poolers \cup {None} /\ (IF prim[p] # 0 THEN None ELSE conn[p]) \in Poolers \cup {None}
    BY <1>2
  <2> QED
    BY <2>1, Zenon DEF Recruit
<1>5. /\ prim' \in [Poolers -> Nat]
      /\ guc' \in [Poolers -> SyncType]
      /\ conn' \in [Poolers -> Poolers \cup {None}]
      /\ suspect' \in [Poolers -> BOOLEAN]
  BY <1>4, StopReplicationTypes
<1>6. rev' \in [Poolers -> RevocationType]
  <2>1. rev' = [rev EXCEPT ![p] = rounds[r].rev] \/ rev' = rev
    BY DEF Recruit
  <2> QED
    BY <1>2, <2>1 DEF TypeOK
<1>7. rounds' \in [Rounds -> RoundType]
  <2>1. CASE CollectRecruit(r, status)
    BY <1>3, <2>1, CollectRecruitTypes
  <2>2. CASE rounds' = [rounds EXCEPT ![r].accepted = @ \cup {p}]
    BY <1>2, <2>2 DEF TypeOK, RoundType
  <2>3. CASE UNCHANGED rounds
    BY <2>3 DEF TypeOK
  <2> QED
    BY <2>1, <2>2, <2>3 DEF Recruit
<1> QED
  BY <1>1, <1>5, <1>6, <1>7 DEF StepTypes, BaseTypes, TypeOK, Recruit

\* What a promotion has checked, and what it changes whether or not postgres is
\* promoted.
LEMMA PromoteFrame ==
    ASSUME NEW r \in Rounds, Promote(r)
    PROVE  /\ rounds[r].phase = "proposed"
           /\ rounds' = [rounds EXCEPT ![r].phase = "promoting"]
           /\ conn[rounds[r].transition.proposal.leader] = None
           /\ rounds[r].rev.outgoing.term < rounds[r].rev.term
           /\ rounds[r].transition.proposal.num.term = rounds[r].rev.term
           /\ UNCHANGED <<conn, promiseVars, suspect, spent>>
  BY ZenonT(60) DEF Promote, ValidateRevocation

\* Promoting the designated leader.
LEMMA PromoteTypes ==
    ASSUME TypeOK, NEW r \in Rounds, Promote(r)
    PROVE  StepTypes
<1> DEFINE transition == rounds[r].transition
           rule == transition.proposal
           p == rule.leader
           stuck == ~IsRuleDecided(LastPos(p))
           policy == IF stuck THEN ExpectedSyncStandbyPolicy(LastPos(p))
                     ELSE TransitionPolicy(LastPos(p).decision, rule)
           entry == [pos |-> transition, primary |-> p, rewindReady |-> FALSE]
           started == [phase |-> IF stuck THEN "confirm" ELSE "propose",
                       round |-> r, rule |-> rule, await |-> 0]
<1>1. /\ rounds[r] \in RoundType
      /\ transition \in PositionType
      /\ rule \in RuleType
      /\ p \in Poolers \cup {None}
      /\ rule.num.term \in Nat
  BY PositionParts, RuleParts DEF TypeOK, RoundType
<1>2. entry \in PrimaryType
  <2>1. FALSE \in BOOLEAN
    OBVIOUS
  <2> QED
    BY <1>1, <2>1, Zenon DEF PrimaryType
<1>3. started \in OpType
  BY <1>1, ConstantsAssumption, SMTT(30) DEF OpType, Rounds
<1>4. /\ rounds' = [rounds EXCEPT ![r].phase = "promoting"]
      /\ rp' = [rp EXCEPT ![p] = MergeReplicationPrimary(rp[p], entry)]
      /\ UNCHANGED <<conn, promiseVars, suspect, spent>>
  BY PromoteFrame, ZenonT(60) DEF Promote
<1>5. \/ /\ SetPolicy(p, policy)
         /\ prim' = [prim EXCEPT ![p] = rule.num.term]
         /\ AppendRecord(p, rule.num.term, "switch", LastPos(p))
         /\ op' = [op EXCEPT ![p] = started]
      \/ UNCHANGED <<wal, prim, guc, op>>
  BY ZenonT(60) DEF Promote
<1> HIDE DEF transition, rule, p, entry, started
<1>6. rounds' \in [Rounds -> RoundType]
  BY <1>1, <1>4 DEF TypeOK, RoundType
<1>7. rp' \in [Poolers -> PrimaryType]
  <2>1. CASE p \in Poolers
    BY <1>2, <1>4, <2>1, MergeType DEF TypeOK
  <2>2. CASE p \notin Poolers
    BY <1>4, <2>2 DEF TypeOK
  <2> QED
    BY <2>1, <2>2
<1>8. /\ prim' \in [Poolers -> Nat]
      /\ guc' \in [Poolers -> SyncType]
      /\ op' \in [Poolers -> OpType]
      /\ WalStep
  <2>1. CASE UNCHANGED <<wal, prim, guc, op>>
    BY <2>1, WalUnchanged DEF TypeOK
  <2>2. CASE p \in Poolers /\ ~UNCHANGED <<wal, prim, guc, op>>
    <3>1. LastPos(p) \in PositionType /\ LastPos(p).decision \in RuleType
      BY <2>2, WalTypes, PositionParts
    <3>2. policy \in PolicyCohortType
      BY <1>1, <3>1, PolicyTypes
    <3> HIDE DEF policy, stuck
    <3>3. guc' \in [Poolers -> SyncType]
      BY <1>5, <2>2, <3>2, SetPolicyTypes
    <3>4. WalStep
      BY <1>1, <1>5, <2>2, <3>1, AppendTypes
    <3>5. prim' = [prim EXCEPT ![p] = rule.num.term] /\ op' = [op EXCEPT ![p] = started]
      BY <1>5, <2>2
    <3>6. prim' \in [Poolers -> Nat] /\ op' \in [Poolers -> OpType]
      BY <1>1, <1>3, <3>5 DEF TypeOK
    <3> QED
      BY <3>3, <3>4, <3>6
  <2>3. CASE p \notin Poolers /\ ~UNCHANGED <<wal, prim, guc, op>>
    <3>1. UNCHANGED <<prim, op, wal, guc>>
      BY <1>5, <2>3 DEF TypeOK, SetPolicy, AppendRecord
    <3> QED
      BY <2>3, <3>1
  <2> QED
    BY <2>1, <2>2, <2>3
<1> QED
  BY <1>4, <1>6, <1>7, <1>8 DEF StepTypes, BaseTypes, WalStep, TypeOK, promiseVars

\* A rule write of the operation in progress; the policy may change with it.
LEMMA WriteRuleTypes ==
    ASSUME TypeOK, NEW p \in Poolers, NEW kind \in {"probe", "rule"}, NEW pos \in PositionType,
           NEW phase \in {"finalize", "propose", "decide", "settle"},
           WriteRule(p, kind, pos, phase), guc' \in [Poolers -> SyncType]
    PROVE  StepTypes
<1>1. prim[p] \in Nat
  BY DEF TypeOK
<1>2. WalStep
  BY <1>1, AppendTypes DEF WriteRule
<1> DEFINE next == [op[p] EXCEPT !.phase = phase, !.await = Lsn(p) + 1]
<1>3. op[p] \in OpType /\ Lsn(p) + 1 \in Nat
  BY WalTypes DEF TypeOK
<1>4. next \in OpType
  BY <1>3 DEF OpType
<1>5. op' = [op EXCEPT ![p] = next]
  BY <1>3 DEF WriteRule, TypeOK
<1> HIDE DEF next
<1>6. op' \in [Poolers -> OpType]
  BY <1>4, <1>5 DEF TypeOK
<1> QED
  BY <1>2, <1>6
     DEF StepTypes, BaseTypes, WalStep, TypeOK, WriteRule, promiseVars, memVars

\* The steps of a rule change.
LEMMA RuleStepTypes ==
    ASSUME TypeOK, NEW p \in Poolers, RuleStep(p)
    PROVE  StepTypes
<1>1. /\ op[p] \in OpType
      /\ op[p].rule \in RuleType
      /\ LastPos(p) \in PositionType
      /\ LastPos(p).decision \in RuleType
      /\ LastPos(p).proposal \in RuleType
  BY WalTypes, PositionParts DEF TypeOK, OpType
<1>2. guc \in [Poolers -> SyncType]
  BY DEF TypeOK
<1>3. CASE ConfirmProposalQuorum(p)
  BY <1>1, <1>2, <1>3, WriteRuleTypes DEF ConfirmProposalQuorum
<1>4. CASE FinalizeStuckProposal(p)
  <2>1. Decided(LastPos(p).proposal) \in PositionType
    BY <1>1, PositionParts
  <2> QED
    BY <1>2, <1>4, <2>1, WriteRuleTypes DEF FinalizeStuckProposal
<1>5. CASE WriteRuleProposal(p)
  <2>1. TransitionPolicy(LastPos(p).decision, op[p].rule) \in PolicyCohortType
    BY <1>1, PolicyTypes
  <2>2. guc' \in [Poolers -> SyncType]
    BY <1>5, <2>1, SetPolicyTypes DEF WriteRuleProposal
  <2>3. [decision |-> LastPos(p).decision, proposal |-> op[p].rule] \in PositionType
    BY <1>1, PositionParts
  <2> QED
    BY <1>5, <2>2, <2>3, WriteRuleTypes DEF WriteRuleProposal
<1>6. CASE MarkProposalAsDecision(p)
  <2>1. Decided(op[p].rule) \in PositionType
    BY <1>1, PositionParts
  <2> QED
    BY <1>2, <1>6, <2>1, WriteRuleTypes DEF MarkProposalAsDecision
<1>7. CASE SettleRule(p)
  <2> DEFINE entry == [pos |-> Decided(op[p].rule), primary |-> p, rewindReady |-> FALSE]
  <2>1. entry \in PrimaryType
    <3>1. Decided(op[p].rule) \in PositionType /\ FALSE \in BOOLEAN
      BY <1>1, PositionParts
    <3> QED
      BY <3>1, Zenon DEF PrimaryType
  <2>2. rp' \in [Poolers -> PrimaryType]
    <3>1. rp' = rp \/ rp' = [rp EXCEPT ![p] = MergeReplicationPrimary(rp[p], entry)]
      BY <1>7 DEF SettleRule
    <3> HIDE DEF entry
    <3> QED
      <4>1. rp[p] \in PrimaryType /\ rp \in [Poolers -> PrimaryType]
        BY DEF TypeOK
      <4>2. MergeReplicationPrimary(rp[p], entry) \in PrimaryType
        BY <2>1, <4>1, MergeType
      <4> QED
        BY <3>1, <4>1, <4>2
  <2>3. guc' \in [Poolers -> SyncType]
    <3>1. PolicyWithCohort(op[p].rule) \in PolicyCohortType
      BY <1>1, PolicyTypes
    <3> QED
      BY <1>7, <3>1, SetPolicyTypes DEF SettleRule
  <2>4. op' \in [Poolers -> OpType]
    BY <1>7, NothingTypes DEF SettleRule, TypeOK
  <2>5. WalStep
    BY <1>7, WalUnchanged DEF SettleRule
  <2> QED
    BY <1>7, <2>2, <2>3, <2>4, <2>5
       DEF StepTypes, BaseTypes, WalStep, TypeOK, SettleRule, promiseVars
<1> QED
  BY <1>3, <1>4, <1>5, <1>6, <1>7 DEF RuleStep

\* Using up a part of a bound.
LEMMA SpentTypes ==
    ASSUME spent \in SpentType
    PROVE  /\ [spent EXCEPT !.writes = @ + 1] \in SpentType
           /\ [spent EXCEPT !.crashes = @ + 1] \in SpentType
           /\ [spent EXCEPT !.changes = @ + 1] \in SpentType
           /\ [spent EXCEPT !.aborts = @ + 1] \in SpentType
<1>1. /\ spent.writes + 1 \in Nat /\ spent.crashes + 1 \in Nat
      /\ spent.changes + 1 \in Nat /\ spent.aborts + 1 \in Nat
  BY DEF SpentType
<1> QED
  BY <1>1 DEF SpentType

\* The end of an operation's context, and the start of a leader-led change.
LEMMA OperationTypes ==
    ASSUME TypeOK, NEW p \in Poolers,
           AbortOperation(p) \/ \E cohort \in SUBSET Poolers : UpdateConsensusRule(p, cohort)
    PROVE  StepTypes
<1>1. UNCHANGED <<pgVars, promiseVars, memVars, rounds>>
  BY DEF AbortOperation, UpdateConsensusRule
<1>2. WalStep
  BY <1>1, WalUnchanged DEF pgVars
<1>3. op' \in [Poolers -> OpType] /\ spent' \in SpentType
  <2>1. CASE AbortOperation(p)
    <3>1. op' = [op EXCEPT ![p] = NoOp] /\ spent' = [spent EXCEPT !.aborts = @ + 1]
      BY <2>1 DEF AbortOperation
    <3> QED
      BY <3>1, NothingTypes, SpentTypes DEF TypeOK
  <2>2. ASSUME NEW cohort \in SUBSET Poolers, UpdateConsensusRule(p, cohort)
        PROVE  op' \in [Poolers -> OpType] /\ spent' \in SpentType
    <3> DEFINE current == Visible(p).decision
               rule == [current EXCEPT !.num.subterm = @ + 1, !.cohort = cohort]
               started == [phase |-> "propose", round |-> 0, rule |-> rule, await |-> 0]
    <3>1. current \in RuleType
      BY WalTypes, PositionParts
    <3> HIDE DEF current
    <3>2. rule \in RuleType
      <4>1. current.num.subterm + 1 \in Nat
        BY <3>1 DEF RuleType, RuleNumber
      <4> QED
        BY <3>1, <4>1 DEF RuleType, RuleNumber
    <3>3. op' = [op EXCEPT ![p] = started] /\ spent' = [spent EXCEPT !.changes = @ + 1]
      BY <2>2 DEF UpdateConsensusRule, current
    <3> HIDE DEF rule
    <3>4. started \in OpType
      BY <3>2, ConstantsAssumption DEF OpType
    <3> HIDE DEF started
    <3> QED
      BY <3>3, <3>4, SpentTypes DEF TypeOK
  <2> QED
    BY <2>1, <2>2
<1> QED
  BY <1>1, <1>2, <1>3
     DEF StepTypes, BaseTypes, TypeOK, pgVars, promiseVars, memVars

\* A rewind and restart as a standby.
LEMMA RestartTypes ==
    ASSUME TypeOK, NEW p \in Poolers, NEW leader \in Poolers, RestartAsStandby(p, leader)
    PROVE  /\ WalStep
           /\ prim' \in [Poolers -> Nat]
           /\ conn' \in [Poolers -> Poolers \cup {None}]
           /\ guc' \in [Poolers -> SyncType]
           /\ floor' \in [Poolers -> FloorType]
           /\ suspect' \in [Poolers -> BOOLEAN]
<1>1. PICK n \in RewindPoints(p, leader) : wal' = [wal EXCEPT ![p] = SubSeq(wal[p], 1, n)]
  BY DEF RestartAsStandby
<1>2. n \in 1..Lsn(p) /\ Lsn(p) \in Nat
  BY RewindKeepsPrefix, WalTypes
<1>3. SubSeq(wal[p], 1, n) \in Seq(RecordType) /\ Len(SubSeq(wal[p], 1, n)) = n
  BY <1>2, WalTypes, SubSeqProperties DEF Lsn
<1>4. /\ prim' = [prim EXCEPT ![p] = 0]
      /\ floor' = [floor EXCEPT ![p] = [pos |-> Visible(p), lsn |-> Lsn(p)]]
  BY DEF RestartAsStandby
<1>5. [pos |-> Visible(p), lsn |-> Lsn(p)] \in FloorType
  BY <1>2, WalTypes DEF FloorType
<1>6. WalStep
  <2>1. \A q \in Poolers : Len(wal[q]) \in Nat \ {0}
    BY WalTypes DEF Lsn
  <2>2. wal' \in [Poolers -> Seq(RecordType)]
    BY <1>1, <1>3 DEF TypeOK
  <2>3. ASSUME NEW q \in Poolers
        PROVE  Len(wal'[q]) > 0 /\ (Len(wal'[q]) >= Len(wal[q]) \/ prim'[q] = 0)
    <3>1. CASE q = p
      <4>1. wal'[q] = SubSeq(wal[p], 1, n) /\ prim'[q] = 0
        BY <1>1, <1>4, <3>1 DEF TypeOK
      <4> QED
        BY <1>2, <1>3, <4>1
    <3>2. CASE q # p
      <4>1. wal'[q] = wal[q]
        BY <1>1, <3>2 DEF TypeOK
      <4> QED
        BY <2>1, <4>1
    <3> QED
      BY <3>1, <3>2
  <2> QED
    BY <2>2, <2>3 DEF WalStep
<1>7. suspect' \in [Poolers -> BOOLEAN]
  BY DEF RestartAsStandby, TypeOK
<1> QED
  BY <1>4, <1>5, <1>6, <1>7, NothingTypes DEF RestartAsStandby, TypeOK

\* Being told of a replication primary.
LEMMA SetPrimaryTypes ==
    ASSUME TypeOK, NEW p \in Poolers, NEW m \in Announcements, SetPrimary(p, m)
    PROVE  StepTypes
<1>1. m \in PrimaryType /\ m.primary \in Poolers \cup {None}
  BY AnnouncementType DEF PrimaryType
<1>2. m.primary \in Poolers
  BY <1>1 DEF SetPrimary
<1> DEFINE merged == MergeReplicationPrimary(rp[p], m)
           follow == IF prim[p] = 0 /\ ConnInfoReconcileAllowed(p, merged)
                     THEN merged.primary ELSE conn[p]
<1>3. merged \in PrimaryType
  BY <1>1, MergeType DEF TypeOK
<1>4. rp' = [rp EXCEPT ![p] = merged] /\ UNCHANGED <<op, rev, rounds, spent>>
  BY DEF SetPrimary
<1>5. follow \in Poolers \cup {None}
  BY <1>3 DEF PrimaryType, TypeOK
<1>6. \/ conn' = [conn EXCEPT ![p] = follow] /\ UNCHANGED <<wal, prim, guc, floor, suspect>>
      \/ conn' = [conn EXCEPT ![p] = m.primary] /\ UNCHANGED <<wal, prim, guc, floor, suspect>>
      \/ suspect' = [suspect EXCEPT ![p] = TRUE] /\ UNCHANGED <<wal, prim, conn, guc, floor>>
      \/ RestartAsStandby(p, m.primary)
  BY DEF SetPrimary, pgVars
<1> HIDE DEF merged, follow
<1>7. rp' \in [Poolers -> PrimaryType]
  BY <1>3, <1>4 DEF TypeOK
<1>8. /\ WalStep
      /\ prim' \in [Poolers -> Nat]
      /\ conn' \in [Poolers -> Poolers \cup {None}]
      /\ guc' \in [Poolers -> SyncType]
      /\ floor' \in [Poolers -> FloorType]
      /\ suspect' \in [Poolers -> BOOLEAN]
  <2>1. CASE RestartAsStandby(p, m.primary)
    BY <1>2, <2>1, RestartTypes
  <2>2. CASE \E c \in Poolers \cup {None} :
               conn' = [conn EXCEPT ![p] = c] /\ UNCHANGED <<wal, prim, guc, floor, suspect>>
    BY <2>2, WalUnchanged DEF TypeOK
  <2>3. CASE suspect' = [suspect EXCEPT ![p] = TRUE] /\ UNCHANGED <<wal, prim, conn, guc, floor>>
    BY <2>3, WalUnchanged DEF TypeOK
  <2> QED
    BY <1>1, <1>5, <1>6, <2>1, <2>2, <2>3
<1> QED
  BY <1>4, <1>7, <1>8 DEF StepTypes, BaseTypes, WalStep, TypeOK

\* The monitor's remedial actions.
LEMMA MonitorStepTypes ==
    ASSUME TypeOK, NEW p \in Poolers, MonitorStep(p)
    PROVE  StepTypes
<1>1. rp[p] \in PrimaryType /\ rp[p].primary \in Poolers \cup {None}
  BY DEF TypeOK, PrimaryType
<1>2. CASE FixPrimaryConnInfo(p)
  <2>1. conn' \in [Poolers -> Poolers \cup {None}]
    BY <1>1, <1>2 DEF FixPrimaryConnInfo, TypeOK
  <2>2. WalStep
    BY <1>2, WalUnchanged DEF FixPrimaryConnInfo
  <2> QED
    BY <1>2, <2>1, <2>2
       DEF FixPrimaryConnInfo, StepTypes, BaseTypes, TypeOK, promiseVars, memVars
<1>3. CASE MarkStandbyDiverged(p)
  <2>1. suspect' \in [Poolers -> BOOLEAN]
    BY <1>3 DEF MarkStandbyDiverged, TypeOK
  <2>2. WalStep
    BY <1>3, WalUnchanged DEF MarkStandbyDiverged, pgVars
  <2> QED
    BY <1>3, <2>1, <2>2
       DEF MarkStandbyDiverged, StepTypes, BaseTypes, TypeOK, pgVars, promiseVars
<1>4. CASE RewindToLeader(p) \/ DemoteStalePrimary(p)
  <2>1. /\ rp[p].primary \in Poolers
        /\ RestartAsStandby(p, rp[p].primary)
        /\ UNCHANGED <<op, rev, rp, rounds, spent>>
    BY <1>1, <1>4 DEF RewindToLeader, DemoteStalePrimary, ConnInfoReconcileAllowed
  <2>2. /\ WalStep
        /\ prim' \in [Poolers -> Nat]
        /\ conn' \in [Poolers -> Poolers \cup {None}]
        /\ guc' \in [Poolers -> SyncType]
        /\ floor' \in [Poolers -> FloorType]
        /\ suspect' \in [Poolers -> BOOLEAN]
    BY <2>1, RestartTypes
  <2> QED
    BY <2>1, <2>2 DEF StepTypes, BaseTypes, WalStep, TypeOK
<1>5. CASE ReconcileGUC(p)
  <2>1. ExpectedSyncStandbyPolicy(Visible(p)) \in PolicyCohortType
    BY WalTypes, PolicyTypes
  <2>2. guc' \in [Poolers -> SyncType]
    BY <1>5, <2>1, SetPolicyTypes DEF ReconcileGUC
  <2>3. WalStep
    BY <1>5, WalUnchanged DEF ReconcileGUC
  <2> QED
    BY <1>5, <2>2, <2>3
       DEF ReconcileGUC, StepTypes, BaseTypes, TypeOK, promiseVars, memVars
<1> QED
  BY <1>2, <1>3, <1>4, <1>5 DEF MonitorStep

\* Streaming one record.
LEMMA StreamTypes ==
    ASSUME TypeOK, NEW s \in Poolers, Stream(s)
    PROVE  StepTypes
<1> DEFINE p == conn[s]
           record == wal[p][Lsn(s) + 1]
<1>1. p \in Poolers
  BY DEF Stream, TypeOK
<1>2. Lsn(s) \in Nat \ {0} /\ Lsn(p) \in Nat \ {0}
  BY <1>1, WalTypes
<1>3. Lsn(s) < Lsn(p)
  <2>1. IsPrefix(wal[s], wal[p]) /\ wal[s] # wal[p]
    BY DEF Stream, IsStrictPrefix
  <2>2. Lsn(s) <= Lsn(p) /\ SubSeq(wal[s], 1, Lsn(s)) = SubSeq(wal[p], 1, Lsn(s))
    BY <2>1 DEF IsPrefix, Lsn
  <2>3. CASE Lsn(s) = Lsn(p)
    <3>1. wal[s] \in Seq(RecordType) /\ wal[p] \in Seq(RecordType)
      BY <1>1, WalTypes
    <3>2. SubSeq(wal[s], 1, Lsn(s)) = wal[s] /\ SubSeq(wal[p], 1, Lsn(p)) = wal[p]
      BY <3>1, SubSeqFull DEF Lsn
    <3> QED
      BY <2>1, <2>2, <2>3, <3>2
  <2> QED
    BY <1>2, <2>2, <2>3
<1>4. record \in RecordType
  <2>1. Lsn(s) + 1 \in 1..Lsn(p)
    BY <1>2, <1>3
  <2> QED
    BY <1>1, <2>1, WalTypes
<1>5. wal' = [wal EXCEPT ![s] = Append(wal[s], record)]
      /\ UNCHANGED <<prim, conn, guc, op, promiseVars, memVars, rounds, spent>>
  BY DEF Stream
<1> HIDE DEF record, p
<1>6. WalStep
  <2>1. PICK by \in Nat, kind \in {"switch", "probe", "rule", "data"}, pos \in PositionType :
            record = [by |-> by, kind |-> kind, pos |-> pos]
    BY <1>4 DEF RecordType
  <2>2. AppendRecord(s, by, kind, pos)
    BY <1>5, <2>1 DEF AppendRecord
  <2> QED
    BY <2>2, AppendTypes
<1> QED
  BY <1>5, <1>6 DEF StepTypes, BaseTypes, WalStep, TypeOK, promiseVars, memVars

\* A client's write.
LEMMA ClientWriteTypes ==
    ASSUME TypeOK, NEW p \in Poolers, ClientWrite(p)
    PROVE  StepTypes
<1>1. prim[p] \in Nat /\ LastPos(p) \in PositionType
  BY WalTypes DEF TypeOK
<1>2. WalStep
  BY <1>1, AppendTypes DEF ClientWrite
<1>3. spent' \in SpentType
  BY SpentTypes DEF ClientWrite, TypeOK
<1> QED
  BY <1>2, <1>3
     DEF ClientWrite, StepTypes, BaseTypes, WalStep, TypeOK, promiseVars, memVars

\* Crashes of Postgres and of the pooler.
LEMMA CrashTypes ==
    ASSUME TypeOK, NEW p \in Poolers, PostgresCrash(p) \/ PoolerCrash(p)
    PROVE  StepTypes
<1>1. WalStep
  BY WalUnchanged DEF PostgresCrash, PoolerCrash, pgVars
<1>2. op' \in [Poolers -> OpType] /\ spent' \in SpentType
  BY NothingTypes, SpentTypes, ZenonT(60) DEF PostgresCrash, PoolerCrash, TypeOK
<1>3. CASE PostgresCrash(p)
  <2> DEFINE suspected == suspect[p] \/ PossiblyUndecidedRule(rp[p].pos).leader \notin {None, p}
  <2>1. suspected \in BOOLEAN
    OBVIOUS
  <2>2. suspect' = [suspect EXCEPT ![p] = suspected]
    BY <1>3 DEF PostgresCrash
  <2> HIDE DEF suspected
  <2>3. suspect' \in [Poolers -> BOOLEAN]
    BY <2>1, <2>2 DEF TypeOK
  <2>4. /\ prim' \in [Poolers -> Nat]
        /\ conn' \in [Poolers -> Poolers \cup {None}]
        /\ guc' \in [Poolers -> SyncType]
    <3>1. (IF suspect[p] THEN None ELSE conn[p]) \in Poolers \cup {None}
      BY DEF TypeOK
    <3> QED
      BY <1>3, <3>1, NothingTypes DEF PostgresCrash, TypeOK
  <2> QED
    BY <1>1, <1>2, <1>3, <2>3, <2>4
       DEF PostgresCrash, StepTypes, BaseTypes, WalStep, TypeOK, promiseVars
<1>4. CASE PoolerCrash(p)
  <2>1. suspect' \in [Poolers -> BOOLEAN]
    BY <1>4 DEF PoolerCrash, TypeOK
  <2>2. rp' \in [Poolers -> PrimaryType]
    BY <1>4, NothingTypes DEF PoolerCrash, TypeOK
  <2> QED
    BY <1>1, <1>2, <1>4, <2>1, <2>2
       DEF PoolerCrash, StepTypes, BaseTypes, WalStep, TypeOK, pgVars, promiseVars
<1> QED
  BY <1>3, <1>4

\* The release of commits: what a primary has released stays within its WAL,
\* and what a term has committed is a natural number.
LEMMA ReleaseTypes ==
    ASSUME TypeOK, StepTypes, ReleaseCommits
    PROVE  TypeOK'
<1>1. ASSUME NEW p \in Poolers
      PROVE  /\ Len(wal'[p]) \in Nat \ {0}
             /\ acked[p] \in Nat /\ acked[p] <= Len(wal[p]) /\ Len(wal[p]) \in Nat
             /\ prim'[p] = 0 \/ Len(wal'[p]) >= Len(wal[p])
             /\ prim[p] # 0 => acked[p] > 0
  <2>1. wal'[p] \in Seq(RecordType) /\ Len(wal'[p]) > 0
    BY DEF StepTypes, WalStep
  <2>2. Len(wal'[p]) \in Nat
    BY <2>1, LenProperties
  <2> QED
    BY <2>1, <2>2, WalTypes DEF StepTypes, WalStep, TypeOK, Lsn
<1> DEFINE flushed(p) == {acked[p]} \cup FlushedByQuorum(p)'
           released(p) == CASE prim'[p] = 0       -> 0
                            [] prim'[p] # prim[p] -> Len(wal'[p])
                            [] OTHER              -> Max(flushed(p))
<1>2. acked' = [p \in Poolers |-> released(p)]
  BY DEF ReleaseCommits
<1>3. ASSUME NEW p \in Poolers, prim'[p] # 0
      PROVE  Max(flushed(p)) \in flushed(p)
             /\ Max(flushed(p)) \in Nat
             /\ Max(flushed(p)) >= acked[p]
             /\ Max(flushed(p)) <= Len(wal'[p])
  <2>1. FlushedByQuorum(p)' \in SUBSET (1..Len(wal'[p]))
    BY DEF FlushedByQuorum, Lsn
  <2>2. flushed(p) \in SUBSET Nat /\ flushed(p) # {} /\ \A x \in flushed(p) : x <= Len(wal'[p])
    BY <1>1, <1>3, <2>1
  <2>3. acked[p] \in flushed(p)
    OBVIOUS
  <2> HIDE DEF flushed
  <2>4. Max(flushed(p)) \in flushed(p) /\ \A x \in flushed(p) : x <= Max(flushed(p))
    BY <1>1, <2>2, MaxOfBounded
  <2> QED
    BY <1>1, <2>2, <2>3, <2>4
<1> HIDE DEF flushed
<1>4. ASSUME NEW p \in Poolers
      PROVE  /\ released(p) \in Nat
             /\ released(p) <= Len(wal'[p])
             /\ prim'[p] # 0 => released(p) > 0
  <2>1. CASE prim'[p] = 0
    BY <1>1, <2>1
  <2>2. CASE prim'[p] # 0 /\ prim'[p] # prim[p]
    BY <1>1, <2>2
  <2>3. CASE prim'[p] # 0 /\ prim'[p] = prim[p]
    BY <1>1, <1>3, <2>3
  <2> QED
    BY <2>1, <2>2, <2>3
<1> HIDE DEF released
<1>5. /\ acked' \in [Poolers -> Nat]
      /\ \A p \in Poolers : acked'[p] <= Len(wal'[p]) /\ (prim'[p] # 0 => acked'[p] > 0)
  BY <1>2, <1>4
<1> DEFINE committed(t) == {durable[t]} \cup UNION {Committed(p)' : p \in {q \in Poolers : prim'[q] = t}}
<1>6. durable' = [t \in Terms |-> Max(committed(t))]
  BY DEF ReleaseCommits
<1>7. ASSUME NEW t \in Terms
      PROVE  Max(committed(t)) \in Nat
  <2>1. durable[t] \in Nat
    BY DEF TypeOK
  <2>2. ASSUME NEW p \in Poolers
        PROVE  Committed(p)' \in SUBSET (1..Len(wal'[p]))
    <3>1. VisibleLsn(p)' \in 0..Len(wal'[p])
      BY <1>1, <1>5 DEF VisibleLsn, Lsn
    <3>2. Committed(p)' \in SUBSET (1..VisibleLsn(p)')
      BY DEF Committed
    <3>3. 1..VisibleLsn(p)' \in SUBSET (1..Len(wal'[p]))
      BY <1>1, <3>1
    <3> QED
      BY <3>2, <3>3
  <2> DEFINE lens == {Len(wal'[p]) : p \in Poolers}
  <2>3. lens \in SUBSET Nat /\ IsFiniteSet(lens)
    <3> DEFINE f == [p \in Poolers |-> Len(wal'[p])]
    <3>1. f \in Surjection(Poolers, lens)
      BY DEF Surjection
    <3> HIDE DEF f
    <3>2. IsFiniteSet(lens)
      BY <3>1, PoolersAssumption, FS_Surjection
    <3> QED
      BY <1>1, <3>2
  <2>4. PICK b \in Nat : \A x \in lens : x <= b
    <3> HIDE DEF lens
    <3> QED
      BY <2>3, FiniteIsBounded
  <2>5. PICK c \in Nat : c >= b /\ c >= durable[t]
    <3>1. b + durable[t] \in Nat /\ b + durable[t] >= b /\ b + durable[t] >= durable[t]
      BY <2>1, <2>4
    <3> QED
      BY <3>1
  <2>6. ASSUME NEW x \in committed(t)
        PROVE  x \in Nat /\ x <= c
    <3>1. CASE x = durable[t]
      BY <2>1, <2>5, <3>1
    <3>2. CASE \E p \in Poolers : x \in Committed(p)'
      <4>1. PICK p \in Poolers : x \in Committed(p)'
        BY <3>2
      <4>2. x \in 1..Len(wal'[p]) /\ Len(wal'[p]) \in Nat
        BY <1>1, <2>2, <4>1
      <4>3. Len(wal'[p]) <= b
        BY <2>4
      <4>4. c >= b
        BY <2>5
      <4> QED
        BY <4>2, <4>3, <4>4
    <3> QED
      BY <3>1, <3>2
  <2>7. durable[t] \in committed(t)
    OBVIOUS
  <2> HIDE DEF committed
  <2>8. committed(t) \in SUBSET Nat /\ committed(t) # {}
    BY <2>6, <2>7
  <2>9. Max(committed(t)) \in committed(t)
    BY <2>6, <2>8, MaxOfBounded
  <2> QED
    BY <2>8, <2>9
<1>8. durable' \in [Terms -> Nat]
  <2> HIDE DEF committed
  <2> QED
    BY <1>6, <1>7
<1>9. \A p \in Poolers : Lsn(p)' > 0 /\ acked'[p] <= Lsn(p)' /\ (prim'[p] # 0 => acked'[p] > 0)
  BY <1>1, <1>5 DEF Lsn
<1> QED
  BY <1>5, <1>8, <1>9 DEF StepTypes, BaseTypes, TypeOK

\* The initial state.
LEMMA InitTypes == Init => TypeOK
<1> SUFFICES ASSUME Init PROVE TypeOK
  OBVIOUS
<1> DEFINE first == [by |-> FirstTerm, kind |-> "rule", pos |-> Decided(InitialRule)]
           leader == InitialRule.leader
<1>1. /\ InitialRule \in RuleType
      /\ leader \in Poolers
      /\ Decided(InitialRule) \in PositionType
      /\ FirstTerm \in Nat
  BY ConstantsAssumption, RuleParts, PositionParts DEF FirstTerm
<1>2. first \in RecordType
  BY <1>1 DEF RecordType
<1>3. wal = [p \in Poolers |-> <<first>>]
  BY DEF Init
<1> HIDE DEF first
<1>4. <<first>> \in Seq(RecordType) /\ Len(<<first>>) = 1
  BY <1>2
<1>5. wal \in [Poolers -> Seq(RecordType)] /\ \A p \in Poolers : Lsn(p) = 1
  BY <1>3, <1>4 DEF Lsn
<1>6. prim \in [Poolers -> Nat] /\ acked \in [Poolers -> Nat] /\ durable \in [Terms -> Nat]
      /\ \A p \in Poolers : acked[p] <= 1 /\ (prim[p] # 0 => acked[p] > 0)
  BY <1>1 DEF Init
<1>7. conn \in [Poolers -> Poolers \cup {None}]
  BY <1>1 DEF Init
<1>8. guc \in [Poolers -> SyncType]
  <2>1. \A p : BuildSyncReplicationConfig(PolicyWithCohort(InitialRule), p) \in SyncType
    BY <1>1, PolicyTypes
  <2> QED
    BY <2>1, NothingTypes DEF Init
<1>9. /\ op \in [Poolers -> OpType]
      /\ rev \in [Poolers -> RevocationType]
      /\ floor \in [Poolers -> FloorType]
  BY NothingTypes, AbsentTypes DEF Init
<1>10. suspect \in [Poolers -> BOOLEAN]
  BY DEF Init
<1>11. rp \in [Poolers -> PrimaryType]
  <2> DEFINE known == [pos |-> Decided(InitialRule), primary |-> leader, rewindReady |-> TRUE]
  <2>1. leader \in Poolers \cup {None} /\ TRUE \in BOOLEAN
    BY <1>1
  <2>2. known \in PrimaryType
    BY <1>1, <2>1, Zenon DEF PrimaryType
  <2>3. rp = [p \in Poolers |-> known]
    BY DEF Init
  <2> HIDE DEF known
  <2> QED
    BY <2>2, <2>3
<1>12. rounds \in [Rounds -> RoundType]
  <2>1. IdleRound \in RoundType
    BY AbsentTypes DEF IdleRound, RoundType
  <2> QED
    BY <2>1 DEF Init
<1>13. spent \in SpentType
  BY DEF Init, SpentType
<1> QED
  BY <1>5, <1>6, <1>7, <1>8, <1>9, <1>10, <1>11, <1>12, <1>13 DEF TypeOK

\* Every step preserves the types.
LEMMA NextTypes ==
    ASSUME TypeOK, [Next]_vars
    PROVE  TypeOK'
<1>1. CASE Next
  <2>1. CASE Coordination
    <3>1. StepTypes
      BY <2>1, StartRoundTypes, RecruitTypes, PromoteTypes, SetPrimaryTypes DEF Coordination
    <3> QED
      BY <1>1, <3>1, ReleaseTypes DEF Next
  <2>2. ASSUME NEW p \in Poolers, Local(p) PROVE TypeOK'
    <3>1. StepTypes
      BY <2>2, RuleStepTypes, OperationTypes, MonitorStepTypes, StreamTypes,
         ClientWriteTypes, CrashTypes DEF Local
    <3> QED
      BY <1>1, <3>1, ReleaseTypes DEF Next
  <2> QED
    BY <1>1, <2>1, <2>2 DEF Next
<1>2. CASE UNCHANGED vars
  BY <1>2 DEF TypeOK, Lsn, vars
<1> QED
  BY <1>1, <1>2

\* Types, and that a primary's released commits lie within its WAL while a
\* standby has none, in every behaviour of a shard of any size.
THEOREM ShardTypes == Spec => []TypeOK
BY InitTypes, NextTypes, PTL DEF Spec

-----------------------------------------------------------------------------
(* The promise book.                                                       *)

\* A round that is idle has authored nothing; one that is not has authored a
\* revocation of a positive term under its own number.
RoundAuthored(r) ==
    IF rounds[r].phase = "idle"
    THEN rounds[r].rev = NoRevocation /\ rounds[r].accepted = {}
    ELSE rounds[r].rev.term # 0 /\ rounds[r].rev.at = r

\* A pooler's persisted revocation is the one of some round, or none.
PromiseOfRound(p) ==
    \/ rev[p] = NoRevocation
    \/ \E r \in Rounds : rounds[r].phase # "idle" /\ rev[p] = rounds[r].rev

PromiseInv ==
    /\ \A r \in Rounds : RoundAuthored(r)
    /\ \A p \in Poolers : PromiseOfRound(p)

PromiseNext ==
    \E r \in Rounds : \/ Promises!Author(r, rounds'[r].rev.term)
                      \/ \E p \in Poolers : Promises!Accept(r, p)

PromiseStep == PromiseInv' /\ (PromiseNext \/ UNCHANGED Promises!promises)

\* A step that changes neither a promise nor what a round authored and who
\* accepted it.
LEMMA SilentStep ==
    ASSUME TypeOK, TypeOK', PromiseInv, UNCHANGED rev,
           \A r \in Rounds : /\ rounds'[r].rev = rounds[r].rev
                             /\ rounds'[r].accepted = rounds[r].accepted
                             /\ rounds'[r].phase = "idle" <=> rounds[r].phase = "idle"
    PROVE  PromiseStep
<1>1. PromiseInv'
  BY DEF PromiseInv, RoundAuthored, PromiseOfRound
<1>2. UNCHANGED Promises!promises
  BY DEF Promises!promises
<1> QED
  BY <1>1, <1>2 DEF PromiseStep

\* Authoring a revocation.
LEMMA StartRoundPromises ==
    ASSUME TypeOK, TypeOK', PromiseInv, NEW r \in Rounds, NEW heard \in SUBSET Poolers,
           StartRound(r, heard)
    PROVE  PromiseStep
<1> DEFINE statuses == {Status(p) : p \in heard}
<1>1. statuses \in SUBSET StatusType
  BY StatusTyped
<1>2. PICK authored \in NewTermRevocations(statuses, CoordinatorOf[r], r) :
        rounds' = [rounds EXCEPT ![r].phase = "recruiting", ![r].rev = authored]
  BY DEF StartRound
<1> HIDE DEF statuses
<1>3. authored \in RevocationType /\ authored.term # 0 /\ authored.at = r
  BY <1>1, AuthoredType
<1>4. /\ rounds[r].phase = "idle" /\ rounds[r].rev = NoRevocation /\ rounds[r].accepted = {}
      /\ UNCHANGED rev
  BY DEF StartRound, PromiseInv, RoundAuthored, promiseVars
<1>5. /\ rounds'[r].phase = "recruiting"
      /\ rounds'[r].rev = authored
      /\ rounds'[r].accepted = rounds[r].accepted
      /\ \A q \in Rounds : q # r => rounds'[q] = rounds[q]
  BY <1>2 DEF TypeOK, RoundType
<1>6. PromiseInv'
  <2>1. \A q \in Rounds : RoundAuthored(q)'
    BY <1>3, <1>5 DEF PromiseInv, RoundAuthored
  <2>2. ASSUME NEW p \in Poolers PROVE PromiseOfRound(p)'
    <3>1. CASE rev[p] = NoRevocation
      BY <1>4, <3>1 DEF PromiseOfRound
    <3>2. CASE rev[p] # NoRevocation
      <4>1. PICK q \in Rounds : rounds[q].phase # "idle" /\ rev[p] = rounds[q].rev
        BY <3>2 DEF PromiseInv, PromiseOfRound
      <4>2. rounds'[q] = rounds[q]
        BY <1>4, <1>5, <4>1
      <4> QED
        BY <1>4, <4>1, <4>2 DEF PromiseOfRound
    <3> QED
      BY <3>1, <3>2
  <2> QED
    BY <2>1, <2>2 DEF PromiseInv
<1>7. Promises!Author(r, rounds'[r].rev.term)
  <2>1. rounds'[r].rev.term \in Nat \ {0}
    BY <1>3, <1>5 DEF RevocationType
  <2>2. rounds[r].rev.term = 0
    BY <1>4 DEF NoRevocation
  <2>3. [q \in Rounds |-> rounds'[q].rev.term] =
          [[q \in Rounds |-> rounds[q].rev.term] EXCEPT ![r] = rounds'[r].rev.term]
    BY <1>5
  <2>4. [q \in Rounds |-> rounds'[q].accepted] = [q \in Rounds |-> rounds[q].accepted]
    BY <1>5
  <2>5. [p \in Poolers |-> rev'[p].at] = [p \in Poolers |-> rev[p].at]
    BY <1>4
  <2> QED
    BY <2>1, <2>2, <2>3, <2>4, <2>5 DEF Promises!Author
<1> QED
  BY <1>6, <1>7 DEF PromiseStep, PromiseNext

\* The round that has the pooler's acceptance, whatever else the answer leads to.
LEMMA RecruitJoins ==
    ASSUME TypeOK, NEW r \in Rounds, NEW p \in Poolers, rounds[r].phase # "idle",
           \/ CollectRecruit(r, [id |-> p, pos |-> LastPos(p), lsn |-> Lsn(p)])
           \/ rounds' = [rounds EXCEPT ![r].accepted = @ \cup {p}]
    PROVE  /\ rounds'[r].phase # "idle"
           /\ rounds'[r].rev = rounds[r].rev
           /\ rounds'[r].accepted = rounds[r].accepted \cup {p}
           /\ \A q \in Rounds : q # r => rounds'[q] = rounds[q]
<1>1. rounds[r] \in RoundType /\ rounds \in [Rounds -> RoundType]
  BY DEF TypeOK
<1> DEFINE status == [id |-> p, pos |-> LastPos(p), lsn |-> Lsn(p)]
           recruits == rounds[r].recruits \cup {status}
           joined == [rounds[r] EXCEPT !.accepted = @ \cup {p}]
<1>2. /\ joined.phase = rounds[r].phase
      /\ joined.rev = rounds[r].rev
      /\ joined.accepted = rounds[r].accepted \cup {p}
      /\ joined \in RoundType
  BY <1>1 DEF RoundType
<1>3. \/ rounds' = [rounds EXCEPT ![r] = joined]
      \/ rounds' = [rounds EXCEPT ![r] = [joined EXCEPT !.recruits = recruits]]
      \/ \E transition : rounds' = [rounds EXCEPT ![r] =
            [joined EXCEPT !.phase = "proposed", !.recruits = {}, !.transition = transition]]
  BY DEF CollectRecruit
<1> HIDE DEF joined, recruits
<1>4. CASE rounds' = [rounds EXCEPT ![r] = joined]
  BY <1>1, <1>2, <1>4
<1>5. CASE rounds' = [rounds EXCEPT ![r] = [joined EXCEPT !.recruits = recruits]]
  BY <1>1, <1>2, <1>5 DEF RoundType
<1>6. CASE \E transition : rounds' = [rounds EXCEPT ![r] =
            [joined EXCEPT !.phase = "proposed", !.recruits = {}, !.transition = transition]]
  BY <1>1, <1>2, <1>6 DEF RoundType
<1> QED
  BY <1>3, <1>4, <1>5, <1>6

\* Accepting a revocation.
LEMMA RecruitPromises ==
    ASSUME TypeOK, TypeOK', PromiseInv, NEW r \in Rounds, NEW p \in Poolers, Recruit(r, p)
    PROVE  PromiseStep
<1> DEFINE authored == rounds[r].rev
<1>1. CASE UNCHANGED <<rev, rounds>>
  BY <1>1, SilentStep
<1>2. CASE ~UNCHANGED <<rev, rounds>>
  <2>1. /\ rev' = [rev EXCEPT ![p] = authored]
        /\ \/ CollectRecruit(r, [id |-> p, pos |-> LastPos(p), lsn |-> Lsn(p)])
           \/ rounds' = [rounds EXCEPT ![r].accepted = @ \cup {p}]
        /\ rounds[r].phase # "idle"
        /\ ValidateRevocation(Visible(p), FloorOutstanding(p, Visible(p)), rev[p], authored)
    BY <1>2 DEF Recruit
  <2>2. /\ rounds'[r].phase # "idle"
        /\ rounds'[r].rev = authored
        /\ rounds'[r].accepted = rounds[r].accepted \cup {p}
        /\ \A q \in Rounds : q # r => rounds'[q] = rounds[q]
    BY <2>1, RecruitJoins
  <2>3. authored.term # 0 /\ authored.at = r
    BY <2>1 DEF PromiseInv, RoundAuthored
  <2>4. rev'[p] = authored /\ \A q \in Poolers : q # p => rev'[q] = rev[q]
    BY <2>1 DEF TypeOK
  <2>5. PromiseInv'
    <3>1. \A q \in Rounds : RoundAuthored(q)'
      BY <2>2, <2>3 DEF PromiseInv, RoundAuthored
    <3>2. ASSUME NEW q \in Poolers PROVE PromiseOfRound(q)'
      <4>1. CASE q = p
        BY <2>2, <2>4, <4>1 DEF PromiseOfRound
      <4>2. CASE q # p
        BY <2>2, <2>4, <4>2 DEF PromiseInv, PromiseOfRound
      <4> QED
        BY <4>1, <4>2
    <3> QED
      BY <3>1, <3>2 DEF PromiseInv
  <2>6. rev[p].at \notin {0, r} =>
          /\ rev[p].at \in Rounds
          /\ rounds[rev[p].at].rev.term < rounds[r].rev.term
    <3> SUFFICES ASSUME rev[p].at \notin {0, r}
                 PROVE  /\ rev[p].at \in Rounds
                        /\ rounds[rev[p].at].rev.term < rounds[r].rev.term
      OBVIOUS
    <3>1. rev[p] # NoRevocation
      BY DEF NoRevocation
    <3>2. PICK q \in Rounds : rounds[q].phase # "idle" /\ rev[p] = rounds[q].rev
      BY <3>1 DEF PromiseInv, PromiseOfRound
    <3>3. rev[p].at = q /\ rev[p].term # 0
      BY <3>2 DEF PromiseInv, RoundAuthored
    <3>4. rev[p].term <= authored.term /\ (rev[p].term = authored.term => rev[p].at = authored.at)
      BY <2>1, <3>3 DEF ValidateRevocation
    <3>5. rev[p].term \in Nat /\ authored.term \in Nat
      BY DEF TypeOK, RoundType, RevocationType
    <3>6. rev[p].term < authored.term
      BY <2>3, <3>4, <3>5
    <3> QED
      BY <3>2, <3>3, <3>6
  <2>7. Promises!Accept(r, p)
    <3>1. [q \in Rounds |-> rounds'[q].rev.term] = [q \in Rounds |-> rounds[q].rev.term]
      BY <2>2
    <3>2. [q \in Poolers |-> rev'[q].at] = [[q \in Poolers |-> rev[q].at] EXCEPT ![p] = r]
      BY <2>3, <2>4
    <3>3. [q \in Rounds |-> rounds'[q].accepted] =
            [[q \in Rounds |-> rounds[q].accepted] EXCEPT ![r] = rounds[r].accepted \cup {p}]
      BY <2>2
    <3> QED
      BY <2>3, <2>6, <3>1, <3>2, <3>3 DEF Promises!Accept, Promises!MayAccept
  <2> QED
    BY <2>5, <2>7 DEF PromiseStep, PromiseNext
<1> QED
  BY <1>1, <1>2

\* Every step of the shard is a step of the promises, or none.
LEMMA NextPromises ==
    ASSUME TypeOK, TypeOK', PromiseInv, [Next]_vars
    PROVE  PromiseStep
<1>1. CASE UNCHANGED <<rev, rounds>>
  BY <1>1, SilentStep
<1>2. ASSUME NEW r \in Rounds, NEW heard \in SUBSET Poolers, StartRound(r, heard)
      PROVE  PromiseStep
  BY <1>2, StartRoundPromises
<1>3. ASSUME NEW r \in Rounds, NEW p \in Poolers, Recruit(r, p)
      PROVE  PromiseStep
  BY <1>3, RecruitPromises
<1>4. ASSUME NEW r \in Rounds, Promote(r)
      PROVE  PromiseStep
  <2>1. UNCHANGED rev /\ rounds' = [rounds EXCEPT ![r].phase = "promoting"]
        /\ rounds[r].phase = "proposed"
    BY <1>4, PromoteFrame DEF promiseVars
  <2>2. \A q \in Rounds : /\ rounds'[q].rev = rounds[q].rev
                          /\ rounds'[q].accepted = rounds[q].accepted
                          /\ rounds'[q].phase = "idle" <=> rounds[q].phase = "idle"
    BY <2>1 DEF TypeOK, RoundType
  <2> QED
    BY <2>1, <2>2, SilentStep, SMTT(30)
<1>5. ASSUME NEW p \in Poolers, NEW m, SetPrimary(p, m)
      PROVE  UNCHANGED <<rev, rounds>>
  BY <1>5 DEF SetPrimary
<1>6. ASSUME NEW p \in Poolers, Local(p)
      PROVE  UNCHANGED <<rev, rounds>>
  <2>1. CASE RuleStep(p)
    BY <2>1 DEF RuleStep, ConfirmProposalQuorum, FinalizeStuckProposal, WriteRuleProposal,
                MarkProposalAsDecision, SettleRule, WriteRule, promiseVars
  <2>2. CASE MonitorStep(p)
    BY <2>2 DEF MonitorStep, FixPrimaryConnInfo, MarkStandbyDiverged, RewindToLeader,
                DemoteStalePrimary, ReconcileGUC, promiseVars
  <2>3. CASE AbortOperation(p) \/ \E cohort \in SUBSET Poolers : UpdateConsensusRule(p, cohort)
    BY <2>3 DEF AbortOperation, UpdateConsensusRule, promiseVars
  <2>4. CASE Stream(p) \/ ClientWrite(p) \/ PostgresCrash(p) \/ PoolerCrash(p)
    BY <2>4 DEF Stream, ClientWrite, PostgresCrash, PoolerCrash, promiseVars
  <2> QED
    BY <1>6, <2>1, <2>2, <2>3, <2>4 DEF Local
<1>7. UNCHANGED vars => UNCHANGED <<rev, rounds>>
  BY DEF vars
<1> QED
  BY <1>1, <1>2, <1>3, <1>4, <1>5, <1>6, <1>7 DEF Next, Coordination

\* Nothing is promised initially.
LEMMA InitPromises == Init => PromiseInv /\ Promises!Init
<1> SUFFICES ASSUME Init PROVE PromiseInv /\ Promises!Init
  OBVIOUS
<1>1. rounds = [r \in Rounds |-> IdleRound] /\ rev = [p \in Poolers |-> NoRevocation]
  BY DEF Init
<1>2. PromiseInv
  BY <1>1 DEF PromiseInv, RoundAuthored, PromiseOfRound, IdleRound
<1>3. Promises!Init
  BY <1>1 DEF Promises!Init, IdleRound, NoRevocation
<1> QED
  BY <1>2, <1>3

\* What a pooler has persisted is what some round authored, always.
THEOREM PromisesAuthored == Spec => []PromiseInv
<1>1. TypeOK /\ TypeOK' /\ PromiseInv /\ [Next]_vars => PromiseInv'
  BY NextPromises DEF PromiseStep
<1> QED
  BY <1>1, InitPromises, ShardTypes, PTL DEF Spec

\* The shard keeps the promises: a revocation is authored once, and a pooler
\* accepts only a later term than the one it has accepted, or the same attempt
\* again, in every interleaving of rounds, retries, crashes and restarts.
THEOREM ShardKeepsPromises == Spec => PromisesKept
<1>1. TypeOK /\ TypeOK' /\ PromiseInv /\ [Next]_vars => [PromiseNext]_(Promises!promises)
  BY NextPromises DEF PromiseStep
<1> QED
  BY <1>1, InitPromises, ShardTypes, PromisesAuthored, PTL DEF Spec, PromisesKept, PromiseNext

\* The shard implements the abstract promise book.
THEOREM ShardImplementsPromises == Spec => Promises!Spec
<1>1. TypeOK /\ TypeOK' /\ PromiseInv /\ [Next]_vars => [Promises!Next]_(Promises!promises)
  <2> SUFFICES ASSUME TypeOK, TypeOK', PromiseInv, [Next]_vars
               PROVE  Promises!Next \/ UNCHANGED Promises!promises
    OBVIOUS
  <2>1. PromiseNext \/ UNCHANGED Promises!promises
    BY NextPromises DEF PromiseStep
  <2>2. ASSUME NEW r \in Rounds, Promises!Author(r, rounds'[r].rev.term) PROVE Promises!Next
    BY <2>2 DEF Promises!Next, Promises!Author
  <2>3. ASSUME NEW r \in Rounds, NEW p \in Poolers, Promises!Accept(r, p) PROVE Promises!Next
    BY <2>3 DEF Promises!Next
  <2> QED
    BY <2>1, <2>2, <2>3 DEF PromiseNext
<1> QED
  BY <1>1, InitPromises, ShardTypes, PromisesAuthored, PTL DEF Spec, Promises!Spec

Book == INSTANCE TermPromisesProofs WITH
    Attempts <- Rounds,
    Terms    <- Nat \ {0},
    term     <- [r \in Rounds |-> rounds[r].rev.term],
    promise  <- [p \in Poolers |-> rev[p].at],
    accepted <- [r \in Rounds |-> rounds[r].accepted]

\* Of the rounds at one term, whoever runs them, at most one gathers a majority
\* of any cohort, in every behaviour of a shard of any size.
THEOREM OneWinnerPerTerm == Spec => []OneWinner
<1>1. Book!PromisesAssumption
  <2>1. Book!IsFiniteSet(Poolers)
    BY PoolersAssumption DEF IsFiniteSet, Book!IsFiniteSet
  <2>2. 0 \notin Rounds
    BY DEF Rounds
  <2> QED
    BY <2>1, <2>2 DEF Book!PromisesAssumption
<1>2. Init => Book!Inv
  <2>1. Promises!Init => Book!Inv
    BY <1>1, Book!InitInv DEF Promises!Init, Book!Init
  <2> QED
    BY <2>1, InitPromises
<1>3. ASSUME Book!Inv, NEW r \in Rounds, NEW t \in Nat \ {0}, Book!Author(r, t)
      PROVE  Book!Inv'
  BY <1>1, <1>3, Book!AuthorInv
<1>4. ASSUME Book!Inv, NEW r \in Rounds, NEW p \in Poolers, Book!Accept(r, p)
      PROVE  Book!Inv'
  BY <1>1, <1>4, Book!AcceptInv
<1>5. ASSUME Book!Inv, UNCHANGED Book!promises
      PROVE  Book!Inv'
  BY <1>1, <1>5, Book!StutterInv
<1>6. TypeOK /\ TypeOK' /\ PromiseInv /\ [Next]_vars /\ Book!Inv => Book!Inv'
  <2> SUFFICES ASSUME TypeOK, TypeOK', PromiseInv, [Next]_vars, Book!Inv
               PROVE  Book!Inv'
    OBVIOUS
  <2>1. PromiseNext \/ UNCHANGED Promises!promises
    BY NextPromises DEF PromiseStep
  <2>2. ASSUME NEW r \in Rounds, Promises!Author(r, rounds'[r].rev.term)
        PROVE  Book!Inv'
    <3>1. PICK t \in Nat \ {0} : Promises!Author(r, t)
      BY <2>2 DEF Promises!Author
    <3>2. Book!Author(r, t)
      BY <3>1 DEF Promises!Author, Book!Author
    <3> QED
      BY <1>3, <3>2
  <2>3. ASSUME NEW r \in Rounds, NEW p \in Poolers, Promises!Accept(r, p)
        PROVE  Book!Inv'
    <3>1. Book!Accept(r, p)
      BY <2>3 DEF Promises!Accept, Promises!MayAccept, Book!Accept, Book!MayAccept
    <3> QED
      BY <1>4, <3>1
  <2>4. CASE UNCHANGED Promises!promises
    <3>1. UNCHANGED Book!promises
      BY <2>4 DEF Promises!promises, Book!promises
    <3> QED
      BY <1>5, <3>1
  <2> QED
    BY <2>1, <2>2, <2>3, <2>4 DEF PromiseNext
<1>7. Book!Inv => OneWinner
  <2>1. Book!Inv => Book!OneWinner
    BY <1>1, Book!InvOneWinner
  <2>2. \A S : Book!Cardinality(S) = Promises!Cardinality(S)
    BY DEF Book!Cardinality, Promises!Cardinality
  <2> QED
    BY <2>1, <2>2 DEF OneWinner, Promises!OneWinner, Book!OneWinner, Promises!Majority, Book!Majority
<1>8. Spec => []Book!Inv
  BY <1>2, <1>6, ShardTypes, PromisesAuthored, PTL DEF Spec
<1> QED
  BY <1>7, <1>8, PTL

-----------------------------------------------------------------------------
(* The rule position of every WAL moves forward.                           *)


\* What the record after a given one may do to the rule position.
Follows(before, after) ==
    \/ after = before
    \/ /\ IsRuleDecided(before)
       /\ after.decision = before.decision
       /\ CompareRuleNumbers(after.proposal.num, before.decision.num) > 0
    \/ ~IsRuleDecided(before) /\ after = Decided(before.proposal)

OrderedHistory(w) == \A i \in 1..(Len(w) - 1) : Follows(w[i].pos, w[i + 1].pos)

\* While an operation holds the action lock its pooler is a primary that streams
\* from nobody, so its WAL ends where the operation has left it.
OperationOwnsWal(p) ==
    LET last == LastPos(p)
        rule == op[p].rule
    IN  /\ prim[p] # 0 => conn[p] = None
        /\ op[p].phase # "none" => prim[p] # 0
        /\ op[p].phase \in {"confirm", "finalize"} =>
             /\ ~IsRuleDecided(last)
             /\ CompareRuleNumbers(rule.num, last.proposal.num) > 0
        /\ op[p].phase = "propose" =>
             /\ IsRuleDecided(last)
             /\ CompareRuleNumbers(rule.num, last.decision.num) > 0
        /\ op[p].phase = "decide" =>
             /\ ~IsRuleDecided(last)
             /\ last.proposal = rule

HistoryOf(p) == OrderedHistory(wal[p]) /\ OperationOwnsWal(p)

HistoryInv == \A p \in Poolers : HistoryOf(p)

\* Appending a record that follows the last one.
LEMMA AppendHistory ==
    ASSUME NEW w \in Seq(RecordType), Len(w) > 0, OrderedHistory(w),
           NEW record \in RecordType, Follows(w[Len(w)].pos, record.pos)
    PROVE  /\ OrderedHistory(Append(w, record))
           /\ Append(w, record)[Len(Append(w, record))] = record
<1>1. Len(w) \in Nat
  BY LenProperties
<1>2. /\ Len(Append(w, record)) = Len(w) + 1
      /\ \A i \in 1..Len(w) : Append(w, record)[i] = w[i]
      /\ Append(w, record)[Len(w) + 1] = record
  BY AppendProperties
<1>3. ASSUME NEW i \in 1..(Len(Append(w, record)) - 1)
      PROVE  Follows(Append(w, record)[i].pos, Append(w, record)[i + 1].pos)
  <2>1. CASE i = Len(w)
    BY <1>1, <1>2, <2>1
  <2>2. CASE i # Len(w)
    <3>1. i \in 1..(Len(w) - 1) /\ i \in 1..Len(w) /\ i + 1 \in 1..Len(w)
      BY <1>1, <1>2, <2>2
    <3> QED
      BY <1>2, <3>1 DEF OrderedHistory
  <2> QED
    BY <2>1, <2>2
<1> QED
  BY <1>2, <1>3 DEF OrderedHistory

\* A prefix of an ordered history.
LEMMA PrefixHistory ==
    ASSUME NEW w \in Seq(RecordType), OrderedHistory(w), NEW n \in 1..Len(w)
    PROVE  OrderedHistory(SubSeq(w, 1, n))
<1>1. Len(w) \in Nat
  BY LenProperties
<1>2. /\ Len(SubSeq(w, 1, n)) = n
      /\ \A i \in 1..n : SubSeq(w, 1, n)[i] = w[i]
  BY <1>1, SubSeqProperties
<1> QED
  BY <1>1, <1>2 DEF OrderedHistory

\* A pooler whose WAL, operation and replication do not change.
LEMMA SameHistory ==
    ASSUME NEW q \in Poolers, HistoryOf(q), wal'[q] = wal[q], op'[q] = op[q],
           prim'[q] = prim[q], conn'[q] = conn[q]
    PROVE  HistoryOf(q)'
BY DEF HistoryOf, OrderedHistory, OperationOwnsWal, LastPos

\* A pooler that is no primary, does nothing and has a prefix of an ordered WAL.
LEMMA IdleHistory ==
    ASSUME NEW q \in Poolers, OrderedHistory(wal'[q]), op'[q].phase = "none",
           prim'[q] # 0 => conn'[q] = None
    PROVE  HistoryOf(q)'
BY DEF HistoryOf, OrderedHistory, OperationOwnsWal

\* Rule numbers are ordered, and a number above another is not the unset one.
LEMMA RuleNumbersOrdered ==
    ASSUME NEW a \in RuleNumber, NEW b \in RuleNumber
    PROVE  /\ CompareRuleNumbers(a, b) \in {-1, 0, 1}
           /\ CompareRuleNumbers(a, b) = 0 <=> a = b
           /\ CompareRuleNumbers(a, b) > 0 => ~RuleNumberIsUnset(a)
           /\ a.term > b.term => CompareRuleNumbers(a, b) > 0
<1>1. a.term \in Nat /\ b.term \in Nat /\ a.subterm \in Nat /\ b.subterm \in Nat
  BY DEF RuleNumber
<1>2. a = [term |-> a.term, subterm |-> a.subterm] /\ b = [term |-> b.term, subterm |-> b.subterm]
  BY DEF RuleNumber
<1> QED
  BY <1>1, <1>2 DEF CompareRuleNumbers, RuleNumberIsUnset

\* A step that appends one record to p's WAL and changes no other pooler.
LEMMA AppendStep ==
    ASSUME TypeOK, HistoryInv, NEW p \in Poolers, NEW term \in Nat, NEW pos \in PositionType,
           NEW kind \in {"switch", "probe", "rule", "data"},
           AppendRecord(p, term, kind, pos), Follows(LastPos(p), pos),
           UNCHANGED conn,
           \A q \in Poolers : q # p => prim'[q] = prim[q] /\ op'[q] = op[q]
    PROVE  /\ \A q \in Poolers : q # p => HistoryOf(q)'
           /\ OrderedHistory(wal[p])'
           /\ LastPos(p)' = pos
<1> DEFINE record == [by |-> term, kind |-> kind, pos |-> pos]
<1>1. record \in RecordType /\ record.pos = pos
  BY DEF RecordType
<1>2. wal' = [wal EXCEPT ![p] = Append(wal[p], record)]
  BY DEF AppendRecord
<1> HIDE DEF record
<1>3. wal'[p] = Append(wal[p], record) /\ \A q \in Poolers : q # p => wal'[q] = wal[q]
  BY <1>2 DEF TypeOK
<1>4. ASSUME NEW q \in Poolers, q # p PROVE HistoryOf(q)'
  BY <1>3, <1>4, SameHistory DEF HistoryInv
<1>5. wal[p] \in Seq(RecordType) /\ Len(wal[p]) > 0 /\ LastPos(p) = wal[p][Len(wal[p])].pos
  BY WalTypes DEF Lsn, LastPos, Last
<1>6. OrderedHistory(wal[p])
  BY DEF HistoryInv, HistoryOf
<1>7. OrderedHistory(wal'[p]) /\ wal'[p][Len(wal'[p])] = record
  BY <1>1, <1>3, <1>5, <1>6, AppendHistory
<1> QED
  BY <1>1, <1>4, <1>7 DEF OrderedHistory, LastPos, Last

\* A step that leaves the WALs and the operations alone and at most demotes or
\* redirects poolers that run none.
LEMMA QuietHistory ==
    ASSUME HistoryInv, UNCHANGED wal, NEW p \in Poolers,
           \A q \in Poolers : q # p => prim'[q] = prim[q] /\ conn'[q] = conn[q] /\ op'[q] = op[q],
           op'[p].phase = "none",
           prim'[p] # 0 => conn'[p] = None
    PROVE  HistoryInv'
<1>1. ASSUME NEW q \in Poolers, q # p PROVE HistoryOf(q)'
  BY <1>1, SameHistory DEF HistoryInv
<1>2. HistoryOf(p)'
  BY IdleHistory DEF HistoryInv, HistoryOf
<1> QED
  BY <1>1, <1>2 DEF HistoryInv

\* A step that touches neither WALs, operations nor replication.
LEMMA StillHistory ==
    ASSUME HistoryInv, UNCHANGED <<wal, prim, conn, op>>
    PROVE  HistoryInv'
BY SameHistory DEF HistoryInv

\* Recruitment stops replication on a pooler that runs no operation.
LEMMA RecruitHistory ==
    ASSUME TypeOK, HistoryInv, NEW r \in Rounds, NEW p \in Poolers, Recruit(r, p)
    PROVE  HistoryInv'
<1>1. op[p].phase = "none" /\ UNCHANGED <<wal, op>>
  BY DEF Recruit, NoOp
<1>2. \E c : StopReplication(p, c)
  BY DEF Recruit
<1>3. /\ prim'[p] = 0
      /\ \A q \in Poolers : q # p => prim'[q] = prim[q] /\ conn'[q] = conn[q]
  BY <1>2 DEF StopReplication, TypeOK
<1> QED
  BY <1>1, <1>3, QuietHistory

\* Promotion: the rule it is to write has the revocation's term, which is above
\* that of the rule in force, decided or stuck.
LEMMA PromoteHistory ==
    ASSUME TypeOK, HistoryInv, NEW r \in Rounds, Promote(r)
    PROVE  HistoryInv'
<1>1. PICK rule, p, out, last :
         /\ rule = rounds[r].transition.proposal
         /\ p = rule.leader
         /\ out = rounds[r].rev.outgoing
         /\ last = LastPos(p)
  OBVIOUS
<1> DEFINE first == IF IsRuleDecided(last) THEN "propose" ELSE "confirm"
<1>2. /\ rounds[r] \in RoundType
      /\ rule \in RuleType
      /\ rule.num \in RuleNumber
      /\ rule.num.term \in Nat
      /\ out \in RuleNumber
      /\ out.term \in Nat
  <2>1. rounds[r] \in RoundType
    BY DEF TypeOK
  <2>2. rounds[r].transition \in PositionType /\ rounds[r].rev \in RevocationType
    BY <2>1, SMTT(30) DEF RoundType
  <2> QED
    BY <1>1, <2>1, <2>2, PositionParts, RuleParts DEF RevocationType, RuleNumber
<1>3. /\ out.term < rule.num.term
      /\ conn[p] = None
      /\ UNCHANGED conn
  BY <1>1, PromoteFrame
<1>4. \/ /\ CompareRuleNumbers(PossiblyUndecidedRule(last).num, out) = 0
         /\ prim' = [prim EXCEPT ![p] = rule.num.term]
         /\ AppendRecord(p, rule.num.term, "switch", last)
         /\ op' = [op EXCEPT ![p] = [phase |-> first, round |-> r, rule |-> rule, await |-> 0]]
      \/ UNCHANGED <<wal, prim, op>>
  BY <1>1, ZenonT(60) DEF Promote
<1>5. CASE UNCHANGED <<wal, prim, op>>
  BY <1>3, <1>5, StillHistory
<1>6. CASE p \notin Poolers /\ ~UNCHANGED <<wal, prim, op>>
  <2>1. UNCHANGED <<wal, prim, op>>
    BY <1>4, <1>6 DEF TypeOK, AppendRecord
  <2> QED
    BY <1>3, <2>1, StillHistory
<1>7. CASE p \in Poolers /\ ~UNCHANGED <<wal, prim, op>>
  <2>1. /\ last \in PositionType
        /\ PossiblyUndecidedRule(last).num \in RuleNumber
    BY <1>1, <1>7, WalTypes, PositionParts, RuleParts
  <2>2. PossiblyUndecidedRule(last).num = out
    BY <1>2, <1>4, <1>7, <2>1, RuleNumbersOrdered
  <2>3. CompareRuleNumbers(rule.num, PossiblyUndecidedRule(last).num) > 0
    BY <1>2, <1>3, <2>2, RuleNumbersOrdered
  <2>4. /\ \A q \in Poolers : q # p => HistoryOf(q)'
        /\ OrderedHistory(wal[p])'
        /\ LastPos(p)' = last
    <3>1. Follows(LastPos(p), last)
      BY <1>1 DEF Follows
    <3>2. \A q \in Poolers : q # p => prim'[q] = prim[q] /\ op'[q] = op[q]
      BY <1>4, <1>7 DEF TypeOK
    <3> QED
      BY <1>2, <1>3, <1>4, <1>7, <2>1, <3>1, <3>2, AppendStep
  <2>5. /\ op'[p].rule = rule
        /\ op'[p].phase = first
        /\ conn'[p] = None
        /\ prim'[p] # 0
    BY <1>2, <1>3, <1>4, <1>7 DEF TypeOK
  <2>6. OperationOwnsWal(p)'
    BY <2>3, <2>4, <2>5 DEF OperationOwnsWal, PossiblyUndecidedRule
  <2> QED
    BY <2>4, <2>6 DEF HistoryInv, HistoryOf
<1> QED
  BY <1>5, <1>6, <1>7

\* A write of the operation in progress.
LEMMA WriteRuleHistory ==
    ASSUME TypeOK, HistoryInv, NEW p \in Poolers, NEW kind \in {"probe", "rule"},
           NEW pos \in PositionType,
           NEW phase \in {"finalize", "propose", "decide", "settle"},
           WriteRule(p, kind, pos, phase), op[p].phase # "none", Follows(LastPos(p), pos),
           phase = "finalize" =>
             ~IsRuleDecided(pos) /\ CompareRuleNumbers(op[p].rule.num, pos.proposal.num) > 0,
           phase = "propose" =>
             IsRuleDecided(pos) /\ CompareRuleNumbers(op[p].rule.num, pos.decision.num) > 0,
           phase = "decide" => ~IsRuleDecided(pos) /\ pos.proposal = op[p].rule
    PROVE  HistoryInv'
<1>1. op[p] \in OpType /\ prim[p] \in Nat
  BY DEF TypeOK
<1>2. /\ op'[p].phase = phase
      /\ op'[p].rule = op[p].rule
      /\ \A q \in Poolers : q # p => op'[q] = op[q]
      /\ UNCHANGED <<prim, conn>>
  BY <1>1 DEF WriteRule, TypeOK, OpType
<1>3. /\ \A q \in Poolers : q # p => HistoryOf(q)'
      /\ OrderedHistory(wal[p])'
      /\ LastPos(p)' = pos
  BY <1>1, <1>2, AppendStep DEF WriteRule
<1>4. OperationOwnsWal(p)'
  <2>1. prim[p] # 0 /\ conn[p] = None
    BY DEF HistoryInv, HistoryOf, OperationOwnsWal
  <2> QED
    BY <1>2, <1>3, <2>1 DEF OperationOwnsWal
<1> QED
  BY <1>3, <1>4 DEF HistoryInv, HistoryOf

\* The steps of a rule change.
LEMMA RuleStepHistory ==
    ASSUME TypeOK, HistoryInv, NEW p \in Poolers, RuleStep(p)
    PROVE  HistoryInv'
<1>1. PICK last, rule : last = LastPos(p) /\ rule = op[p].rule
  OBVIOUS
<1>2. /\ rule \in RuleType
      /\ rule.num \in RuleNumber
      /\ last \in PositionType
      /\ last.decision \in RuleType
      /\ last.proposal \in RuleType
      /\ last.decision.num \in RuleNumber
  BY <1>1, WalTypes, PositionParts, RuleParts DEF TypeOK, OpType
<1>3. OperationOwnsWal(p)
  BY DEF HistoryInv, HistoryOf
<1>4. IsRuleDecided(Decided(last.proposal)) /\ IsRuleDecided(Decided(rule))
  BY DEF IsRuleDecided, Decided, NoRule, NoNumber, RuleNumberIsUnset
<1>5. CASE ConfirmProposalQuorum(p)
  <2>1. ~IsRuleDecided(last) /\ CompareRuleNumbers(rule.num, last.proposal.num) > 0
    BY <1>1, <1>3, <1>5 DEF ConfirmProposalQuorum, OperationOwnsWal
  <2> QED
    BY <1>1, <1>2, <1>5, <2>1, WriteRuleHistory DEF ConfirmProposalQuorum, Follows
<1>6. CASE FinalizeStuckProposal(p)
  <2>1. ~IsRuleDecided(last) /\ CompareRuleNumbers(rule.num, last.proposal.num) > 0
    BY <1>1, <1>3, <1>6 DEF FinalizeStuckProposal, OperationOwnsWal
  <2>2. PICK pos \in PositionType : pos = Decided(last.proposal)
    BY <1>2, PositionParts
  <2>3. pos.decision = last.proposal /\ IsRuleDecided(pos)
    BY <1>4, <2>2 DEF Decided
  <2> QED
    BY <1>1, <1>6, <2>1, <2>2, <2>3, WriteRuleHistory DEF FinalizeStuckProposal, Follows
<1>7. CASE WriteRuleProposal(p)
  <2>1. IsRuleDecided(last) /\ CompareRuleNumbers(rule.num, last.decision.num) > 0
    BY <1>1, <1>3, <1>7 DEF WriteRuleProposal, OperationOwnsWal
  <2>2. PICK pos \in PositionType : pos = [decision |-> last.decision, proposal |-> rule]
    BY <1>2, PositionParts
  <2>3. ~IsRuleDecided(pos)
    BY <1>2, <2>1, <2>2, RuleNumbersOrdered DEF IsRuleDecided
  <2> QED
    BY <1>1, <1>7, <2>1, <2>2, <2>3, WriteRuleHistory DEF WriteRuleProposal, Follows
<1>8. CASE MarkProposalAsDecision(p)
  <2>1. ~IsRuleDecided(last) /\ last.proposal = rule
    BY <1>1, <1>3, <1>8 DEF MarkProposalAsDecision, OperationOwnsWal
  <2>2. Decided(rule) \in PositionType
    BY <1>2, PositionParts
  <2> QED
    BY <1>1, <1>8, <2>1, <2>2, WriteRuleHistory DEF MarkProposalAsDecision, Follows
<1>9. CASE SettleRule(p)
  <2>1. /\ op'[p].phase = "none"
        /\ \A q \in Poolers : q # p => op'[q] = op[q]
        /\ UNCHANGED <<wal, prim, conn>>
    BY <1>9 DEF SettleRule, TypeOK, NoOp
  <2> QED
    BY <1>3, <2>1, QuietHistory DEF OperationOwnsWal
<1> QED
  BY <1>5, <1>6, <1>7, <1>8, <1>9 DEF RuleStep

\* A leader-led change: what the leader sees is the end of its WAL, and the rule
\* it is to write has the next subterm.
LEMMA UpdateRuleHistory ==
    ASSUME TypeOK, HistoryInv, NEW p \in Poolers, NEW cohort, UpdateConsensusRule(p, cohort)
    PROVE  HistoryInv'
<1>1. PICK current, rule : /\ current = LastPos(p).decision
                           /\ rule = [current EXCEPT !.num.subterm = @ + 1, !.cohort = cohort]
  OBVIOUS
<1>2. current \in RuleType /\ current.num \in RuleNumber
  BY <1>1, WalTypes, PositionParts, RuleParts
<1>3. CompareRuleNumbers(rule.num, current.num) > 0
  BY <1>1, <1>2 DEF RuleType, RuleNumber, CompareRuleNumbers
<1>4. /\ Visible(p) = LastPos(p)
      /\ IsRuleDecided(LastPos(p))
      /\ prim[p] # 0
      /\ UNCHANGED <<wal, prim, conn>>
  BY DEF UpdateConsensusRule, RuleWritesDrained, pgVars
<1>5. op' = [op EXCEPT ![p] = [phase |-> "propose", round |-> 0, rule |-> rule, await |-> 0]]
  BY <1>1, <1>4 DEF UpdateConsensusRule
<1>6. /\ op'[p].phase = "propose"
      /\ op'[p].rule = rule
      /\ \A q \in Poolers : q # p => op'[q] = op[q]
  BY <1>5 DEF TypeOK
<1>7. ASSUME NEW q \in Poolers, q # p PROVE HistoryOf(q)'
  BY <1>4, <1>6, <1>7, SameHistory DEF HistoryInv
<1>8. HistoryOf(p)'
  <2>1. HistoryOf(p) /\ wal'[p] = wal[p] /\ LastPos(p)' = LastPos(p)
    BY <1>4 DEF HistoryInv, LastPos
  <2> QED
    BY <1>1, <1>3, <1>4, <1>6, <2>1 DEF HistoryOf, OrderedHistory, OperationOwnsWal
<1> QED
  BY <1>7, <1>8 DEF HistoryInv

\* An operation that is given up.
LEMMA AbortHistory ==
    ASSUME TypeOK, HistoryInv, NEW p \in Poolers, AbortOperation(p)
    PROVE  HistoryInv'
<1>1. /\ op'[p].phase = "none"
      /\ \A q \in Poolers : q # p => op'[q] = op[q]
      /\ UNCHANGED <<wal, prim, conn>>
  BY DEF AbortOperation, TypeOK, NoOp, pgVars
<1> QED
  BY <1>1, QuietHistory DEF HistoryInv, HistoryOf, OperationOwnsWal

\* A rewound pooler keeps a prefix of its history.
LEMMA RestartHistory ==
    ASSUME TypeOK, HistoryInv, NEW p \in Poolers, NEW leader \in Poolers,
           RestartAsStandby(p, leader), op[p] = NoOp, UNCHANGED op
    PROVE  HistoryInv'
<1>1. PICK n \in RewindPoints(p, leader) : wal' = [wal EXCEPT ![p] = SubSeq(wal[p], 1, n)]
  BY DEF RestartAsStandby
<1>2. n \in 1..Len(wal[p])
  BY <1>1, RewindKeepsPrefix DEF Lsn
<1>3. /\ wal'[p] = SubSeq(wal[p], 1, n)
      /\ prim'[p] = 0
      /\ op'[p].phase = "none"
      /\ \A q \in Poolers : q # p => /\ wal'[q] = wal[q] /\ op'[q] = op[q]
                                     /\ prim'[q] = prim[q] /\ conn'[q] = conn[q]
  <2>1. op[p].phase = "none"
    BY DEF NoOp
  <2>2. /\ prim' = [prim EXCEPT ![p] = 0] /\ conn' = [conn EXCEPT ![p] = leader]
        /\ wal \in [Poolers -> Seq(RecordType)]
        /\ prim \in [Poolers -> Nat]
        /\ conn \in [Poolers -> Poolers \cup {None}]
    BY DEF RestartAsStandby, TypeOK
  <2>3. wal'[p] = SubSeq(wal[p], 1, n) /\ \A q \in Poolers : q # p => wal'[q] = wal[q]
    BY <1>1, <2>2, Zenon
  <2> QED
    BY <2>1, <2>2, <2>3
<1>4. wal[p] \in Seq(RecordType) /\ OrderedHistory(wal[p])
  BY WalTypes DEF HistoryInv, HistoryOf
<1>5. HistoryOf(p)'
  <2>1. OrderedHistory(wal'[p])
    BY <1>2, <1>3, <1>4, PrefixHistory
  <2> QED
    BY <1>3, <2>1, IdleHistory
<1>6. ASSUME NEW q \in Poolers, q # p PROVE HistoryOf(q)'
  BY <1>3, <1>6, SameHistory DEF HistoryInv
<1> QED
  BY <1>5, <1>6 DEF HistoryInv

\* Being told of a replication primary: a primary is not redirected unless it
\* is restarted as a standby.
LEMMA SetPrimaryHistory ==
    ASSUME TypeOK, HistoryInv, NEW p \in Poolers, NEW m \in Announcements, SetPrimary(p, m)
    PROVE  HistoryInv'
<1>1. /\ op[p] = NoOp /\ UNCHANGED op
      /\ m.primary # None
  BY DEF SetPrimary
<1>2. m.primary \in Poolers
  BY <1>1, AnnouncementType DEF PrimaryType
<1>3. CASE RestartAsStandby(p, m.primary)
  BY <1>1, <1>2, <1>3, RestartHistory
<1>4. CASE UNCHANGED <<wal, prim>> /\ \E c : /\ conn' = [conn EXCEPT ![p] = c]
                                             /\ prim[p] # 0 => c = conn[p]
  <2>1. op'[p].phase = "none"
    BY <1>1 DEF NoOp
  <2>2. /\ \A q \in Poolers : q # p => conn'[q] = conn[q]
        /\ prim[p] # 0 => conn'[p] = conn[p]
    BY <1>4 DEF TypeOK
  <2> QED
    BY <1>1, <1>4, <2>1, <2>2, QuietHistory DEF HistoryInv, HistoryOf, OperationOwnsWal
<1>5. CASE UNCHANGED <<wal, prim, conn>>
  BY <1>1, <1>5, StillHistory
<1> QED
  BY <1>3, <1>4, <1>5 DEF SetPrimary, pgVars

\* The monitor's remedial actions.
LEMMA MonitorStepHistory ==
    ASSUME TypeOK, HistoryInv, NEW p \in Poolers, MonitorStep(p)
    PROVE  HistoryInv'
<1>1. CASE FixPrimaryConnInfo(p)
  <2>1. /\ op'[p].phase = "none"
        /\ \A q \in Poolers : q # p => conn'[q] = conn[q]
        /\ prim'[p] = 0
        /\ UNCHANGED <<wal, prim, op>>
    BY <1>1 DEF FixPrimaryConnInfo, TypeOK, NoOp
  <2> QED
    BY <2>1, QuietHistory
<1>2. CASE RewindToLeader(p) \/ DemoteStalePrimary(p)
  <2>1. /\ rp[p].primary # None
        /\ RestartAsStandby(p, rp[p].primary)
        /\ op[p] = NoOp /\ UNCHANGED op
    BY <1>2 DEF RewindToLeader, DemoteStalePrimary, ConnInfoReconcileAllowed
  <2>2. rp[p].primary \in Poolers
    BY <2>1 DEF TypeOK, PrimaryType
  <2> QED
    BY <2>1, <2>2, RestartHistory
<1>3. CASE MarkStandbyDiverged(p) \/ ReconcileGUC(p)
  <2>1. UNCHANGED <<wal, prim, conn, op>>
    BY <1>3 DEF MarkStandbyDiverged, ReconcileGUC, pgVars
  <2> QED
    BY <2>1, StillHistory
<1> QED
  BY <1>1, <1>2, <1>3 DEF MonitorStep

\* A standby that streams copies one more record of a WAL it has a strict
\* prefix of.
LEMMA StreamHistory ==
    ASSUME TypeOK, HistoryInv, NEW s \in Poolers, Stream(s)
    PROVE  HistoryInv'
<1>1. PICK p \in Poolers : p = conn[s]
  BY DEF Stream, TypeOK
<1>2. /\ wal[s] \in Seq(RecordType) /\ Len(wal[s]) \in Nat /\ Len(wal[s]) > 0
      /\ wal[p] \in Seq(RecordType) /\ Len(wal[p]) \in Nat
  BY WalTypes DEF Lsn
<1>3. /\ wal[s] # wal[p]
      /\ Len(wal[s]) <= Len(wal[p])
      /\ SubSeq(wal[s], 1, Len(wal[s])) = SubSeq(wal[p], 1, Len(wal[s]))
  BY <1>1 DEF Stream, IsStrictPrefix, IsPrefix
<1>4. Len(wal[s]) < Len(wal[p])
  <2>1. SubSeq(wal[s], 1, Len(wal[s])) = wal[s] /\ SubSeq(wal[p], 1, Len(wal[p])) = wal[p]
    BY <1>2, SubSeqFull
  <2> QED
    BY <1>2, <1>3, <2>1
<1>5. PICK record \in RecordType : record = wal[p][Len(wal[s]) + 1]
  <2>1. Len(wal[s]) + 1 \in 1..Len(wal[p])
    BY <1>2, <1>4
  <2> QED
    BY <2>1, WalTypes DEF Lsn
<1>6. wal[s][Len(wal[s])] = wal[p][Len(wal[s])]
  <2>1. SubSeq(wal[s], 1, Len(wal[s])) = wal[s]
    BY <1>2, SubSeqFull
  <2>2. SubSeq(wal[p], 1, Len(wal[s]))[Len(wal[s])] = wal[p][Len(wal[s])]
    BY <1>2, <1>4, SubSeqProperties
  <2> QED
    BY <1>3, <2>1, <2>2
<1>7. Follows(LastPos(s), record.pos)
  <2>1. Len(wal[s]) \in 1..(Len(wal[p]) - 1) /\ OrderedHistory(wal[p])
    BY <1>2, <1>4 DEF HistoryInv, HistoryOf
  <2> QED
    BY <1>5, <1>6, <2>1 DEF OrderedHistory, LastPos, Last
<1>8. /\ AppendRecord(s, record.by, record.kind, record.pos)
      /\ record.by \in Nat /\ record.pos \in PositionType
      /\ record.kind \in {"switch", "probe", "rule", "data"}
  <2>1. record = [by |-> record.by, kind |-> record.kind, pos |-> record.pos]
    BY DEF RecordType
  <2> QED
    BY <1>1, <1>5, <2>1 DEF Stream, AppendRecord, RecordType, Lsn
<1>9. UNCHANGED <<prim, conn, op>>
  BY DEF Stream
<1>10. /\ \A q \in Poolers : q # s => HistoryOf(q)'
       /\ OrderedHistory(wal[s])'
  BY <1>7, <1>8, <1>9, AppendStep
<1>11. HistoryOf(s)'
  <2>1. conn[s] # None
    BY DEF Stream
  <2>2. op[s].phase = "none" /\ prim[s] = 0
    BY <2>1 DEF HistoryInv, HistoryOf, OperationOwnsWal
  <2> QED
    BY <1>9, <1>10, <2>2, IdleHistory DEF OrderedHistory
<1> QED
  BY <1>10, <1>11 DEF HistoryInv

\* A client's write leaves the position where the operation put it.
LEMMA ClientWriteHistory ==
    ASSUME TypeOK, HistoryInv, NEW p \in Poolers, ClientWrite(p)
    PROVE  HistoryInv'
<1>1. prim[p] \in Nat /\ LastPos(p) \in PositionType /\ UNCHANGED <<prim, conn, op>>
  BY WalTypes DEF TypeOK, ClientWrite
<1>2. Follows(LastPos(p), LastPos(p))
  BY DEF Follows
<1>3. /\ \A q \in Poolers : q # p => HistoryOf(q)'
      /\ OrderedHistory(wal[p])'
      /\ LastPos(p)' = LastPos(p)
  BY <1>1, <1>2, AppendStep DEF ClientWrite
<1>4. OperationOwnsWal(p)'
  BY <1>1, <1>3 DEF HistoryInv, HistoryOf, OperationOwnsWal
<1> QED
  BY <1>3, <1>4 DEF HistoryInv, HistoryOf

\* Crashes lose the operation.
LEMMA CrashHistory ==
    ASSUME TypeOK, HistoryInv, NEW p \in Poolers, PostgresCrash(p) \/ PoolerCrash(p)
    PROVE  HistoryInv'
<1>1. /\ op'[p].phase = "none"
      /\ \A q \in Poolers : q # p => op'[q] = op[q]
      /\ UNCHANGED wal
  BY DEF PostgresCrash, PoolerCrash, TypeOK, NoOp, pgVars
<1>2. CASE PostgresCrash(p)
  <2>1. /\ prim'[p] = 0
        /\ \A q \in Poolers : q # p => prim'[q] = prim[q] /\ conn'[q] = conn[q]
    BY <1>2 DEF PostgresCrash, TypeOK
  <2> QED
    BY <1>1, <2>1, QuietHistory
<1>3. CASE PoolerCrash(p)
  <2>1. UNCHANGED <<prim, conn>>
    BY <1>3 DEF PoolerCrash, pgVars
  <2> QED
    BY <1>1, <2>1, QuietHistory DEF HistoryInv, HistoryOf, OperationOwnsWal
<1> QED
  BY <1>2, <1>3

\* Every step keeps the histories ordered.
LEMMA NextHistory ==
    ASSUME TypeOK, HistoryInv, [Next]_vars
    PROVE  HistoryInv'
<1>1. ASSUME NEW r \in Rounds, NEW heard \in SUBSET Poolers, StartRound(r, heard)
      PROVE  HistoryInv'
  BY <1>1, StillHistory DEF StartRound, pgVars
<1>2. CASE Next
  <2>1. CASE Coordination
    BY <1>1, <2>1, RecruitHistory, PromoteHistory, SetPrimaryHistory DEF Coordination
  <2>2. ASSUME NEW p \in Poolers, Local(p) PROVE HistoryInv'
    BY <2>2, RuleStepHistory, AbortHistory, UpdateRuleHistory, MonitorStepHistory,
       StreamHistory, ClientWriteHistory, CrashHistory DEF Local
  <2> QED
    BY <1>2, <2>1, <2>2 DEF Next
<1>3. CASE UNCHANGED vars
  BY <1>3, StillHistory DEF vars
<1> QED
  BY <1>2, <1>3

\* The initial WALs hold one record.
LEMMA InitHistory == Init => HistoryInv
<1> SUFFICES ASSUME Init, NEW p \in Poolers PROVE HistoryOf(p)
  BY DEF HistoryInv
<1>1. Len(wal[p]) = 1 /\ op[p] = NoOp /\ (prim[p] # 0 => conn[p] = None)
  BY DEF Init
<1> QED
  BY <1>1 DEF HistoryOf, OrderedHistory, OperationOwnsWal, NoOp

\* In every WAL of every behaviour the rule position only moves forward, one
\* proposal at a time, each decided before the next is written: what
\* ApplyRuleChange, the promotion and the streaming of WAL guarantee together.
THEOREM RuleHistory == Spec => []RuleHistoryOrdered
<1>1. Spec => [](TypeOK /\ HistoryInv)
  <2>1. Init => TypeOK /\ HistoryInv
    BY InitTypes, InitHistory
  <2>2. TypeOK /\ HistoryInv /\ [Next]_vars => TypeOK' /\ HistoryInv'
    BY NextTypes, NextHistory
  <2> QED
    BY <2>1, <2>2, PTL DEF Spec
<1>2. HistoryInv => RuleHistoryOrdered
  BY DEF HistoryInv, HistoryOf, OrderedHistory, Follows, RuleHistoryOrdered, Lsn
<1> QED
  BY <1>1, <1>2, PTL

-----------------------------------------------------------------------------
(* A shard whose cohort is not changed.                                    *)

Proposed(r) == rounds[r].phase \in {"proposed", "promoting"}

\* The rules there are: the first one and those the rounds have proposed.
KnownRule(rule) ==
    rule = InitialRule \/ \E r \in Rounds : Proposed(r) /\ rule = rounds[r].transition.proposal

KnownPosition(pos) ==
    KnownRule(pos.decision) /\ (pos.proposal = NoRule \/ KnownRule(pos.proposal))

FirstPolicy == PolicyWithCohort(InitialRule)

MajorityOf(cohort, S) == 2 * Cardinality(cohort \cap S) > Cardinality(cohort)

\* A round that has made its proposal had a majority of the one cohort there is.
ProposalWon(r) ==
    LET rule == rounds[r].transition.proposal
    IN  Proposed(r) =>
          /\ rule.num = [term |-> rounds[r].rev.term, subterm |-> 0]
          /\ rule.num.term > InitialRule.num.term
          /\ PolicyWithCohort(rule) = FirstPolicy
          /\ rule.leader \in Poolers
          /\ MajorityOf(InitialRule.cohort, rounds[r].accepted)

RecruitsKnown(r) ==
    \A s \in rounds[r].recruits : s.id \in rounds[r].accepted /\ KnownPosition(s.pos)

RoundsKnown == \A r \in Rounds : ProposalWon(r) /\ RecruitsKnown(r)

WalKnown(p) == \A i \in 1..Lsn(p) : KnownPosition(wal[p][i].pos)

OpKnown(p) == op[p].phase # "none" => KnownRule(op[p].rule)

\* A primary waits for the standbys the one policy asks for.
PrimarySynced(p) ==
    prim[p] # 0 => /\ CanBuildSyncReplicationConfig(FirstPolicy, p)
                   /\ guc[p] = BuildSyncReplicationConfig(FirstPolicy, p)

PoolerKnown(p) == WalKnown(p) /\ OpKnown(p) /\ PrimarySynced(p)

AgreementInv == RoundsKnown /\ \A p \in Poolers : PoolerKnown(p)

\* What has been proposed stays proposed.
ProposalsKept ==
    \A r \in Rounds : Proposed(r) => Proposed(r)' /\ rounds'[r].transition = rounds[r].transition

\* So a rule that some round has proposed stays one.
LEMMA KnownKept ==
    ASSUME ProposalsKept
    PROVE  /\ \A rule : KnownRule(rule) => KnownRule(rule)'
           /\ \A pos : KnownPosition(pos) => KnownPosition(pos)'
<1>1. ASSUME NEW rule, KnownRule(rule) PROVE KnownRule(rule)'
  BY <1>1 DEF KnownRule, ProposalsKept
<1> QED
  BY <1>1 DEF KnownPosition

\* Every rule has the first one's cohort and policy, and no earlier term.
LEMMA KnownRules ==
    ASSUME TypeOK, RoundsKnown, NEW rule, KnownRule(rule)
    PROVE  /\ PolicyWithCohort(rule) = FirstPolicy
           /\ rule.cohort = InitialRule.cohort /\ rule.policy = InitialRule.policy
           /\ rule \in RuleType
           /\ rule.num.term \in Nat /\ InitialRule.num.term \in Nat
           /\ rule.num.term >= InitialRule.num.term
<1>1. InitialRule \in RuleType
  BY ConstantsAssumption
<1>2. rule \in RuleType
  BY <1>1, PositionParts DEF KnownRule, TypeOK, RoundType
<1>3. rule.num.term \in Nat /\ InitialRule.num.term \in Nat
  BY <1>1, <1>2, RuleParts
<1>4. CASE rule = InitialRule
  BY <1>1, <1>3, <1>4 DEF FirstPolicy, PolicyWithCohort
<1>5. CASE rule # InitialRule
  <2>1. PICK r \in Rounds : Proposed(r) /\ rule = rounds[r].transition.proposal
    BY <1>5 DEF KnownRule
  <2>2. rule.num.term > InitialRule.num.term /\ PolicyWithCohort(rule) = FirstPolicy
    BY <2>1 DEF RoundsKnown, ProposalWon
  <2>3. rule.cohort = InitialRule.cohort /\ rule.policy = InitialRule.policy
    BY <2>2 DEF PolicyWithCohort, FirstPolicy
  <2> QED
    BY <1>2, <1>3, <2>2, <2>3
<1> QED
  BY <1>4, <1>5

\* So do the rule a position leads to and the policies derived from positions.
LEMMA KnownPolicies ==
    ASSUME TypeOK, RoundsKnown, NEW pos, KnownPosition(pos)
    PROVE  /\ KnownRule(PossiblyUndecidedRule(pos))
           /\ KnownPosition(Decided(pos.decision))
           /\ ~IsRuleDecided(pos) => KnownRule(pos.proposal) /\ KnownPosition(Decided(pos.proposal))
           /\ ExpectedSyncStandbyPolicy(pos) = FirstPolicy
           /\ \A rule : KnownRule(rule) => TransitionPolicy(pos.decision, rule) = FirstPolicy
<1>1. ~IsRuleDecided(pos) => KnownRule(pos.proposal)
  BY DEF KnownPosition, IsRuleDecided, NoRule, NoNumber, RuleNumberIsUnset
<1>2. BothPolicy(FirstPolicy, FirstPolicy) = FirstPolicy
  BY DEF BothPolicy
<1>3. KnownRule(pos.decision)
  BY DEF KnownPosition
<1>4. \A rule : KnownRule(rule) => KnownPosition(Decided(rule))
  BY DEF KnownPosition, Decided
<1>5. ExpectedSyncStandbyPolicy(pos) = FirstPolicy
  BY <1>1, <1>2, <1>3, KnownRules DEF ExpectedSyncStandbyPolicy
<1>6. \A rule : KnownRule(rule) => TransitionPolicy(pos.decision, rule) = FirstPolicy
  BY <1>2, <1>3, KnownRules DEF TransitionPolicy
<1>7. KnownRule(PossiblyUndecidedRule(pos))
  BY <1>1, <1>3 DEF PossiblyUndecidedRule
<1> QED
  BY <1>1, <1>3, <1>4, <1>5, <1>6, <1>7

\* What a pooler sees of its WAL is known.
LEMMA OwnPositionKnown ==
    ASSUME TypeOK, AgreementInv, NEW p \in Poolers
    PROVE  KnownPosition(LastPos(p)) /\ KnownPosition(Visible(p))
<1>1. Lsn(p) \in Nat \ {0} /\ VisibleLsn(p) \in 1..Lsn(p)
  BY WalTypes
<1>2. WalKnown(p)
  BY DEF AgreementInv, PoolerKnown
<1> QED
  BY <1>1, <1>2 DEF WalKnown, LastPos, Last, Visible, Lsn

-----------------------------------------------------------------------------
\* A pooler that keeps its WAL, its operation and, while it is a primary, its
\* synchronous standbys.
LEMMA PoolerStill ==
    ASSUME ProposalsKept, NEW p \in Poolers, PoolerKnown(p), wal'[p] = wal[p],
           op'[p] = op[p] \/ op'[p].phase = "none",
           (prim'[p] = prim[p] /\ guc'[p] = guc[p]) \/ prim'[p] = 0
    PROVE  PoolerKnown(p)'
<1>1. WalKnown(p)'
  BY KnownKept DEF PoolerKnown, WalKnown, Lsn
<1>2. OpKnown(p)'
  BY KnownKept DEF PoolerKnown, OpKnown
<1>3. PrimarySynced(p)'
  BY DEF PoolerKnown, PrimarySynced
<1> QED
  BY <1>1, <1>2, <1>3 DEF PoolerKnown

\* Appending a known position.
LEMMA WalKnownAppend ==
    ASSUME TypeOK, ProposalsKept, NEW p \in Poolers, WalKnown(p), NEW term, NEW kind,
           NEW pos, KnownPosition(pos)', AppendRecord(p, term, kind, pos)
    PROVE  /\ WalKnown(p)'
           /\ \A q \in Poolers : q # p => wal'[q] = wal[q]
<1> DEFINE record == [by |-> term, kind |-> kind, pos |-> pos]
<1>1. record.pos = pos
  OBVIOUS
<1>2. wal' = [wal EXCEPT ![p] = Append(wal[p], record)]
  BY DEF AppendRecord
<1> HIDE DEF record
<1>3. wal'[p] = Append(wal[p], record) /\ \A q \in Poolers : q # p => wal'[q] = wal[q]
  BY <1>2 DEF TypeOK
<1>4. wal[p] \in Seq(RecordType) /\ Len(wal[p]) \in Nat
  BY WalTypes DEF Lsn
<1>5. /\ Len(wal'[p]) = Len(wal[p]) + 1
      /\ \A i \in 1..Len(wal[p]) : wal'[p][i] = wal[p][i]
      /\ wal'[p][Len(wal[p]) + 1] = record
  BY <1>3, <1>4
<1>6. ASSUME NEW i \in 1..Len(wal'[p]) PROVE KnownPosition(wal[p][i].pos)'
  <2>1. CASE i = Len(wal[p]) + 1
    <3>1. wal'[p][i].pos = pos
      BY <1>1, <1>5, <2>1
    <3> QED
      BY <3>1 DEF KnownPosition, KnownRule
  <2>2. CASE i # Len(wal[p]) + 1
    <3>1. i \in 1..Len(wal[p])
      BY <1>4, <1>5, <2>2
    <3>2. PICK x : x = wal[p][i].pos
      OBVIOUS
    <3>3. KnownPosition(x)
      BY <3>1, <3>2 DEF WalKnown, Lsn
    <3>4. KnownPosition(x)' /\ wal'[p][i].pos = x
      BY <1>5, <3>1, <3>2, <3>3, KnownKept
    <3> QED
      BY <3>4 DEF KnownPosition, KnownRule
  <2> QED
    BY <2>1, <2>2
<1> QED
  BY <1>3, <1>6 DEF WalKnown, Lsn

-----------------------------------------------------------------------------
\* A safe proposal: its recruits are a majority of the cohort, it keeps the
\* policy, and its term is above that of every rule known before.
LEMMA ProposalKnown ==
    ASSUME TypeOK, RoundsKnown, NEW authored \in RevocationType,
           authored.outgoing.term < authored.term,
           NEW recruits \in SUBSET RecruitType, NEW accepted \in SUBSET Poolers,
           \A s \in recruits : s.id \in accepted /\ KnownPosition(s.pos),
           NEW transition \in BuildSafeProposal(authored, recruits)
    PROVE  LET rule == transition.proposal
           IN  /\ rule.num = [term |-> authored.term, subterm |-> 0]
               /\ rule.num.term > InitialRule.num.term
               /\ PolicyWithCohort(rule) = FirstPolicy
               /\ rule.leader \in Poolers
               /\ MajorityOf(InitialRule.cohort, accepted)
<1> DEFINE R == FilterByValidPosition(recruits)
<1>1. R \in SUBSET recruits
  BY DEF FilterByValidPosition
<1>2. PICK out \in {s.pos : s \in R} :
        /\ DiscoverOutgoingRule(authored, R, out)
        /\ RevokeByRecruitment(R, out.decision)
        /\ \E leader \in FailoverCandidates(R, out) :
              transition = BuildFailoverProposal(authored, PossiblyUndecidedRule(out), leader)
  BY DEF BuildSafeProposal, MostAdvanced
<1>3. PICK leader \in FailoverCandidates(R, out) :
        transition = BuildFailoverProposal(authored, PossiblyUndecidedRule(out), leader)
  BY <1>2
<1>4. KnownPosition(out)
  BY <1>1, <1>2
<1>5. PICK rule : rule = PossiblyUndecidedRule(out)
  OBVIOUS
<1>6. /\ rule \in RuleType
      /\ PolicyWithCohort(rule) = FirstPolicy
      /\ rule.num.term \in Nat /\ InitialRule.num.term \in Nat
      /\ rule.num.term >= InitialRule.num.term
  BY <1>4, <1>5, KnownPolicies, KnownRules
<1>7. authored.outgoing \in RuleNumber /\ rule.num \in RuleNumber /\ authored.term \in Nat
  BY <1>6, RuleParts DEF RevocationType
<1>8. rule.num = authored.outgoing
  BY <1>2, <1>5, <1>7, RuleNumbersOrdered DEF DiscoverOutgoingRule
<1>9. authored.term > InitialRule.num.term
  BY <1>6, <1>7, <1>8
<1>10. leader \in Poolers
  BY <1>5, <1>6, RuleParts DEF FailoverCandidates
<1>11. PICK next : next = [rule EXCEPT !.num = [term |-> authored.term, subterm |-> 0],
                                       !.leader = leader]
  OBVIOUS
<1>12. /\ next.num = [term |-> authored.term, subterm |-> 0]
       /\ next.leader = leader
       /\ PolicyWithCohort(next) = PolicyWithCohort(rule)
  BY <1>6, <1>11 DEF RuleType, PolicyWithCohort
<1>13. transition.proposal = next
  BY <1>3, <1>5, <1>11 DEF BuildFailoverProposal
<1>14. MajorityOf(InitialRule.cohort, accepted)
  <2>1. PICK cohort : cohort = InitialRule.cohort
    OBVIOUS
  <2>2. out.decision.cohort = cohort /\ cohort \in SUBSET Poolers
    <3>1. KnownRule(out.decision)
      BY <1>4 DEF KnownPosition
    <3> QED
      BY <2>1, <3>1, KnownRules, ConstantsAssumption, RuleParts
  <2>3. PICK joined : joined = Ids(R) \cap cohort
    OBVIOUS
  <2>4. Cardinality(joined) >= Cardinality(cohort) \div 2 + 1
    BY <1>2, <2>2, <2>3
       DEF RevokeByRecruitment, CheckSufficientRecruitment, CheckRecruitedMajority
  <2>5. joined \in SUBSET (cohort \cap accepted)
    BY <1>1, <2>3 DEF Ids
  <2>6. IsFiniteSet(cohort) /\ IsFiniteSet(cohort \cap accepted)
    BY <2>2, PoolersAssumption, FS_Subset
  <2>7. /\ Cardinality(joined) <= Cardinality(cohort \cap accepted)
        /\ Cardinality(joined) \in Nat
        /\ Cardinality(cohort \cap accepted) \in Nat
        /\ Cardinality(cohort) \in Nat
    BY <2>5, <2>6, FS_Subset, FS_CardinalityType
  <2> QED
    BY <2>1, <2>4, <2>7 DEF MajorityOf
<1> QED
  BY <1>6, <1>9, <1>10, <1>12, <1>13, <1>14

\* A larger acceptance is a majority all the more.
LEMMA MajorityGrows ==
    ASSUME NEW S \in SUBSET Poolers, NEW T \in SUBSET Poolers, S \subseteq T,
           MajorityOf(InitialRule.cohort, S)
    PROVE  MajorityOf(InitialRule.cohort, T)
<1>1. PICK cohort \in SUBSET Poolers : cohort = InitialRule.cohort
  BY ConstantsAssumption, RuleParts
<1>2. IsFiniteSet(cohort) /\ IsFiniteSet(cohort \cap T) /\ cohort \cap S \in SUBSET (cohort \cap T)
  BY PoolersAssumption, FS_Subset
<1>3. /\ Cardinality(cohort \cap S) <= Cardinality(cohort \cap T)
      /\ Cardinality(cohort \cap S) \in Nat
      /\ Cardinality(cohort \cap T) \in Nat
      /\ Cardinality(cohort) \in Nat
  BY <1>2, FS_Subset, FS_CardinalityType
<1> QED
  BY <1>1, <1>3 DEF MajorityOf

\* Rounds of which only the acceptances and the phase have moved.
LEMMA RoundsStill ==
    ASSUME TypeOK, TypeOK', RoundsKnown,
           \A r \in Rounds : /\ Proposed(r)' <=> Proposed(r)
                             /\ rounds'[r].transition = rounds[r].transition
                             /\ Proposed(r) => rounds'[r].rev = rounds[r].rev
                             /\ rounds'[r].recruits = rounds[r].recruits
                             /\ rounds[r].accepted \subseteq rounds'[r].accepted
    PROVE  RoundsKnown' /\ ProposalsKept
<1>1. ProposalsKept
  BY DEF ProposalsKept
<1>2. ASSUME NEW r \in Rounds PROVE ProposalWon(r)' /\ RecruitsKnown(r)'
  <2>1. rounds[r].accepted \in SUBSET Poolers /\ rounds'[r].accepted \in SUBSET Poolers
    BY DEF TypeOK, RoundType
  <2>2. ProposalWon(r)'
    <3>1. ProposalWon(r)
      BY DEF RoundsKnown
    <3>2. Proposed(r) => MajorityOf(InitialRule.cohort, rounds'[r].accepted)
      BY <2>1, <3>1, MajorityGrows DEF ProposalWon
    <3> QED
      BY <3>1, <3>2 DEF ProposalWon, FirstPolicy, MajorityOf
  <2>3. RecruitsKnown(r)'
    BY <1>1, KnownKept DEF RoundsKnown, RecruitsKnown
  <2> QED
    BY <2>2, <2>3
<1> QED
  BY <1>1, <1>2 DEF RoundsKnown

\* A recruit's answer is counted, kept with the others or completes a proposal.
LEMMA CollectKnown ==
    ASSUME TypeOK, TypeOK', AgreementInv, NEW r \in Rounds, NEW p \in Poolers,
           rounds[r].phase # "idle", rounds[r].rev.outgoing.term < rounds[r].rev.term,
           CollectRecruit(r, [id |-> p, pos |-> LastPos(p), lsn |-> Lsn(p)])
    PROVE  RoundsKnown' /\ ProposalsKept
<1>1. PICK status : status = [id |-> p, pos |-> LastPos(p), lsn |-> Lsn(p)]
  OBVIOUS
<1>2. status \in RecruitType /\ status.id = p /\ KnownPosition(status.pos)
  <2>1. status \in RecruitType /\ status.id = p /\ status.pos = LastPos(p)
    BY <1>1, WalTypes DEF RecruitType
  <2> QED
    BY <2>1, OwnPositionKnown
<1>3. PICK recruits, joined : /\ recruits = rounds[r].recruits \cup {status}
                              /\ joined = [rounds[r] EXCEPT !.accepted = @ \cup {p}]
  OBVIOUS
<1>4. /\ rounds \in [Rounds -> RoundType]
      /\ rounds[r] \in RoundType
      /\ rounds[r].accepted \in SUBSET Poolers
      /\ rounds[r].rev \in RevocationType
      /\ recruits \in SUBSET RecruitType
  BY <1>2, <1>3 DEF TypeOK, RoundType
<1>5. /\ joined \in RoundType
      /\ joined.accepted = rounds[r].accepted \cup {p}
      /\ joined.phase = rounds[r].phase
      /\ joined.rev = rounds[r].rev
      /\ joined.recruits = rounds[r].recruits
      /\ joined.transition = rounds[r].transition
  BY <1>3, <1>4 DEF RoundType
<1>6. \A s \in recruits : s.id \in joined.accepted /\ KnownPosition(s.pos)
  BY <1>2, <1>3, <1>5 DEF AgreementInv, RoundsKnown, RecruitsKnown
<1>7. \/ rounds' = [rounds EXCEPT ![r] = joined]
      \/ /\ ~Proposed(r)
         /\ rounds' = [rounds EXCEPT ![r] = [joined EXCEPT !.recruits = recruits]]
      \/ /\ ~Proposed(r)
         /\ \E transition \in BuildSafeProposal(rounds[r].rev, recruits) :
              rounds' = [rounds EXCEPT ![r] =
                [joined EXCEPT !.phase = "proposed", !.recruits = {}, !.transition = transition]]
  BY <1>1, <1>3, <1>2 DEF CollectRecruit, Proposed
<1>8. RoundsKnown
  BY DEF AgreementInv
<1>9. CASE rounds' = [rounds EXCEPT ![r] = joined]
  <2>1. rounds'[r] = joined /\ \A q \in Rounds : q # r => rounds'[q] = rounds[q]
    BY <1>4, <1>9
  <2>2. \A q \in Rounds : /\ Proposed(q)' <=> Proposed(q)
                          /\ rounds'[q].transition = rounds[q].transition
                          /\ rounds'[q].rev = rounds[q].rev
                          /\ rounds'[q].recruits = rounds[q].recruits
                          /\ rounds[q].accepted \subseteq rounds'[q].accepted
    BY <1>5, <2>1 DEF Proposed
  <2> QED
    BY <1>8, <2>2, RoundsStill
<1>10. CASE ~Proposed(r) /\ rounds' = [rounds EXCEPT ![r] = [joined EXCEPT !.recruits = recruits]]
  <2>1. /\ rounds'[r].phase = rounds[r].phase
        /\ rounds'[r].accepted = joined.accepted
        /\ rounds'[r].recruits = recruits
        /\ \A q \in Rounds : q # r => rounds'[q] = rounds[q]
    BY <1>4, <1>5, <1>10 DEF RoundType
  <2>2. ProposalsKept
    BY <1>10, <2>1 DEF ProposalsKept, Proposed
  <2>3. ASSUME NEW q \in Rounds PROVE ProposalWon(q)' /\ RecruitsKnown(q)'
    <3>1. CASE q = r
      <4>1. ProposalWon(q)'
        BY <1>10, <2>1, <3>1 DEF ProposalWon, Proposed
      <4>2. RecruitsKnown(q)'
        BY <1>6, <2>1, <2>2, <3>1, KnownKept DEF RecruitsKnown
      <4> QED
        BY <4>1, <4>2
    <3>2. CASE q # r
      <4>1. rounds'[q] = rounds[q] /\ ProposalWon(q) /\ RecruitsKnown(q)
        BY <1>8, <2>1, <3>2 DEF RoundsKnown
      <4>2. RecruitsKnown(q)'
        BY <2>2, <4>1, KnownKept DEF RecruitsKnown
      <4>3. ProposalWon(q)'
        BY <4>1 DEF ProposalWon, Proposed, FirstPolicy, MajorityOf
      <4> QED
        BY <4>2, <4>3
    <3> QED
      BY <3>1, <3>2
  <2> QED
    BY <2>2, <2>3 DEF RoundsKnown
<1>11. CASE ~Proposed(r) /\ \E transition \in BuildSafeProposal(rounds[r].rev, recruits) :
              rounds' = [rounds EXCEPT ![r] =
                [joined EXCEPT !.phase = "proposed", !.recruits = {}, !.transition = transition]]
  <2>1. PICK transition \in BuildSafeProposal(rounds[r].rev, recruits) :
              rounds' = [rounds EXCEPT ![r] =
                [joined EXCEPT !.phase = "proposed", !.recruits = {}, !.transition = transition]]
    BY <1>11
  <2>2. /\ rounds'[r].rev = rounds[r].rev
        /\ rounds'[r].accepted = joined.accepted
        /\ rounds'[r].recruits = {}
        /\ rounds'[r].transition = transition
        /\ \A q \in Rounds : q # r => rounds'[q] = rounds[q]
    BY <1>4, <1>5, <2>1 DEF RoundType
  <2>3. ProposalsKept
    BY <1>11, <2>2 DEF ProposalsKept, Proposed
  <2>4. joined.accepted \in SUBSET Poolers
    BY <1>4, <1>5
  <2>5. LET rule == transition.proposal
        IN  /\ rule.num = [term |-> rounds[r].rev.term, subterm |-> 0]
            /\ rule.num.term > InitialRule.num.term
            /\ PolicyWithCohort(rule) = FirstPolicy
            /\ rule.leader \in Poolers
            /\ MajorityOf(InitialRule.cohort, joined.accepted)
    BY <1>4, <1>6, <1>8, <2>1, <2>4, ProposalKnown
  <2>6. ASSUME NEW q \in Rounds PROVE ProposalWon(q)' /\ RecruitsKnown(q)'
    <3>1. CASE q = r
      <4>1. ProposalWon(q)'
        BY <2>2, <2>5, <3>1 DEF ProposalWon, FirstPolicy, MajorityOf
      <4>2. RecruitsKnown(q)'
        BY <2>2, <3>1 DEF RecruitsKnown
      <4> QED
        BY <4>1, <4>2
    <3>2. CASE q # r
      <4>1. rounds'[q] = rounds[q] /\ ProposalWon(q) /\ RecruitsKnown(q)
        BY <1>8, <2>2, <3>2 DEF RoundsKnown
      <4>2. RecruitsKnown(q)'
        BY <2>3, <4>1, KnownKept DEF RecruitsKnown
      <4>3. ProposalWon(q)'
        BY <4>1 DEF ProposalWon, Proposed, FirstPolicy, MajorityOf
      <4> QED
        BY <4>2, <4>3
    <3> QED
      BY <3>1, <3>2
  <2> QED
    BY <2>3, <2>6 DEF RoundsKnown
<1> QED
  BY <1>7, <1>9, <1>10, <1>11

\* Steps that change no round.
LEMMA RoundsUnchanged ==
    ASSUME TypeOK, TypeOK', AgreementInv, UNCHANGED rounds
    PROVE  RoundsKnown' /\ ProposalsKept
BY RoundsStill DEF AgreementInv, Proposed

\* Recruitment.
LEMMA RecruitAgreement ==
    ASSUME TypeOK, TypeOK', AgreementInv, NEW r \in Rounds, NEW p \in Poolers, Recruit(r, p)
    PROVE  AgreementInv'
<1>1. /\ rounds[r].phase # "idle"
      /\ rounds[r].rev.outgoing.term < rounds[r].rev.term
      /\ UNCHANGED <<wal, op>>
      /\ \E c : StopReplication(p, c)
  BY DEF Recruit, ValidateRevocation
<1>2. RoundsKnown' /\ ProposalsKept
  <2>1. CASE CollectRecruit(r, [id |-> p, pos |-> LastPos(p), lsn |-> Lsn(p)])
    BY <1>1, <2>1, CollectKnown
  <2>2. CASE rounds' = [rounds EXCEPT ![r].accepted = @ \cup {p}]
    <3>1. rounds[r] \in RoundType /\ rounds \in [Rounds -> RoundType]
      BY DEF TypeOK
    <3>2. \A q \in Rounds : /\ rounds'[q].phase = rounds[q].phase
                            /\ rounds'[q].transition = rounds[q].transition
                            /\ rounds'[q].rev = rounds[q].rev
                            /\ rounds'[q].recruits = rounds[q].recruits
                            /\ rounds[q].accepted \subseteq rounds'[q].accepted
      BY <2>2, <3>1 DEF RoundType
    <3> QED
      BY <3>2, RoundsStill DEF AgreementInv, Proposed
  <2>3. CASE UNCHANGED rounds
    BY <2>3, RoundsUnchanged
  <2> QED
    BY <2>1, <2>2, <2>3 DEF Recruit
<1>3. /\ prim'[p] = 0
      /\ \A q \in Poolers : q # p => prim'[q] = prim[q] /\ guc'[q] = guc[q]
  BY <1>1 DEF StopReplication, TypeOK
<1>4. ASSUME NEW q \in Poolers PROVE PoolerKnown(q)'
  <2>1. (prim'[q] = prim[q] /\ guc'[q] = guc[q]) \/ prim'[q] = 0
    BY <1>3
  <2> QED
    BY <1>1, <1>2, <2>1, PoolerStill DEF AgreementInv
<1> QED
  BY <1>2, <1>4 DEF AgreementInv

\* Authoring a revocation.
LEMMA StartRoundAgreement ==
    ASSUME TypeOK, TypeOK', AgreementInv, NEW r \in Rounds, NEW heard \in SUBSET Poolers,
           StartRound(r, heard)
    PROVE  AgreementInv'
<1>1. PICK authored : rounds' = [rounds EXCEPT ![r].phase = "recruiting", ![r].rev = authored]
  BY DEF StartRound
<1>2. /\ rounds[r] \in RoundType /\ rounds \in [Rounds -> RoundType]
      /\ rounds[r].phase = "idle"
      /\ UNCHANGED <<wal, prim, guc, op>>
  BY DEF TypeOK, StartRound, pgVars
<1>3. \A q \in Rounds : /\ q # r => rounds'[q] = rounds[q]
                        /\ q = r => rounds'[q].phase = "recruiting"
                        /\ rounds'[q].transition = rounds[q].transition
                        /\ rounds'[q].recruits = rounds[q].recruits
                        /\ rounds'[q].accepted = rounds[q].accepted
  BY <1>1, <1>2 DEF RoundType
<1>4. \A q \in Rounds : /\ Proposed(q)' <=> Proposed(q)
                        /\ Proposed(q) => rounds'[q].rev = rounds[q].rev
  BY <1>2, <1>3 DEF Proposed
<1>5. RoundsKnown' /\ ProposalsKept
  BY <1>3, <1>4, RoundsStill DEF AgreementInv
<1>6. \A q \in Poolers : PoolerKnown(q)'
  BY <1>2, <1>5, PoolerStill DEF AgreementInv
<1> QED
  BY <1>5, <1>6 DEF AgreementInv

\* A step of pooler p that appends one known position, names at most a known
\* rule and keeps or derives the one configuration.
LEMMA WriterAgreement ==
    ASSUME TypeOK, TypeOK', AgreementInv, RoundsKnown', ProposalsKept, NEW p \in Poolers,
           NEW term, NEW kind, NEW pos, KnownPosition(pos)', AppendRecord(p, term, kind, pos),
           \A q \in Poolers : q # p =>
             op'[q] = op[q] /\ prim'[q] = prim[q] /\ guc'[q] = guc[q],
           OpKnown(p)', PrimarySynced(p)'
    PROVE  AgreementInv'
<1>1. /\ WalKnown(p)'
      /\ \A q \in Poolers : q # p => wal'[q] = wal[q]
  <2>1. WalKnown(p)
    BY DEF AgreementInv, PoolerKnown
  <2> QED
    BY <2>1, WalKnownAppend
<1>2. ASSUME NEW q \in Poolers, q # p PROVE PoolerKnown(q)'
  BY <1>1, <1>2, PoolerStill DEF AgreementInv
<1>3. PoolerKnown(p)'
  BY <1>1 DEF PoolerKnown
<1> QED
  BY <1>2, <1>3 DEF AgreementInv

\* Setting a policy that is the one there is.
LEMMA SetFirstPolicy ==
    ASSUME TypeOK, NEW p \in Poolers, NEW pc, pc = FirstPolicy, SetPolicy(p, pc)
    PROVE  /\ PrimarySynced(p)'
           /\ \A q \in Poolers : q # p => guc'[q] = guc[q]
<1>1. /\ CanBuildSyncReplicationConfig(FirstPolicy, p)
      /\ guc' = [guc EXCEPT ![p] = BuildSyncReplicationConfig(FirstPolicy, p)]
  BY DEF SetPolicy
<1>2. /\ guc'[p] = BuildSyncReplicationConfig(FirstPolicy, p)
      /\ \A q \in Poolers : q # p => guc'[q] = guc[q]
  BY <1>1 DEF TypeOK
<1> QED
  BY <1>1, <1>2 DEF PrimarySynced, FirstPolicy, PolicyWithCohort,
     CanBuildSyncReplicationConfig, BuildSyncReplicationConfig

\* Promotion.
LEMMA PromoteAgreement ==
    ASSUME TypeOK, TypeOK', AgreementInv, NEW r \in Rounds, Promote(r)
    PROVE  AgreementInv'
<1>1. PICK rule, p, last :
         /\ rule = rounds[r].transition.proposal
         /\ p = rule.leader
         /\ last = LastPos(p)
  BY SMTT(30)
<1>2. Proposed(r) /\ KnownRule(rule)
  BY <1>1, ZenonT(60) DEF Promote, Proposed, KnownRule
<1>3. p \in Poolers
  BY <1>1, <1>2 DEF AgreementInv, RoundsKnown, ProposalWon
<1>4. RoundsKnown' /\ ProposalsKept
  <2>1. /\ rounds[r] \in RoundType /\ rounds \in [Rounds -> RoundType]
        /\ rounds' = [rounds EXCEPT ![r].phase = "promoting"]
    BY PromoteFrame DEF TypeOK
  <2>2. \A q \in Rounds : /\ q # r => rounds'[q] = rounds[q]
                          /\ q = r => rounds'[q].phase = "promoting"
                          /\ rounds'[q].transition = rounds[q].transition
                          /\ rounds'[q].rev = rounds[q].rev
                          /\ rounds'[q].recruits = rounds[q].recruits
                          /\ rounds'[q].accepted = rounds[q].accepted
    BY <2>1 DEF RoundType
  <2>3. \A q \in Rounds : Proposed(q)' <=> Proposed(q)
    BY <1>2, <2>2 DEF Proposed
  <2> QED
    BY <2>2, <2>3, RoundsStill DEF AgreementInv
<1>5. KnownPosition(last)
  BY <1>1, <1>3, OwnPositionKnown
<1> DEFINE policy == IF ~IsRuleDecided(last) THEN ExpectedSyncStandbyPolicy(last)
                     ELSE TransitionPolicy(last.decision, rule)
           first == IF ~IsRuleDecided(last) THEN "confirm" ELSE "propose"
<1>6. policy = FirstPolicy
  BY <1>2, <1>5, KnownPolicies, SMTT(30) DEF AgreementInv
<1>7. \/ /\ SetPolicy(p, policy)
         /\ prim' = [prim EXCEPT ![p] = rule.num.term]
         /\ AppendRecord(p, rule.num.term, "switch", last)
         /\ op' = [op EXCEPT ![p] = [phase |-> first, round |-> r, rule |-> rule, await |-> 0]]
      \/ UNCHANGED <<wal, prim, guc, op>>
  BY <1>1, ZenonT(60) DEF Promote
<1> HIDE DEF policy
<1>8. CASE UNCHANGED <<wal, prim, guc, op>>
  BY <1>4, <1>8, PoolerStill DEF AgreementInv
<1>9. CASE ~UNCHANGED <<wal, prim, guc, op>>
  <2>1. /\ PrimarySynced(p)'
        /\ \A q \in Poolers : q # p => guc'[q] = guc[q]
    BY <1>3, <1>6, <1>7, <1>9, SetFirstPolicy
  <2>2. \A q \in Poolers : q # p => op'[q] = op[q] /\ prim'[q] = prim[q]
    BY <1>7, <1>9 DEF TypeOK
  <2>3. op'[p].rule = rule
    BY <1>3, <1>7, <1>9 DEF TypeOK
  <2>4. KnownRule(rule)' /\ KnownPosition(last)'
    BY <1>2, <1>4, <1>5, KnownKept
  <2>5. OpKnown(p)'
    BY <2>3, <2>4 DEF OpKnown, KnownRule
  <2> QED
    BY <1>3, <1>4, <1>7, <1>9, <2>1, <2>2, <2>4, <2>5, WriterAgreement
<1> QED
  BY <1>8, <1>9

\* A write of the operation in progress.
LEMMA WriteRuleAgreement ==
    ASSUME TypeOK, TypeOK', AgreementInv, NEW p \in Poolers, NEW kind, NEW pos, NEW phase,
           WriteRule(p, kind, pos, phase), op[p].phase # "none", KnownPosition(pos),
           PrimarySynced(p)', \A q \in Poolers : q # p => guc'[q] = guc[q]
    PROVE  AgreementInv'
<1>1. op[p] \in OpType
  BY DEF TypeOK
<1>2. /\ op'[p].rule = op[p].rule
      /\ \A q \in Poolers : q # p => op'[q] = op[q]
      /\ UNCHANGED <<prim, rounds>>
      /\ AppendRecord(p, prim[p], kind, pos)
  BY <1>1 DEF WriteRule, TypeOK, OpType
<1>3. RoundsKnown' /\ ProposalsKept
  BY <1>2, RoundsUnchanged
<1>4. KnownRule(op[p].rule)
  BY DEF AgreementInv, PoolerKnown, OpKnown
<1>5. OpKnown(p)'
  BY <1>2, <1>4 DEF OpKnown, KnownRule, Proposed
<1>6. KnownPosition(pos)'
  BY <1>3, KnownKept
<1> QED
  BY <1>2, <1>3, <1>5, <1>6, WriterAgreement

\* The steps of a rule change.
LEMMA RuleStepAgreement ==
    ASSUME TypeOK, TypeOK', HistoryInv, AgreementInv, NEW p \in Poolers, RuleStep(p)
    PROVE  AgreementInv'
<1>1. PICK last, rule : last = LastPos(p) /\ rule = op[p].rule
  OBVIOUS
<1>2. KnownPosition(last) /\ RoundsKnown /\ PrimarySynced(p)
  BY <1>1, OwnPositionKnown DEF AgreementInv, PoolerKnown
<1>3. op[p].phase # "none" /\ KnownRule(rule)
  BY <1>1 DEF RuleStep, ConfirmProposalQuorum, FinalizeStuckProposal, WriteRuleProposal,
     MarkProposalAsDecision, SettleRule, AgreementInv, PoolerKnown, OpKnown
<1>4. ASSUME UNCHANGED <<guc, prim>>
      PROVE  PrimarySynced(p)' /\ \A q \in Poolers : q # p => guc'[q] = guc[q]
  BY <1>2, <1>4 DEF PrimarySynced, FirstPolicy
<1>5. CASE ConfirmProposalQuorum(p)
  BY <1>1, <1>2, <1>4, <1>5, WriteRuleAgreement DEF ConfirmProposalQuorum, WriteRule
<1>6. CASE FinalizeStuckProposal(p)
  <2>1. ~IsRuleDecided(last)
    BY <1>1, <1>6 DEF FinalizeStuckProposal, HistoryInv, HistoryOf, OperationOwnsWal
  <2>2. KnownPosition(Decided(last.proposal))
    BY <1>2, <2>1, KnownPolicies
  <2> QED
    BY <1>1, <1>4, <1>6, <2>2, WriteRuleAgreement DEF FinalizeStuckProposal, WriteRule
<1>7. CASE WriteRuleProposal(p)
  <2>1. PICK pos : pos = [decision |-> last.decision, proposal |-> rule]
    OBVIOUS
  <2>2. KnownPosition(pos)
    BY <1>2, <1>3, <2>1 DEF KnownPosition
  <2>3. TransitionPolicy(last.decision, rule) = FirstPolicy
    BY <1>2, <1>3, KnownPolicies
  <2>4. PrimarySynced(p)' /\ \A q \in Poolers : q # p => guc'[q] = guc[q]
    BY <1>1, <1>7, <2>3, SetFirstPolicy DEF WriteRuleProposal
  <2> QED
    BY <1>1, <1>3, <1>7, <2>1, <2>2, <2>4, WriteRuleAgreement DEF WriteRuleProposal
<1>8. CASE MarkProposalAsDecision(p)
  <2>1. KnownPosition(Decided(rule))
    BY <1>3 DEF KnownPosition, Decided
  <2> QED
    BY <1>1, <1>3, <1>4, <1>8, <2>1, WriteRuleAgreement DEF MarkProposalAsDecision, WriteRule
<1>9. CASE SettleRule(p)
  <2>1. /\ op'[p].phase = "none"
        /\ \A q \in Poolers : q # p => op'[q] = op[q]
        /\ UNCHANGED <<wal, prim, rounds>>
    BY <1>9 DEF SettleRule, TypeOK, NoOp
  <2>2. PolicyWithCohort(rule) = FirstPolicy
    BY <1>2, <1>3, KnownRules
  <2>3. PrimarySynced(p)' /\ \A q \in Poolers : q # p => guc'[q] = guc[q]
    BY <1>1, <1>9, <2>2, SetFirstPolicy DEF SettleRule
  <2>4. RoundsKnown' /\ ProposalsKept
    BY <2>1, RoundsUnchanged
  <2>5. ASSUME NEW q \in Poolers, q # p PROVE PoolerKnown(q)'
    BY <2>1, <2>3, <2>4, <2>5, PoolerStill DEF AgreementInv
  <2>6. WalKnown(p)' /\ OpKnown(p)'
    <3>1. WalKnown(p)
      BY DEF AgreementInv, PoolerKnown
    <3> QED
      BY <2>1, <2>4, <3>1, KnownKept DEF WalKnown, OpKnown, Lsn
  <2> QED
    BY <2>3, <2>4, <2>5, <2>6 DEF AgreementInv, PoolerKnown
<1> QED
  BY <1>5, <1>6, <1>7, <1>8, <1>9 DEF RuleStep

\* A step of a pooler that writes nothing: it may end its operation, and may
\* cease to be a primary.
LEMMA SilentAgreement ==
    ASSUME TypeOK, TypeOK', AgreementInv, UNCHANGED <<wal, rounds>>,
           \A q \in Poolers : /\ op'[q] = op[q] \/ op'[q].phase = "none"
                              /\ (prim'[q] = prim[q] /\ guc'[q] = guc[q]) \/ prim'[q] = 0
    PROVE  AgreementInv'
<1>1. RoundsKnown' /\ ProposalsKept
  BY RoundsUnchanged
<1>2. \A q \in Poolers : PoolerKnown(q)'
  BY <1>1, PoolerStill DEF AgreementInv
<1> QED
  BY <1>1, <1>2 DEF AgreementInv

\* A rewound pooler keeps a prefix of its WAL.
LEMMA RestartAgreement ==
    ASSUME TypeOK, TypeOK', AgreementInv, NEW p \in Poolers, NEW leader \in Poolers,
           RestartAsStandby(p, leader), UNCHANGED <<op, rounds>>
    PROVE  AgreementInv'
<1>1. PICK n \in RewindPoints(p, leader) : wal' = [wal EXCEPT ![p] = SubSeq(wal[p], 1, n)]
  BY DEF RestartAsStandby
<1>2. n \in 1..Len(wal[p])
  BY <1>1, RewindKeepsPrefix DEF Lsn
<1>3. wal[p] \in Seq(RecordType) /\ Len(wal[p]) \in Nat
  BY WalTypes DEF Lsn
<1>4. wal'[p] = SubSeq(wal[p], 1, n) /\ \A q \in Poolers : q # p => wal'[q] = wal[q]
  <2>1. wal \in [Poolers -> Seq(RecordType)]
    BY DEF TypeOK
  <2> QED
    BY <1>1, <2>1, Zenon
<1>5. Len(wal'[p]) = n /\ \A i \in 1..n : wal'[p][i] = wal[p][i] /\ i \in 1..Len(wal[p])
  BY <1>2, <1>3, <1>4, SubSeqProperties
<1>6. /\ prim'[p] = 0
      /\ \A q \in Poolers : q # p => prim'[q] = prim[q] /\ guc'[q] = guc[q]
  BY DEF RestartAsStandby, TypeOK
<1>7. RoundsKnown' /\ ProposalsKept
  BY RoundsUnchanged
<1>8. ASSUME NEW q \in Poolers, q # p PROVE PoolerKnown(q)'
  BY <1>4, <1>6, <1>7, <1>8, PoolerStill DEF AgreementInv
<1>9. PoolerKnown(p)'
  <2>1. WalKnown(p) /\ OpKnown(p)
    BY DEF AgreementInv, PoolerKnown
  <2>2. WalKnown(p)'
    BY <1>5, <1>7, <2>1, KnownKept DEF WalKnown, Lsn
  <2>3. OpKnown(p)'
    BY <1>7, <2>1, KnownKept DEF OpKnown
  <2> QED
    BY <1>6, <2>2, <2>3 DEF PoolerKnown, PrimarySynced
<1> QED
  BY <1>7, <1>8, <1>9 DEF AgreementInv

\* Being told of a replication primary.
LEMMA SetPrimaryAgreement ==
    ASSUME TypeOK, TypeOK', AgreementInv, NEW p \in Poolers, NEW m \in Announcements,
           SetPrimary(p, m)
    PROVE  AgreementInv'
<1>1. m.primary # None /\ UNCHANGED <<op, rounds>>
  BY DEF SetPrimary
<1>2. m.primary \in Poolers
  BY <1>1, AnnouncementType DEF PrimaryType
<1>3. CASE RestartAsStandby(p, m.primary)
  BY <1>1, <1>2, <1>3, RestartAgreement
<1>4. CASE UNCHANGED <<wal, prim, guc>>
  BY <1>1, <1>4, SilentAgreement
<1> QED
  BY <1>3, <1>4 DEF SetPrimary, pgVars

\* The monitor's remedial actions.
LEMMA MonitorStepAgreement ==
    ASSUME TypeOK, TypeOK', AgreementInv, NEW p \in Poolers, MonitorStep(p)
    PROVE  AgreementInv'
<1>1. CASE FixPrimaryConnInfo(p) \/ MarkStandbyDiverged(p)
  <2>1. UNCHANGED <<wal, prim, guc, op, rounds>>
    BY <1>1 DEF FixPrimaryConnInfo, MarkStandbyDiverged, pgVars
  <2> QED
    BY <2>1, SilentAgreement
<1>2. CASE RewindToLeader(p) \/ DemoteStalePrimary(p)
  <2>1. /\ rp[p].primary # None
        /\ RestartAsStandby(p, rp[p].primary)
        /\ UNCHANGED <<op, rounds>>
    BY <1>2 DEF RewindToLeader, DemoteStalePrimary, ConnInfoReconcileAllowed
  <2>2. rp[p].primary \in Poolers
    BY <2>1 DEF TypeOK, PrimaryType
  <2> QED
    BY <2>1, <2>2, RestartAgreement
<1>3. CASE ReconcileGUC(p)
  <2>1. UNCHANGED <<wal, prim, op, rounds>>
    BY <1>3 DEF ReconcileGUC
  <2>2. ExpectedSyncStandbyPolicy(Visible(p)) = FirstPolicy
    BY OwnPositionKnown, KnownPolicies DEF AgreementInv
  <2>3. PrimarySynced(p)' /\ \A q \in Poolers : q # p => guc'[q] = guc[q]
    BY <1>3, <2>2, SetFirstPolicy DEF ReconcileGUC
  <2>4. RoundsKnown' /\ ProposalsKept
    BY <2>1, RoundsUnchanged
  <2>5. ASSUME NEW q \in Poolers, q # p PROVE PoolerKnown(q)'
    BY <2>1, <2>3, <2>4, <2>5, PoolerStill DEF AgreementInv
  <2>6. WalKnown(p)' /\ OpKnown(p)'
    <3>1. WalKnown(p) /\ OpKnown(p)
      BY DEF AgreementInv, PoolerKnown
    <3> QED
      BY <2>1, <2>4, <3>1, KnownKept DEF WalKnown, OpKnown, Lsn
  <2> QED
    BY <2>3, <2>4, <2>5, <2>6 DEF AgreementInv, PoolerKnown
<1> QED
  BY <1>1, <1>2, <1>3 DEF MonitorStep

\* Streaming copies a position of another WAL.
LEMMA StreamAgreement ==
    ASSUME TypeOK, TypeOK', AgreementInv, NEW s \in Poolers, Stream(s)
    PROVE  AgreementInv'
<1>1. PICK p \in Poolers : p = conn[s]
  BY DEF Stream, TypeOK
<1>2. /\ wal[s] \in Seq(RecordType) /\ Len(wal[s]) \in Nat
      /\ wal[p] \in Seq(RecordType) /\ Len(wal[p]) \in Nat
  BY WalTypes DEF Lsn
<1>3. Len(wal[s]) + 1 \in 1..Len(wal[p])
  <2>1. /\ wal[s] # wal[p]
        /\ Len(wal[s]) <= Len(wal[p])
        /\ SubSeq(wal[s], 1, Len(wal[s])) = SubSeq(wal[p], 1, Len(wal[s]))
    BY <1>1 DEF Stream, IsStrictPrefix, IsPrefix
  <2>2. SubSeq(wal[s], 1, Len(wal[s])) = wal[s] /\ SubSeq(wal[p], 1, Len(wal[p])) = wal[p]
    BY <1>2, SubSeqFull
  <2> QED
    BY <1>2, <2>1, <2>2
<1>4. PICK record \in RecordType : record = wal[p][Len(wal[s]) + 1]
  BY <1>3, WalTypes DEF Lsn
<1>5. KnownPosition(record.pos)
  BY <1>3, <1>4 DEF AgreementInv, PoolerKnown, WalKnown, Lsn
<1>6. AppendRecord(s, record.by, record.kind, record.pos)
  <2>1. record = [by |-> record.by, kind |-> record.kind, pos |-> record.pos]
    BY DEF RecordType
  <2> QED
    BY <1>1, <1>4, <2>1 DEF Stream, AppendRecord, Lsn
<1>7. UNCHANGED <<prim, guc, op, rounds>>
  BY DEF Stream
<1>8. RoundsKnown' /\ ProposalsKept
  BY <1>7, RoundsUnchanged
<1>9. KnownPosition(record.pos)'
  BY <1>5, <1>8, KnownKept
<1>10. OpKnown(s)' /\ PrimarySynced(s)'
  <2>1. OpKnown(s) /\ PrimarySynced(s)
    BY DEF AgreementInv, PoolerKnown
  <2> QED
    BY <1>7, <1>8, <2>1, KnownKept DEF OpKnown, PrimarySynced
<1> QED
  BY <1>6, <1>7, <1>8, <1>9, <1>10, WriterAgreement

\* A client's write repeats the last position.
LEMMA ClientWriteAgreement ==
    ASSUME TypeOK, TypeOK', AgreementInv, NEW p \in Poolers, ClientWrite(p)
    PROVE  AgreementInv'
<1>1. UNCHANGED <<prim, guc, op, rounds>> /\ AppendRecord(p, prim[p], "data", LastPos(p))
  BY DEF ClientWrite
<1>2. RoundsKnown' /\ ProposalsKept
  BY <1>1, RoundsUnchanged
<1>3. PICK pos : pos = LastPos(p)
  OBVIOUS
<1>4. KnownPosition(pos)'
  BY <1>2, <1>3, OwnPositionKnown, KnownKept
<1>5. OpKnown(p)' /\ PrimarySynced(p)'
  <2>1. OpKnown(p) /\ PrimarySynced(p)
    BY DEF AgreementInv, PoolerKnown
  <2> QED
    BY <1>1, <1>2, <2>1, KnownKept DEF OpKnown, PrimarySynced
<1> QED
  BY <1>1, <1>2, <1>3, <1>4, <1>5, WriterAgreement

\* An operation that is given up, by its context or by a crash.
LEMMA StopAgreement ==
    ASSUME TypeOK, TypeOK', AgreementInv, NEW p \in Poolers,
           AbortOperation(p) \/ PostgresCrash(p) \/ PoolerCrash(p)
    PROVE  AgreementInv'
<1>1. /\ op'[p].phase = "none"
      /\ \A q \in Poolers : q # p => op'[q] = op[q]
      /\ UNCHANGED <<wal, rounds>>
  BY SMTT(30) DEF AbortOperation, PostgresCrash, PoolerCrash, TypeOK, NoOp, pgVars
<1>2. \A q \in Poolers : (prim'[q] = prim[q] /\ guc'[q] = guc[q]) \/ prim'[q] = 0
  BY DEF AbortOperation, PostgresCrash, PoolerCrash, TypeOK, pgVars
<1> QED
  BY <1>1, <1>2, SilentAgreement

\* Every step of a shard whose cohort is not changed.
LEMMA NextAgreement ==
    ASSUME MaxCohortChanges = 0, TypeOK, TypeOK', HistoryInv, AgreementInv, [Next]_vars
    PROVE  AgreementInv'
<1>1. ASSUME NEW p \in Poolers, NEW cohort, UpdateConsensusRule(p, cohort) PROVE FALSE
  BY <1>1 DEF UpdateConsensusRule, TypeOK, SpentType
<1>2. CASE Next
  <2>1. CASE Coordination
    BY <2>1, StartRoundAgreement, RecruitAgreement, PromoteAgreement, SetPrimaryAgreement
       DEF Coordination
  <2>2. ASSUME NEW p \in Poolers, Local(p) PROVE AgreementInv'
    BY <1>1, <2>2, RuleStepAgreement, MonitorStepAgreement, StreamAgreement,
       ClientWriteAgreement, StopAgreement DEF Local
  <2> QED
    BY <1>2, <2>1, <2>2 DEF Next
<1>3. CASE UNCHANGED vars
  BY <1>3, SilentAgreement DEF vars
<1> QED
  BY <1>2, <1>3

\* The first rule is the only one at the start.
LEMMA InitAgreement == Init => AgreementInv
<1> SUFFICES ASSUME Init PROVE AgreementInv
  OBVIOUS
<1>1. RoundsKnown
  BY DEF Init, IdleRound, RoundsKnown, ProposalWon, RecruitsKnown, Proposed
<1>2. ASSUME NEW p \in Poolers PROVE PoolerKnown(p)
  <2>1. WalKnown(p)
    <3>1. Len(wal[p]) = 1 /\ wal[p][1].pos = Decided(InitialRule)
      BY DEF Init
    <3> QED
      BY <3>1 DEF WalKnown, Lsn, KnownPosition, KnownRule, Decided
  <2>2. OpKnown(p)
    BY DEF OpKnown, Init, NoOp
  <2>3. PrimarySynced(p)
    BY ConstantsAssumption DEF PrimarySynced, FirstPolicy, Init
  <2> QED
    BY <2>1, <2>2, <2>3 DEF PoolerKnown
<1> QED
  BY <1>1, <1>2 DEF AgreementInv

\* The inductive invariant of a shard whose cohort is not changed.
LEMMA AgreementHolds == MaxCohortChanges = 0 => (Spec => [](TypeOK /\ AgreementInv))
<1> SUFFICES ASSUME MaxCohortChanges = 0 PROVE Spec => [](TypeOK /\ AgreementInv)
  OBVIOUS
<1>1. Init => TypeOK /\ HistoryInv /\ AgreementInv
  BY InitTypes, InitHistory, InitAgreement
<1>2. TypeOK /\ HistoryInv /\ AgreementInv /\ [Next]_vars => TypeOK' /\ HistoryInv' /\ AgreementInv'
  BY NextTypes, NextHistory, NextAgreement
<1> QED
  BY <1>1, <1>2, PTL DEF Spec

\* A rule number stands for one rule.
LEMMA RuleByNumber ==
    ASSUME TypeOK, AgreementInv, OneWinner,
           NEW rule, NEW other, KnownRule(rule), KnownRule(other), rule.num = other.num
    PROVE  rule = other
<1>1. ASSUME NEW a, NEW b, KnownRule(a), KnownRule(b), a.num = b.num, a # InitialRule
      PROVE  a = b
  <2>1. PICK r \in Rounds : Proposed(r) /\ a = rounds[r].transition.proposal
    BY <1>1 DEF KnownRule
  <2>2. ProposalWon(r)
    BY DEF AgreementInv, RoundsKnown
  <2>3. a.num.term = rounds[r].rev.term /\ a.num.term > InitialRule.num.term
        /\ MajorityOf(InitialRule.cohort, rounds[r].accepted)
    BY <2>1, <2>2 DEF ProposalWon
  <2>4. InitialRule.num.term \in Nat
    BY ConstantsAssumption, RuleParts
  <2>5. b # InitialRule
    BY <1>1, <2>3, <2>4
  <2>6. PICK q \in Rounds : Proposed(q) /\ b = rounds[q].transition.proposal
    BY <1>1, <2>5 DEF KnownRule
  <2>7. ProposalWon(q)
    BY DEF AgreementInv, RoundsKnown
  <2>8. b.num.term = rounds[q].rev.term /\ MajorityOf(InitialRule.cohort, rounds[q].accepted)
    BY <2>6, <2>7 DEF ProposalWon
  <2>9. rounds[r].rev.term = rounds[q].rev.term
    BY <1>1, <2>3, <2>8
  <2>10. \A S : Promises!Cardinality(S) = Cardinality(S)
    BY DEF Promises!Cardinality, Cardinality
  <2>11. InitialRule.cohort \in SUBSET Poolers
    BY ConstantsAssumption, RuleParts
  <2>12. r = q
    BY <2>3, <2>8, <2>9, <2>10, <2>11
       DEF OneWinner, Promises!OneWinner, Promises!Majority, MajorityOf
  <2> QED
    BY <2>1, <2>6, <2>12
<1> QED
  BY <1>1

\* As long as no leader changes the cohort, two rules with one number are one
\* rule: whatever coordinators race, whichever poolers crash, are rewound or are
\* recruited twice, and however promotions are cut short.
THEOREM FixedCohortAgreement == MaxCohortChanges = 0 => (Spec => []RuleAgreement)
<1>1. ASSUME TypeOK, AgreementInv, OneWinner PROVE RuleAgreement
  <2>1. ASSUME NEW p \in Poolers, NEW i \in 1..Lsn(p), NEW a \in RulesOf(wal[p][i].pos)
        PROVE  KnownRule(a)
    BY <1>1, <2>1 DEF AgreementInv, PoolerKnown, WalKnown, KnownPosition, RulesOf
  <2> QED
    BY <1>1, <2>1, RuleByNumber DEF RuleAgreement
<1>2. TypeOK /\ AgreementInv /\ OneWinner => RuleAgreement
  BY <1>1
<1> QED
  BY <1>2, AgreementHolds, OneWinnerPerTerm, PTL

\* As long as no leader changes the cohort, the standbys that let a primary's
\* commit through satisfy the policy of every rule it works under, while rules
\* are written, half written, finalized for another or reconciled.
THEOREM FixedCohortCommitQuorum == MaxCohortChanges = 0 => (Spec => []CommitQuorumCoversRule)
<1>1. ASSUME TypeOK, AgreementInv PROVE CommitQuorumCoversRule
  <2> SUFFICES ASSUME NEW p \in Poolers, prim[p] # 0, NEW S \in SUBSET guc[p].standbys,
                      Cardinality(S) = guc[p].numSync,
                      NEW rule \in {LastPos(p).decision, Visible(p).decision}
               PROVE  SatisfiedBy(rule.policy, (S \cup {p}) \cap rule.cohort)
    BY DEF CommitQuorumCoversRule
  <2>1. rule.policy = InitialRule.policy /\ rule.cohort = InitialRule.cohort
    <3>1. KnownRule(rule)
      BY <1>1, OwnPositionKnown DEF KnownPosition
    <3> QED
      BY <1>1, <3>1, KnownRules DEF AgreementInv
  <2>2. PICK policy, cohort : policy = InitialRule.policy /\ cohort = InitialRule.cohort
    OBVIOUS
  <2>3. policy \in Policies /\ cohort \in SUBSET Poolers
    BY <2>2, ConstantsAssumption, RuleParts
  <2>4. /\ CanBuildSyncReplicationConfig([policy |-> policy, cohort |-> cohort], p)
        /\ guc[p] = BuildSyncReplicationConfig([policy |-> policy, cohort |-> cohort], p)
    BY <1>1, <2>2 DEF AgreementInv, PoolerKnown, PrimarySynced, FirstPolicy, PolicyWithCohort
  <2>5. Cardinality(S) >= guc[p].numSync
    <3>1. guc[p] \in SyncType /\ guc[p].numSync \in Nat
      BY <1>1 DEF TypeOK, SyncType
    <3> QED
      BY <3>1
  <2>6. S \cup {p} \subseteq cohort /\ SatisfiedBy(policy, S \cup {p})
    BY <2>3, <2>4, <2>5, CommitQuorumSatisfiesPolicy
  <2>7. (S \cup {p}) \cap cohort = S \cup {p}
    BY <2>6
  <2> QED
    BY <2>1, <2>2, <2>6, <2>7
<1>2. TypeOK /\ AgreementInv => CommitQuorumCoversRule
  BY <1>1
<1> QED
  BY <1>2, AgreementHolds, PTL
=============================================================================
