-------------------------- MODULE ShardLeaderProofs --------------------------
(***************************************************************************)
(* That the shard loses no commit while its leader changes no cohort, for  *)
(* every finite set of poolers, every placement in cells, both policies,   *)
(* and any number of rounds, writes, crashes and aborts.  The invariant is *)
(* the conjunction of                                                      *)
(*                                                                         *)
(*  - ElectionInv: rounds start in order, each pooler accepts them in the  *)
(*    order of their terms, and a proposal is built from a sufficient set  *)
(*    of answers;                                                          *)
(*  - WalInv: every record is at a position some round leads to, positions *)
(*    never descend along a WAL, and the records of a term are copies of   *)
(*    what its one primary wrote;                                          *)
(*  - ConnInv: a pooler that accepted a round follows only a primary that  *)
(*    the revocation lets lead, and RecruitsInv: it never falls behind     *)
(*    what it answered, but for a rewind, which leaves a floor;            *)
(*  - LedgerInv: for the last commit of each term, a quorum has reached    *)
(*    it, a later round still recruiting has recruits that cannot all miss *)
(*    it or can no longer propose, every leader proposed later has reached *)
(*    it, and every WAL that goes on past the term has it.                 *)
(*                                                                         *)
(* The steps are first put in a normal form (Shapes): what each action of  *)
(* the shard does to what the invariant speaks of.  Each part is then kept *)
(* by each form of step.  The heart of it is LedgerInv.  A commit that has *)
(* just become durable starts a ledger, because a later round that has its *)
(* proposal has fenced the standbys off (Fenced); and a new proposal keeps *)
(* the ledgers of earlier terms, because BuildSafeProposal takes the most  *)
(* advanced of answers that meet every quorum (ProposalReaches).           *)
(***************************************************************************)
EXTENDS ShardConsensusProofs

-----------------------------------------------------------------------------
(* The comparisons of the code are total orders.                           *)

\* CompareRuleNumbers, comparePosition and ComparePoolerPosition as relations.
NotAbove(a, b) == CompareRuleNumbers(a, b) <= 0

PosNotAbove(a, b) == CompareRulePosition(a, b) <= 0

\* A pooler position is at least a given one.
Reaches(x, mark) == ComparePoolerPosition(x, mark) >= 0

\* What a floor, a recruit or a commit is compared by: a position and an LSN.
MarkType == FloorType

\* Rule numbers are totally ordered, by their terms first.
LEMMA NumberOrder ==
    ASSUME NEW a \in RuleNumber, NEW b \in RuleNumber, NEW c \in RuleNumber
    PROVE  /\ NotAbove(a, a)
           /\ NotAbove(a, b) \/ NotAbove(b, a)
           /\ NotAbove(a, b) /\ NotAbove(b, a) => a = b
           /\ NotAbove(a, b) /\ NotAbove(b, c) => NotAbove(a, c)
           /\ a.term < b.term => ~NotAbove(b, a)
           /\ NotAbove(a, b) => a.term <= b.term
           /\ CompareRuleNumbers(a, b) > 0 <=> ~NotAbove(a, b)
           /\ CompareRuleNumbers(a, b) < 0 <=> ~NotAbove(b, a)
           /\ CompareRuleNumbers(a, b) = 0 <=> a = b
           /\ CompareRuleNumbers(a, b) >= 0 <=> NotAbove(b, a)
<1>1. /\ a.term \in Nat /\ b.term \in Nat /\ c.term \in Nat
      /\ a.subterm \in Nat /\ b.subterm \in Nat /\ c.subterm \in Nat
  BY DEF RuleNumber
<1>2. /\ a = [term |-> a.term, subterm |-> a.subterm]
      /\ b = [term |-> b.term, subterm |-> b.subterm]
  BY DEF RuleNumber
<1> QED
  BY <1>1, <1>2 DEF CompareRuleNumbers, NotAbove

\* The parts of a position have numbers.
LEMMA PositionNumbers ==
    ASSUME NEW pos \in PositionType
    PROVE  /\ pos.decision.num \in RuleNumber
           /\ pos.proposal.num \in RuleNumber
           /\ PossiblyUndecidedRule(pos).num \in RuleNumber
           /\ pos.decision.num.term \in Nat
           /\ pos.proposal.num.term \in Nat
           /\ PossiblyUndecidedRule(pos).num.term \in Nat
BY PositionParts, RuleParts

\* Positions are ordered by the decision first, then by the proposal.
LEMMA PositionOrder ==
    ASSUME NEW a \in PositionType, NEW b \in PositionType, NEW c \in PositionType
    PROVE  /\ PosNotAbove(a, b) <=> \/ ~NotAbove(b.decision.num, a.decision.num)
                                    \/ /\ a.decision.num = b.decision.num
                                       /\ NotAbove(a.proposal.num, b.proposal.num)
           /\ PosNotAbove(a, a)
           /\ PosNotAbove(a, b) \/ PosNotAbove(b, a)
           /\ PosNotAbove(a, b) /\ PosNotAbove(b, c) => PosNotAbove(a, c)
           /\ PosNotAbove(a, b) /\ PosNotAbove(b, a) =>
                a.decision.num = b.decision.num /\ a.proposal.num = b.proposal.num
           /\ CompareRulePosition(a, b) > 0 <=> ~PosNotAbove(a, b)
           /\ CompareRulePosition(a, b) < 0 <=> ~PosNotAbove(b, a)
           /\ CompareRulePosition(a, b) = 0 <=> PosNotAbove(a, b) /\ PosNotAbove(b, a)
           /\ CompareRulePosition(a, b) >= 0 <=> PosNotAbove(b, a)
<1>1. PICK ad, ap, bd, bp, cd, cp \in RuleNumber :
         /\ ad = a.decision.num /\ ap = a.proposal.num
         /\ bd = b.decision.num /\ bp = b.proposal.num
         /\ cd = c.decision.num /\ cp = c.proposal.num
  BY PositionNumbers
<1>2. /\ CompareRulePosition(a, b) = IF CompareRuleNumbers(ad, bd) # 0
                                     THEN CompareRuleNumbers(ad, bd)
                                     ELSE CompareRuleNumbers(ap, bp)
      /\ CompareRulePosition(b, a) = IF CompareRuleNumbers(bd, ad) # 0
                                     THEN CompareRuleNumbers(bd, ad)
                                     ELSE CompareRuleNumbers(bp, ap)
      /\ CompareRulePosition(b, c) = IF CompareRuleNumbers(bd, cd) # 0
                                     THEN CompareRuleNumbers(bd, cd)
                                     ELSE CompareRuleNumbers(bp, cp)
      /\ CompareRulePosition(a, c) = IF CompareRuleNumbers(ad, cd) # 0
                                     THEN CompareRuleNumbers(ad, cd)
                                     ELSE CompareRuleNumbers(ap, cp)
      /\ CompareRulePosition(a, a) = IF CompareRuleNumbers(ad, ad) # 0
                                     THEN CompareRuleNumbers(ad, ad)
                                     ELSE CompareRuleNumbers(ap, ap)
  BY <1>1 DEF CompareRulePosition
<1>3. /\ ad.term \in Nat /\ ap.term \in Nat /\ bd.term \in Nat
      /\ bp.term \in Nat /\ cd.term \in Nat /\ cp.term \in Nat
      /\ ad.subterm \in Nat /\ ap.subterm \in Nat /\ bd.subterm \in Nat
      /\ bp.subterm \in Nat /\ cd.subterm \in Nat /\ cp.subterm \in Nat
  BY DEF RuleNumber
<1>4. /\ (ad = bd) <=> (ad.term = bd.term /\ ad.subterm = bd.subterm)
      /\ (ap = bp) <=> (ap.term = bp.term /\ ap.subterm = bp.subterm)
  BY DEF RuleNumber
<1> QED
  BY <1>1, <1>2, <1>3, <1>4 DEF PosNotAbove, NotAbove, CompareRuleNumbers

\* Pooler positions are ordered by the rule position first, then by the LSN.
LEMMA MarkOrder ==
    ASSUME NEW x \in MarkType, NEW y \in MarkType, NEW z \in MarkType
    PROVE  /\ Reaches(x, y) <=> \/ ~PosNotAbove(x.pos, y.pos)
                                \/ PosNotAbove(y.pos, x.pos) /\ y.lsn <= x.lsn
           /\ Reaches(x, x)
           /\ Reaches(x, y) /\ Reaches(y, z) => Reaches(x, z)
           /\ Reaches(x, y) => PosNotAbove(y.pos, x.pos)
           /\ ComparePoolerPosition(x, y) < 0 <=> ~Reaches(x, y)
<1>1. /\ x.pos \in PositionType /\ y.pos \in PositionType /\ z.pos \in PositionType
      /\ x.lsn \in Nat /\ y.lsn \in Nat /\ z.lsn \in Nat
  BY DEF MarkType, FloorType
<1>2. PICK xy, yx, yz, xz, xx :
         /\ xy = CompareRulePosition(x.pos, y.pos)
         /\ yx = CompareRulePosition(y.pos, x.pos)
         /\ yz = CompareRulePosition(y.pos, z.pos)
         /\ xz = CompareRulePosition(x.pos, z.pos)
         /\ xx = CompareRulePosition(x.pos, x.pos)
  OBVIOUS
<1>3. /\ xx = 0 /\ xy \in {-1, 0, 1} /\ yz \in {-1, 0, 1} /\ xz \in {-1, 0, 1}
      /\ xy > 0 <=> ~PosNotAbove(x.pos, y.pos)
      /\ xy >= 0 <=> PosNotAbove(y.pos, x.pos)
      /\ xy = 0 <=> PosNotAbove(x.pos, y.pos) /\ PosNotAbove(y.pos, x.pos)
      /\ yz > 0 <=> ~PosNotAbove(y.pos, z.pos)
      /\ yz >= 0 <=> PosNotAbove(z.pos, y.pos)
      /\ xz > 0 <=> ~PosNotAbove(x.pos, z.pos)
      /\ xz >= 0 <=> PosNotAbove(z.pos, x.pos)
  <2>1. \A a, b \in PositionType : CompareRulePosition(a, b) \in {-1, 0, 1}
    BY PositionNumbers, RuleNumbersOrdered DEF CompareRulePosition
  <2>2. xy \in {-1, 0, 1} /\ yz \in {-1, 0, 1} /\ xz \in {-1, 0, 1}
    BY <1>1, <1>2, <2>1
  <2>3. xx = 0
    BY <1>1, <1>2, PositionOrder
  <2> QED
    BY <1>1, <1>2, <2>2, <2>3, PositionOrder
<1>4. /\ (xy >= 0 /\ yz > 0) \/ (xy > 0 /\ yz >= 0) => xz > 0
      /\ xy >= 0 /\ yz >= 0 => xz >= 0
  <2>1. /\ PosNotAbove(y.pos, x.pos) /\ PosNotAbove(z.pos, y.pos) => PosNotAbove(z.pos, x.pos)
        /\ PosNotAbove(x.pos, z.pos) /\ PosNotAbove(z.pos, y.pos) => PosNotAbove(x.pos, y.pos)
        /\ PosNotAbove(y.pos, x.pos) /\ PosNotAbove(x.pos, z.pos) => PosNotAbove(y.pos, z.pos)
    BY <1>1, PositionOrder
  <2> QED
    BY <1>3, <2>1
<1>5. /\ ComparePoolerPosition(x, y) = IF xy # 0 THEN xy
                                       ELSE IF x.lsn < y.lsn THEN -1
                                       ELSE IF x.lsn > y.lsn THEN 1 ELSE 0
      /\ ComparePoolerPosition(y, z) = IF yz # 0 THEN yz
                                       ELSE IF y.lsn < z.lsn THEN -1
                                       ELSE IF y.lsn > z.lsn THEN 1 ELSE 0
      /\ ComparePoolerPosition(x, z) = IF xz # 0 THEN xz
                                       ELSE IF x.lsn < z.lsn THEN -1
                                       ELSE IF x.lsn > z.lsn THEN 1 ELSE 0
      /\ ComparePoolerPosition(x, x) = IF xx # 0 THEN xx
                                       ELSE IF x.lsn < x.lsn THEN -1
                                       ELSE IF x.lsn > x.lsn THEN 1 ELSE 0
  BY <1>2 DEF ComparePoolerPosition
<1> HIDE DEF PosNotAbove
<1>6. Reaches(x, y) <=> xy > 0 \/ (xy = 0 /\ y.lsn <= x.lsn)
  BY <1>1, <1>3, <1>5 DEF Reaches
<1>7. /\ Reaches(y, z) <=> yz > 0 \/ (yz = 0 /\ z.lsn <= y.lsn)
      /\ Reaches(x, z) <=> xz > 0 \/ (xz = 0 /\ z.lsn <= x.lsn)
      /\ Reaches(x, x)
      /\ ComparePoolerPosition(x, y) < 0 <=> ~Reaches(x, y)
  BY <1>1, <1>3, <1>5 DEF Reaches
<1>8. Reaches(x, y) /\ Reaches(y, z) => Reaches(x, z)
  BY <1>1, <1>3, <1>4, <1>6, <1>7
<1>9. Reaches(x, y) => PosNotAbove(y.pos, x.pos)
  BY <1>3, <1>6
<1> QED
  BY <1>3, <1>6, <1>7, <1>8, <1>9

-----------------------------------------------------------------------------
(* Elections of a shard whose cohort is not changed.                       *)

\* A round with its revocation's term, the rule it replaces, and the leader it
\* proposes.
Started(r) == rounds[r].phase # "idle"
TermOf(r) == rounds[r].rev.term
Outgoing(r) == rounds[r].rev.outgoing
Leader(r) == rounds[r].transition.proposal.leader

\* Rounds start one after the other.
RoundsInOrder == \A q, r \in Rounds : ~Started(r) /\ r < q => ~Started(q)

\* A round revokes a rule no older than the first one, and asks for a higher
\* term; the terms grow by at most one with every round.
RoundBounded(r) ==
    Started(r) => /\ FirstTerm < TermOf(r) /\ TermOf(r) <= FirstTerm + r
                  /\ Outgoing(r).term < TermOf(r)
                  /\ NotAbove(InitialRule.num, Outgoing(r))

\* A pooler that has accepted a round keeps to it: it has not gone back behind
\* its revocation, and it is not the primary of an earlier term.
AcceptancesStand(r) ==
    \A s \in rounds[r].accepted : /\ TermOf(r) <= rev[s].term
                                  /\ NotAbove(Outgoing(r), rev[s].outgoing)
                                  /\ prim[s] = 0 \/ TermOf(r) <= prim[s]

\* Of two rounds a pooler has accepted, the later one revokes no older rule.
AcceptancesOrdered ==
    \A q, r \in Rounds : \A s \in rounds[q].accepted \cap rounds[r].accepted :
        TermOf(q) < TermOf(r) => NotAbove(Outgoing(q), Outgoing(r))

\* A proposal replaces the rule that was revoked; the poolers that have not
\* accepted it cannot commit without it.
ProposalBuilt(r) ==
    Proposed(r) =>
        /\ rounds[r].transition.decision.num = Outgoing(r)
        /\ KnownRule(rounds[r].transition.decision)
        /\ Leader(r) \in rounds[r].accepted
        /\ CheckUnrecruitedCannotCommit(InitialRule.policy, InitialRule.cohort,
                                        InitialRule.cohort \cap rounds[r].accepted)

\* A round has no position to promote to before it proposes.
NoProposalYet(r) == Proposed(r) \/ rounds[r].transition = NoPosition

\* What holds of one round, and of them all.
ElectionOf(r) ==
    RoundBounded(r) /\ AcceptancesStand(r) /\ ProposalBuilt(r) /\ NoProposalYet(r)

ElectionInv == RoundsInOrder /\ AcceptancesOrdered /\ \A r \in Rounds : ElectionOf(r)

\* The parts of a round are of their types.
LEMMA RoundTypes ==
    ASSUME TypeOK, NEW r \in Rounds
    PROVE  /\ rounds[r] \in RoundType
           /\ rounds[r].rev \in RevocationType
           /\ TermOf(r) \in Nat /\ Outgoing(r) \in RuleNumber /\ Outgoing(r).term \in Nat
           /\ rounds[r].transition \in PositionType
           /\ rounds[r].accepted \in SUBSET Poolers
           /\ rounds[r].recruits \in SUBSET RecruitType
           /\ r \in Nat \ {0}
<1>1. rounds[r] \in RoundType
  BY DEF TypeOK
<1>2. /\ rounds[r].rev \in RevocationType
      /\ rounds[r].transition \in PositionType
      /\ rounds[r].accepted \in SUBSET Poolers
      /\ rounds[r].recruits \in SUBSET RecruitType
  BY <1>1, Zenon DEF RoundType
<1>3. TermOf(r) \in Nat /\ Outgoing(r) \in RuleNumber /\ Outgoing(r).term \in Nat
  BY <1>2 DEF TermOf, Outgoing, RevocationType, RuleNumber
<1> QED
  BY <1>1, <1>2, <1>3, ConstantsAssumption DEF Rounds

\* The first term is a positive number.
LEMMA FirstTermType ==
    /\ InitialRule \in RuleType
    /\ InitialRule.num \in RuleNumber
    /\ FirstTerm \in Nat \ {0}
    /\ InitialRule.num.term = FirstTerm
BY ConstantsAssumption, RuleParts DEF FirstTerm

\* A rule that is known is the first one or of a later term.
LEMMA KnownNumbers ==
    ASSUME TypeOK, RoundsKnown, NEW rule, KnownRule(rule)
    PROVE  /\ rule.num \in RuleNumber
           /\ rule.num.term >= FirstTerm
           /\ NotAbove(InitialRule.num, rule.num)
           /\ ~RuleNumberIsUnset(rule.num)
<1>1. /\ rule \in RuleType /\ rule.num \in RuleNumber /\ rule.num.term \in Nat
      /\ rule.num.term >= FirstTerm
  BY KnownRules, RuleParts, FirstTermType
<1>2. CASE rule = InitialRule
  BY <1>1, <1>2, FirstTermType, NumberOrder DEF RuleNumberIsUnset
<1>3. CASE rule # InitialRule
  <2>1. PICK r \in Rounds : Proposed(r) /\ rule = rounds[r].transition.proposal
    BY <1>3 DEF KnownRule
  <2>2. rule.num.term > InitialRule.num.term
    BY <2>1 DEF RoundsKnown, ProposalWon
  <2> QED
    BY <1>1, <2>2, FirstTermType, NumberOrder DEF RuleNumberIsUnset
<1> QED
  BY <1>2, <1>3

\* Two majorities of the cohort have a pooler in common.
LEMMA MajoritiesShare ==
    ASSUME NEW S \in SUBSET Poolers, NEW T \in SUBSET Poolers,
           MajorityOf(InitialRule.cohort, S), MajorityOf(InitialRule.cohort, T)
    PROVE  S \cap T # {}
<1>1. PICK cohort \in SUBSET Poolers : cohort = InitialRule.cohort
  BY ConstantsAssumption, RuleParts
<1>2. PICK A, B \in SUBSET Poolers : A = cohort \cap S /\ B = cohort \cap T
  OBVIOUS
<1>3. IsFiniteSet(cohort) /\ IsFiniteSet(A) /\ IsFiniteSet(B)
  BY PoolersAssumption, FS_Subset
<1>4. /\ Cardinality(A \cup B) = Cardinality(A) + Cardinality(B) - Cardinality(A \cap B)
      /\ IsFiniteSet(A \cup B)
  BY <1>3, FS_Union
<1>5. Cardinality(A \cup B) <= Cardinality(cohort)
  BY <1>2, <1>3, FS_Subset
<1>6. /\ Cardinality(A) \in Nat /\ Cardinality(B) \in Nat /\ Cardinality(cohort) \in Nat
      /\ Cardinality(A \cup B) \in Nat /\ Cardinality(A \cap B) \in Nat
  BY <1>3, <1>4, FS_Subset, FS_Intersection, FS_CardinalityType
<1>7. 2 * Cardinality(A) > Cardinality(cohort) /\ 2 * Cardinality(B) > Cardinality(cohort)
  BY <1>1, <1>2 DEF MajorityOf
<1>8. Cardinality(A \cap B) # 0
  BY <1>4, <1>5, <1>6, <1>7
<1>9. A \cap B # {}
  BY <1>8, FS_EmptySet
<1> QED
  BY <1>2, <1>9

\* Two rounds that have proposed at one term are one round, and of two that have
\* proposed the later one replaces no older rule: a majority accepted each.
LEMMA ProposalsOrdered ==
    ASSUME TypeOK, AgreementInv, OneWinner, AcceptancesOrdered,
           NEW q \in Rounds, NEW r \in Rounds, Proposed(q), Proposed(r)
    PROVE  /\ TermOf(q) = TermOf(r) => q = r
           /\ TermOf(q) < TermOf(r) => NotAbove(Outgoing(q), Outgoing(r))
<1>1. MajorityOf(InitialRule.cohort, rounds[q].accepted) /\ MajorityOf(InitialRule.cohort, rounds[r].accepted)
  BY DEF AgreementInv, RoundsKnown, ProposalWon
<1>2. PICK s : s \in rounds[q].accepted \cap rounds[r].accepted
  BY <1>1, RoundTypes, MajoritiesShare
<1>3. TermOf(q) = TermOf(r) => q = r
  BY <1>2 DEF OneWinner, Promises!OneWinner, TermOf
<1>4. TermOf(q) < TermOf(r) => NotAbove(Outgoing(q), Outgoing(r))
  BY <1>2 DEF AcceptancesOrdered
<1> QED
  BY <1>3, <1>4

-----------------------------------------------------------------------------
(* What a proposal is built from.                                          *)

\* How far a recruit answered that it is.
MarkOf(c) == [pos |-> c.pos, lsn |-> c.lsn]

\* The recruits a proposal was built from were sufficient; its leader reports the
\* highest position and, of those who do, the highest LSN; the proposal replaces
\* the rule that position leads to, which is the one the revocation names.
BuiltFrom(transition, authored, recruits, best) ==
    /\ PossiblyUndecidedRule(best.pos).num = authored.outgoing
    /\ transition.decision = PossiblyUndecidedRule(best.pos)
    /\ transition.proposal.leader = best.id
    /\ \A c \in recruits : Reaches(MarkOf(best), MarkOf(c))
    /\ CheckSufficientRecruitment(InitialRule.policy, InitialRule.cohort,
                                  Ids(recruits) \cap InitialRule.cohort)

\* Every transition that BuildSafeProposal may return is built from one of the
\* answers.
LEMMA ProposalSource ==
    ASSUME TypeOK, RoundsKnown, NEW authored \in RevocationType,
           NEW recruits \in SUBSET RecruitType, \A c \in recruits : KnownPosition(c.pos),
           NEW transition \in BuildSafeProposal(authored, recruits)
    PROVE  \E best \in recruits : BuiltFrom(transition, authored, recruits, best)
<1>1. FilterByValidPosition(recruits) = recruits
  <2>1. \A c \in recruits : ~RuleNumberIsUnset(c.pos.decision.num)
    BY KnownNumbers DEF KnownPosition
  <2> QED
    BY <2>1 DEF FilterByValidPosition
<1>2. PICK out \in MostAdvanced({c.pos : c \in recruits}) :
        /\ DiscoverOutgoingRule(authored, recruits, out)
        /\ RevokeByRecruitment(recruits, out.decision)
        /\ \E leader \in FailoverCandidates(recruits, out) :
              transition = BuildFailoverProposal(authored, PossiblyUndecidedRule(out), leader)
  BY <1>1 DEF BuildSafeProposal
<1>3. PICK leader \in FailoverCandidates(recruits, out) :
        transition = BuildFailoverProposal(authored, PossiblyUndecidedRule(out), leader)
  BY <1>2
<1>4. PICK best \in recruits : /\ best \in EligibleLeaders(recruits, out)
                               /\ best.id = leader
  BY <1>3 DEF FailoverCandidates, Ids, EligibleLeaders, RecruitsRecordingRule
<1>5. \A c \in recruits : /\ c.pos \in PositionType /\ c.lsn \in Nat
                          /\ MarkOf(c) \in MarkType
                          /\ MarkOf(c).pos = c.pos /\ MarkOf(c).lsn = c.lsn
  BY DEF RecruitType, MarkOf, MarkType, FloorType
<1>6. out \in PositionType /\ KnownPosition(out)
  BY <1>2, <1>5 DEF MostAdvanced
<1>7. best.pos = out /\ CompareRulePosition(best.pos, out) = 0
  BY <1>2, <1>4 DEF EligibleLeaders, RecruitsRecordingRule, DiscoverOutgoingRule
<1>8. PossiblyUndecidedRule(out).num = authored.outgoing
  BY <1>2, <1>6, PositionNumbers, RuleNumbersOrdered DEF DiscoverOutgoingRule, RevocationType
<1>9. transition.decision = PossiblyUndecidedRule(out) /\ transition.proposal.leader = best.id
  <2>1. PICK rule \in RuleType : rule = PossiblyUndecidedRule(out)
    BY <1>6, PositionParts
  <2>2. [rule EXCEPT !.num = [term |-> authored.term, subterm |-> 0], !.leader = leader].leader = leader
    BY <2>1 DEF RuleType
  <2> QED
    BY <1>3, <1>4, <2>1, <2>2 DEF BuildFailoverProposal
<1>10. ASSUME NEW c \in recruits PROVE Reaches(MarkOf(best), MarkOf(c))
  <2>1. CompareRulePosition(c.pos, out) <= 0
    BY <1>2 DEF MostAdvanced
  <2>2. PosNotAbove(c.pos, out)
    BY <2>1 DEF PosNotAbove
  <2>3. CASE PosNotAbove(out, c.pos)
    <3>1. CompareRulePosition(c.pos, out) = 0
      BY <1>5, <1>6, <2>2, <2>3, PositionOrder
    <3>2. c.lsn <= best.lsn
      BY <1>4, <3>1 DEF EligibleLeaders, RecruitsRecordingRule
    <3> QED
      BY <1>5, <1>7, <2>2, <3>2, MarkOrder
  <2>4. CASE ~PosNotAbove(out, c.pos)
    BY <1>5, <1>7, <2>4, MarkOrder
  <2> QED
    BY <2>3, <2>4
<1>11. CheckSufficientRecruitment(InitialRule.policy, InitialRule.cohort,
                                  Ids(recruits) \cap InitialRule.cohort)
  <2>1. KnownRule(out.decision)
    BY <1>6 DEF KnownPosition
  <2>2. out.decision.cohort = InitialRule.cohort /\ out.decision.policy = InitialRule.policy
    BY <2>1, KnownRules
  <2> QED
    BY <1>2, <2>2 DEF RevokeByRecruitment
<1> QED
  BY <1>7, <1>8, <1>9, <1>10, <1>11 DEF BuiltFrom

-----------------------------------------------------------------------------
(* What the release of commits does, whatever step it goes with.           *)

\* A WAL has a first record, and each of its positions is well typed.
WalShape(p) ==
    /\ wal[p] \in Seq(RecordType)
    /\ Lsn(p) \in Nat \ {0}
    /\ VisibleLsn(p) \in 1..Lsn(p)
    /\ \A i \in 1..Lsn(p) : wal[p][i] \in RecordType /\ wal[p][i].pos \in PositionType
    /\ LastPos(p) \in PositionType
    /\ Visible(p) \in PositionType

WalShapes == \A p \in Poolers : WalShape(p)

\* WalTypes, also after a step.
LEMMA WalTypesNext ==
    /\ TypeOK => WalShapes
    /\ TypeOK' => WalShapes'
<1>1. TypeOK => WalShapes
  BY WalTypes DEF WalShapes, WalShape
<1> QED
  BY <1>1, PTL

\* Nothing is left to release.
ReleasedInv ==
    \A p \in Poolers : prim[p] # 0 =>
        /\ prim[p] \in Terms
        /\ \A n \in FlushedByQuorum(p) : n <= acked[p]
        /\ \A n \in Committed(p) : n <= durable[prim[p]]

\* A primary that stays one releases more only up to a commit that enough of its
\* standbys have flushed; a new one starts from its timeline switch.
AckedEffect(p) ==
    prim'[p] # 0 =>
        \/ prim'[p] # prim[p] /\ acked'[p] = Lsn(p)'
        \/ /\ prim'[p] = prim[p]
           /\ acked[p] <= acked'[p]
           /\ \A n \in FlushedByQuorum(p)' : n <= acked'[p]
           /\ acked'[p] = acked[p] \/ acked'[p] \in FlushedByQuorum(p)'

\* What is durable in a term is what its primaries have committed.
DurableEffect(t) ==
    /\ durable[t] <= durable'[t]
    /\ \A p \in Poolers : prim'[p] = t => \A n \in Committed(p)' : n <= durable'[t]
    /\ \/ durable'[t] = durable[t]
       \/ \E p \in Poolers : prim'[p] = t /\ durable'[t] \in Committed(p)'

\* Both, for all poolers and terms.
ReleaseEffect == /\ \A p \in Poolers : AckedEffect(p)
                 /\ \A t \in Terms : DurableEffect(t)

\* ReleaseCommits raises what a primary has released at most to what a quorum has
\* flushed, and what is durable in a term only to a commit of its primary.
LEMMA ReleaseEffects ==
    ASSUME TypeOK, TypeOK', ReleaseCommits
    PROVE  ReleaseEffect
<1>1. ASSUME NEW p \in Poolers
      PROVE  /\ Lsn(p)' \in Nat /\ acked[p] \in Nat /\ acked'[p] \in Nat
             /\ acked'[p] <= Lsn(p)'
             /\ FlushedByQuorum(p)' \in SUBSET (1..Lsn(p)')
             /\ Committed(p)' \in SUBSET (1..Lsn(p)')
  <2>1. Lsn(p)' \in Nat \ {0} /\ VisibleLsn(p)' \in 1..Lsn(p)'
    BY WalTypesNext DEF WalShapes, WalShape
  <2>2. FlushedByQuorum(p)' \in SUBSET (1..Lsn(p)')
    BY DEF FlushedByQuorum
  <2>3. Committed(p)' \in SUBSET (1..VisibleLsn(p)')
    BY DEF Committed
  <2>4. 1..VisibleLsn(p)' \in SUBSET (1..Lsn(p)')
    BY <2>1
  <2>5. acked[p] \in Nat /\ acked'[p] \in Nat /\ acked'[p] <= Lsn(p)'
    BY DEF TypeOK
  <2> QED
    BY <2>1, <2>2, <2>3, <2>4, <2>5
<1> DEFINE flushed(p) == {acked[p]} \cup FlushedByQuorum(p)'
           released(p) == CASE prim'[p] = 0       -> 0
                            [] prim'[p] # prim[p] -> Len(wal'[p])
                            [] OTHER              -> Max(flushed(p))
<1>2. acked' = [p \in Poolers |-> released(p)]
  BY DEF ReleaseCommits
<1>3. ASSUME NEW p \in Poolers PROVE AckedEffect(p)
  <2>1. acked'[p] = released(p)
    BY <1>2
  <2>2. CASE prim'[p] = 0
    BY <2>2 DEF AckedEffect
  <2>3. CASE prim'[p] # 0 /\ prim'[p] # prim[p]
    BY <2>1, <2>3 DEF AckedEffect, Lsn
  <2>4. CASE prim'[p] # 0 /\ prim'[p] = prim[p]
    <3>1. acked'[p] = Max(flushed(p))
      BY <2>1, <2>4
    <3>2. PICK b \in Nat : b >= acked[p] /\ b >= Lsn(p)'
      <4>1. acked[p] + Lsn(p)' \in Nat
        BY <1>1
      <4> QED
        BY <1>1, <4>1
    <3>3. PICK S : S = flushed(p)
      OBVIOUS
    <3>4. S \in SUBSET Nat /\ S # {} /\ \A x \in S : x <= b
      BY <1>1, <3>2, <3>3
    <3>5. Max(S) \in S /\ \A x \in S : x <= Max(S)
      BY <3>2, <3>4, MaxOfBounded
    <3>6. acked'[p] \in flushed(p) /\ \A x \in flushed(p) : x <= acked'[p]
      BY <3>1, <3>3, <3>5
    <3> QED
      BY <2>4, <3>6 DEF AckedEffect
  <2> QED
    BY <2>2, <2>3, <2>4
<1> DEFINE committed(t) == {durable[t]} \cup UNION {Committed(p)' : p \in {q \in Poolers : prim'[q] = t}}
<1>4. durable' = [t \in Terms |-> Max(committed(t))]
  BY DEF ReleaseCommits
<1>5. PICK b \in Nat : \A p \in Poolers : Lsn(p)' <= b
  <2> DEFINE lens == {Lsn(p)' : p \in Poolers}
  <2>1. lens \in SUBSET Nat /\ IsFiniteSet(lens)
    <3> DEFINE f == [p \in Poolers |-> Lsn(p)']
    <3>1. f \in Surjection(Poolers, lens)
      BY DEF Surjection
    <3> HIDE DEF f
    <3>2. IsFiniteSet(lens)
      BY <3>1, PoolersAssumption, FS_Surjection
    <3> QED
      BY <1>1, <3>2
  <2>2. PICK b \in Nat : \A x \in lens : x <= b
    <3> HIDE DEF lens
    <3> QED
      BY <2>1, FiniteIsBounded
  <2> QED
    BY <2>2
<1>6. ASSUME NEW t \in Terms PROVE DurableEffect(t)
  <2>1. durable[t] \in Nat
    BY DEF TypeOK
  <2>2. PICK c \in Nat : c >= b /\ c >= durable[t]
    <3>1. b + durable[t] \in Nat /\ b + durable[t] >= b /\ b + durable[t] >= durable[t]
      BY <2>1
    <3> QED
      BY <3>1
  <2>3. PICK S : S = committed(t)
    OBVIOUS
  <2>4. ASSUME NEW x \in S
        PROVE  x \in Nat /\ x <= c
    <3>1. CASE x = durable[t]
      BY <2>1, <2>2, <3>1
    <3>2. CASE x # durable[t]
      <4>1. PICK p \in Poolers : x \in Committed(p)'
        BY <2>3, <3>2
      <4>2. x \in 1..Lsn(p)' /\ Lsn(p)' \in Nat /\ Lsn(p)' <= b /\ b <= c
        BY <1>1, <1>5, <2>2, <4>1
      <4> QED
        BY <4>2
    <3> QED
      BY <3>1, <3>2
  <2>5. S \in SUBSET Nat /\ S # {} /\ durable[t] \in S
    BY <2>3, <2>4
  <2>6. Max(S) \in S /\ \A x \in S : x <= Max(S)
    BY <2>2, <2>4, <2>5, MaxOfBounded
  <2>7. durable'[t] = Max(S)
    BY <1>4, <2>3
  <2>8. durable[t] <= durable'[t]
    BY <2>5, <2>6, <2>7
  <2>9. \A p \in Poolers : prim'[p] = t => \A n \in Committed(p)' : n <= durable'[t]
    BY <2>3, <2>6, <2>7
  <2>10. \/ durable'[t] = durable[t]
         \/ \E p \in Poolers : prim'[p] = t /\ durable'[t] \in Committed(p)'
    BY <2>3, <2>6, <2>7
  <2> QED
    BY <2>8, <2>9, <2>10 DEF DurableEffect
<1> QED
  BY <1>3, <1>6 DEF ReleaseEffect

\* The same for a stuttering step.
LEMMA StutterEffects ==
    ASSUME TypeOK, ReleasedInv, UNCHANGED vars
    PROVE  ReleaseEffect
<1>1. ASSUME NEW p \in Poolers PROVE AckedEffect(p)
  <2>1. prim'[p] = prim[p] /\ acked'[p] = acked[p] /\ acked[p] \in Nat
    BY DEF vars, TypeOK
  <2>2. FlushedByQuorum(p)' = FlushedByQuorum(p)
    BY DEF vars, FlushedByQuorum, Streaming, Lsn
  <2> QED
    BY <2>1, <2>2 DEF ReleasedInv, AckedEffect
<1>2. ASSUME NEW t \in Terms PROVE DurableEffect(t)
  <2>1. durable'[t] = durable[t] /\ durable[t] \in Nat /\ prim' = prim
    BY DEF vars, TypeOK
  <2>2. \A p \in Poolers : Committed(p)' = Committed(p)
    BY DEF vars, Committed, VisibleLsn, Lsn
  <2>3. t \in Nat
    BY FirstTermType, ConstantsAssumption DEF Terms
  <2>4. ASSUME NEW p \in Poolers, prim'[p] = t, NEW n \in Committed(p)' PROVE n <= durable'[t]
    <3>1. n \in Committed(p) /\ prim[p] = t
      BY <2>1, <2>2, <2>4
    <3>2. prim[p] = 0 => Committed(p) = {}
      <4>1. ASSUME prim[p] = 0 PROVE t # t
        BY <3>1, <4>1, FirstTermType, ConstantsAssumption DEF Terms
      <4> QED
        BY <4>1
    <3> QED
      BY <2>1, <3>1, <3>2 DEF ReleasedInv
  <2> QED
    BY <2>1, <2>4 DEF DurableEffect
<1> QED
  BY <1>1, <1>2 DEF ReleaseEffect

-----------------------------------------------------------------------------
(* Positions a shard whose cohort is not changed can be in.                *)

\* The positions there are: the first one, and for each proposal the position it
\* is written at, the one it replaces and, once it is durable, its decision.
Legit(pos) ==
    \/ pos = Decided(InitialRule)
    \/ \E r \in Rounds :
         /\ Proposed(r)
         /\ \/ pos = rounds[r].transition
            \/ pos = Decided(rounds[r].transition.decision)
            \/ pos = Decided(rounds[r].transition.proposal) /\ durable[TermOf(r)] # 0

\* Pooler p may be pointed at q: some position is led by q and p's promise does
\* not revoke it.
Pointed(p, q) ==
    \E pos : /\ Legit(pos)
             /\ PossiblyUndecidedRule(pos).leader = q
             /\ ~IsRuleRevoked(pos, rev[p])

\* What a pooler has been told of.
Told(entry) ==
    \/ entry = NoPrimary
    \/ Legit(entry.pos) /\ entry.primary = PossiblyUndecidedRule(entry.pos).leader

\* Every pooler has been told, and holds, legitimate positions only.
ToldInv == \A p \in Poolers : Told(rp[p])
WalLegit == \A p \in Poolers : \A i \in 1..Lsn(p) : Legit(wal[p][i].pos)

\* What is assumed of every state from here on: the invariants proved before.
Ground == TypeOK /\ PromiseInv /\ OneWinner /\ AgreementInv

\* A round that has proposed: its position, and the rules it is made of.
LEMMA ProposedParts ==
    ASSUME Ground, ElectionInv, NEW r \in Rounds, Proposed(r)
    PROVE  /\ rounds[r].transition \in PositionType
           /\ rounds[r].transition.decision.num = Outgoing(r)
           /\ rounds[r].transition.proposal.num = [term |-> TermOf(r), subterm |-> 0]
           /\ KnownRule(rounds[r].transition.decision)
           /\ KnownRule(rounds[r].transition.proposal)
           /\ Leader(r) \in Poolers
           /\ Leader(r) \in rounds[r].accepted
           /\ TermOf(r) \in Nat /\ Outgoing(r) \in RuleNumber /\ Outgoing(r).term \in Nat
           /\ FirstTerm < TermOf(r)
           /\ Outgoing(r).term < TermOf(r)
           /\ NotAbove(InitialRule.num, Outgoing(r))
           /\ TermOf(r) \in Terms
<1>1. /\ rounds[r].transition \in PositionType
      /\ TermOf(r) \in Nat /\ Outgoing(r) \in RuleNumber /\ Outgoing(r).term \in Nat
      /\ r \in Nat
  BY RoundTypes DEF Ground
<1>2. ElectionOf(r) /\ ProposalWon(r) /\ Started(r)
  BY DEF ElectionInv, Ground, AgreementInv, RoundsKnown, Proposed, Started
<1>3. KnownRule(rounds[r].transition.proposal)
  BY DEF KnownRule
<1>4. /\ FirstTerm < TermOf(r) /\ TermOf(r) <= FirstTerm + r
      /\ Outgoing(r).term < TermOf(r)
      /\ NotAbove(InitialRule.num, Outgoing(r))
  BY <1>2 DEF ElectionOf, RoundBounded
<1>5. TermOf(r) \in Terms
  BY <1>1, <1>4, FirstTermType, ConstantsAssumption DEF Terms, Rounds
<1> QED
  BY <1>1, <1>2, <1>3, <1>4, <1>5
     DEF ElectionOf, ProposalBuilt, ProposalWon, Leader, TermOf

\* A decided position of a known rule.
LEMMA DecidedParts ==
    ASSUME TypeOK, RoundsKnown, NEW rule, KnownRule(rule)
    PROVE  /\ Decided(rule) \in PositionType
           /\ Decided(rule).decision = rule /\ Decided(rule).proposal = NoRule
           /\ IsRuleDecided(Decided(rule))
           /\ PossiblyUndecidedRule(Decided(rule)) = rule
           /\ KnownPosition(Decided(rule))
           /\ NoRule.num = NoNumber
<1>1. rule \in RuleType
  BY KnownRules
<1>2. Decided(rule).decision = rule /\ Decided(rule).proposal = NoRule /\ NoRule.num = NoNumber
  BY DEF Decided, NoRule
<1>3. IsRuleDecided(Decided(rule))
  BY <1>2 DEF IsRuleDecided, NoNumber, RuleNumberIsUnset
<1> QED
  BY <1>1, <1>2, <1>3, PositionParts DEF PossiblyUndecidedRule, KnownPosition

\* A position there is: its rules are known, and a proposal is of a later term
\* than the decision it replaces.
ProperPosition(pos) ==
    /\ pos \in PositionType
    /\ KnownPosition(pos)
    /\ KnownRule(PossiblyUndecidedRule(pos))
    /\ \/ IsRuleDecided(pos) /\ pos = Decided(pos.decision)
       \/ ~IsRuleDecided(pos) /\ pos.decision.num.term < pos.proposal.num.term

\* A position of the list is one of known rules, and undecided only with a
\* proposal of a later term than its decision.
LEMMA LegitParts ==
    ASSUME Ground, ElectionInv, NEW pos, Legit(pos)
    PROVE  ProperPosition(pos)
<1> USE DEF Ground
<1>1. RoundsKnown
  BY DEF AgreementInv
<1>2. ASSUME NEW rule, KnownRule(rule), pos = Decided(rule) PROVE ProperPosition(pos)
  BY <1>1, <1>2, DecidedParts DEF ProperPosition
<1>3. CASE pos = Decided(InitialRule)
  BY <1>2, <1>3 DEF KnownRule
<1>4. ASSUME NEW r \in Rounds, Proposed(r),
             \/ pos = Decided(rounds[r].transition.decision)
             \/ pos = Decided(rounds[r].transition.proposal)
      PROVE  ProperPosition(pos)
  BY <1>2, <1>4, ProposedParts
<1>5. ASSUME NEW r \in Rounds, Proposed(r), pos = rounds[r].transition
      PROVE  ProperPosition(pos)
  <2>1. /\ pos \in PositionType
        /\ KnownRule(pos.decision) /\ KnownRule(pos.proposal)
        /\ pos.decision.num = Outgoing(r)
        /\ pos.proposal.num = [term |-> TermOf(r), subterm |-> 0]
        /\ TermOf(r) \in Nat /\ FirstTerm < TermOf(r) /\ Outgoing(r).term < TermOf(r)
    BY <1>5, ProposedParts
  <2>2. pos.decision.num.term < pos.proposal.num.term /\ pos.proposal.num.term # 0
    BY <2>1, FirstTermType
  <2>3. ~IsRuleDecided(pos)
    BY <2>2 DEF IsRuleDecided, RuleNumberIsUnset
  <2> QED
    BY <2>1, <2>2, <2>3 DEF ProperPosition, KnownPosition, PossiblyUndecidedRule
<1> QED
  BY <1>3, <1>4, <1>5 DEF Legit

\* Positions with the same rule numbers are the same.
LEMMA LegitByNumbers ==
    ASSUME Ground, ElectionInv, NEW a, NEW b, ProperPosition(a), ProperPosition(b),
           a.decision.num = b.decision.num, a.proposal.num = b.proposal.num
    PROVE  a = b
<1>1. a.decision = b.decision
  BY RuleByNumber DEF ProperPosition, KnownPosition, Ground
<1>2. a = [decision |-> a.decision, proposal |-> a.proposal]
      /\ b = [decision |-> b.decision, proposal |-> b.proposal]
  BY DEF ProperPosition, PositionType
<1>3. IsRuleDecided(a) <=> IsRuleDecided(b)
  BY DEF IsRuleDecided
<1>4. CASE IsRuleDecided(a)
  BY <1>1, <1>3, <1>4 DEF ProperPosition
<1>5. CASE ~IsRuleDecided(a)
  <2>1. KnownRule(a.proposal) /\ KnownRule(b.proposal)
    BY <1>3, <1>5 DEF ProperPosition, PossiblyUndecidedRule
  <2>2. a.proposal = b.proposal
    BY <2>1, RuleByNumber DEF Ground
  <2> QED
    BY <1>1, <1>2, <2>2
<1> QED
  BY <1>4, <1>5

-----------------------------------------------------------------------------
(* The steps, by what they touch.                                          *)

\* Pooler q takes no part in the step.
Idle(q) ==
    /\ wal'[q] = wal[q] /\ prim'[q] = prim[q] /\ conn'[q] = conn[q] /\ op'[q] = op[q]
    /\ rev'[q] = rev[q] /\ floor'[q] = floor[q] /\ rp'[q] = rp[q]

OthersIdle(p) == \A q \in Poolers : q # p => Idle(q)

\* A round is started.
StartStep(r) ==
    /\ \A q \in Poolers : Idle(q)
    /\ ~Started(r) /\ \A q \in Rounds : q < r => Started(q)
    /\ \A q \in Rounds : q # r => rounds'[q] = rounds[q]
    /\ rounds'[r].phase = "recruiting"
    /\ rounds'[r].accepted = rounds[r].accepted
    /\ rounds'[r].recruits = rounds[r].recruits
    /\ rounds'[r].transition = rounds[r].transition
    /\ \E heard \in SUBSET Poolers :
         rounds'[r].rev \in NewTermRevocations({Status(p) : p \in heard}, CoordinatorOf[r], r)

\* Pooler p accepts a round, which may complete a proposal.
Answer(p) == [id |-> p, pos |-> LastPos(p), lsn |-> Lsn(p)]

\* What the acceptance does to the round: the answer is counted, and may be the
\* one that completes the proposal.
AnswerStep(r, p) ==
    \/ /\ rounds'[r].phase = rounds[r].phase
       /\ rounds'[r].transition = rounds[r].transition
       /\ \/ rounds'[r].recruits = rounds[r].recruits
          \/ /\ rounds[r].phase = "recruiting"
             /\ rounds'[r].recruits = rounds[r].recruits \cup {Answer(p)}
    \/ /\ rounds[r].phase = "recruiting" /\ rounds'[r].phase = "proposed"
       /\ rounds'[r].recruits = {}
       /\ rounds'[r].transition
            \in BuildSafeProposal(rounds[r].rev, rounds[r].recruits \cup {Answer(p)})

\* Pooler p accepts round r.
JoinStep(r, p) ==
    /\ Started(r) /\ p \notin rounds[r].accepted
    /\ ValidateRevocation(LastPos(p), FloorOutstanding(p, LastPos(p)), rev[p], rounds[r].rev)
    /\ OthersIdle(p)
    /\ wal'[p] = wal[p] /\ prim'[p] = 0 /\ conn'[p] = None
    /\ op[p] = NoOp /\ op'[p] = NoOp
    /\ rev'[p] = rounds[r].rev /\ floor'[p] = floor[p] /\ rp'[p] = rp[p]
    /\ \A q \in Rounds : q # r => rounds'[q] = rounds[q]
    /\ rounds'[r].rev = rounds[r].rev
    /\ rounds'[r].accepted = rounds[r].accepted \cup {p}
    /\ AnswerStep(r, p)

\* The leader of a proposal is promoted, or its round fails.
PromoteStep(r) ==
    LET p == Leader(r)
    IN  /\ rounds[r].phase = "proposed"
        /\ ValidateRevocation(LastPos(p), FloorOutstanding(p, LastPos(p)), rev[p], rounds[r].rev)
        /\ rev[p].term = TermOf(r)
        /\ op[p] = NoOp /\ prim[p] = 0 /\ conn[p] = None
        /\ OthersIdle(p)
        /\ conn'[p] = None /\ rev'[p] = rev[p] /\ floor'[p] = floor[p]
        /\ Told(rp'[p])
        /\ rounds' = [rounds EXCEPT ![r].phase = "promoting"]
        /\ \/ /\ PossiblyUndecidedRule(LastPos(p)).num = Outgoing(r)
              /\ prim'[p] = TermOf(r)
              /\ wal'[p] = Append(wal[p], [by |-> TermOf(r), kind |-> "switch", pos |-> LastPos(p)])
              /\ op'[p] = [phase |-> IF ~IsRuleDecided(LastPos(p)) THEN "confirm" ELSE "propose",
                           round |-> r, rule |-> rounds[r].transition.proposal, await |-> 0]
           \/ wal'[p] = wal[p] /\ prim'[p] = prim[p] /\ op'[p] = op[p]

\* A primary writes: the next record of its operation, or a client's.
WriteOf(p, kind, pos) ==
    \/ /\ op[p].phase = "confirm"
       /\ kind = "probe" /\ pos = LastPos(p)
       /\ op'[p].phase = "finalize" /\ op'[p].rule = op[p].rule
    \/ /\ op[p].phase = "finalize"
       /\ kind = "rule" /\ pos = Decided(LastPos(p).proposal)
       /\ op'[p].phase = "propose" /\ op'[p].rule = op[p].rule
    \/ /\ op[p].phase = "propose"
       /\ kind = "rule" /\ pos = [decision |-> LastPos(p).decision, proposal |-> op[p].rule]
       /\ op'[p].phase = "decide" /\ op'[p].rule = op[p].rule /\ op'[p].await = Lsn(p) + 1
    \/ /\ op[p].phase = "decide" /\ Acknowledged(p)
       /\ kind = "rule" /\ pos = Decided(op[p].rule)
       /\ op'[p].phase = "settle" /\ op'[p].rule = op[p].rule
    \/ /\ kind = "data" /\ pos = LastPos(p) /\ IsActiveLeader(p)
       /\ op'[p] = op[p]

\* A primary appends one record.
WriteStep(p) ==
    /\ prim[p] # 0 /\ prim'[p] = prim[p] /\ conn'[p] = conn[p]
    /\ floor'[p] = floor[p] /\ rp'[p] = rp[p]
    /\ \E kind, pos : /\ wal'[p] = Append(wal[p], [by |-> prim[p], kind |-> kind, pos |-> pos])
                      /\ WriteOf(p, kind, pos)

\* A standby takes the next record of the pooler it streams from.
StreamStep(p) ==
    /\ conn[p] # None
    /\ IsStrictPrefix(wal[p], wal[conn[p]])
    /\ wal'[p] = Append(wal[p], wal[conn[p]][Lsn(p) + 1])
    /\ prim'[p] = prim[p] /\ conn'[p] = conn[p] /\ op'[p] = op[p]
    /\ floor'[p] = floor[p] /\ rp'[p] = rp[p]

\* A diverged pooler is rewound.
RewindStep(p) ==
    /\ floor[p] = NoFloor /\ floor'[p] = [pos |-> Visible(p), lsn |-> Lsn(p)]
    /\ \E n \in 1..Lsn(p) : wal'[p] = SubSeq(wal[p], 1, n)
    /\ prim'[p] = 0
    /\ Pointed(p, conn'[p])
    /\ op[p] = NoOp /\ op'[p] = NoOp
    /\ Told(rp'[p])

\* A pooler's WAL and promise stay as they are.
QuietStep(p) ==
    /\ wal'[p] = wal[p] /\ floor'[p] = floor[p]
    /\ \/ prim'[p] = prim[p] /\ (op'[p] = op[p] \/ op'[p] = NoOp)
       \/ prim'[p] = 0 /\ op'[p] = NoOp
    /\ \/ conn'[p] = conn[p]
       \/ conn'[p] = None
       \/ prim[p] = 0 /\ prim'[p] = 0 /\ Pointed(p, conn'[p])
    /\ Told(rp'[p])

\* A step of one pooler that no coordinator asked for.
LocalStep(p) ==
    /\ rounds' = rounds
    /\ OthersIdle(p)
    /\ rev'[p] = rev[p]
    /\ WriteStep(p) \/ StreamStep(p) \/ RewindStep(p) \/ QuietStep(p)

-----------------------------------------------------------------------------
(* Every step is one of them.                                              *)

\* The operation in progress is that of a round, and has got as far as its WAL.
OpInv(p) ==
    op[p].phase # "none" =>
        \E r \in Rounds :
            /\ rounds[r].phase = "promoting" /\ op[p].rule = rounds[r].transition.proposal
            /\ prim[p] = TermOf(r) /\ p = Leader(r)
            /\ op[p].phase \in {"confirm", "finalize"} =>
                  /\ ~IsRuleDecided(LastPos(p))
                  /\ LastPos(p).proposal = rounds[r].transition.decision
            /\ op[p].phase = "propose" => LastPos(p) = Decided(rounds[r].transition.decision)
            /\ op[p].phase = "decide" =>
                  /\ op[p].await \in 1..Lsn(p)
                  /\ wal[p][op[p].await] =
                       [by |-> prim[p], kind |-> "rule", pos |-> rounds[r].transition]
            /\ op[p].phase = "settle" => durable[TermOf(r)] # 0

\* Of every pooler.
OpInvs == \A p \in Poolers : OpInv(p)

\* An operation makes its pooler a primary.
LEMMA OpPrimary ==
    ASSUME Ground, ElectionInv, NEW p \in Poolers, OpInv(p), op[p].phase # "none"
    PROVE  /\ prim[p] # 0
           /\ KnownRule(op[p].rule) /\ op[p].rule.leader = p
           /\ op[p].phase = "settle" => Legit(Decided(op[p].rule))
<1>1. PICK r \in Rounds : /\ rounds[r].phase = "promoting"
                          /\ op[p].rule = rounds[r].transition.proposal
                          /\ prim[p] = TermOf(r) /\ p = Leader(r)
                          /\ op[p].phase = "settle" => durable[TermOf(r)] # 0
  BY DEF OpInv
<1>2. Proposed(r)
  BY <1>1 DEF Proposed
<1>3. prim[p] # 0 /\ KnownRule(op[p].rule)
  <2>1. /\ KnownRule(rounds[r].transition.proposal)
        /\ TermOf(r) \in Nat /\ FirstTerm < TermOf(r)
    BY <1>2, ProposedParts
  <2> QED
    BY <1>1, <2>1, FirstTermType
<1>4. op[p].phase = "settle" => Legit(Decided(op[p].rule))
  BY <1>1, <1>2 DEF Legit
<1> QED
  BY <1>1, <1>3, <1>4 DEF Leader

\* Folding in what somebody announces leaves what a pooler has been told true.
LEMMA ToldMerge ==
    ASSUME Ground, ElectionInv, NEW a \in PrimaryType, NEW b \in PrimaryType,
           Told(a), Legit(b.pos), b.primary = PossiblyUndecidedRule(b.pos).leader
    PROVE  Told(MergeReplicationPrimary(a, b))
<1>1. PICK cmp : cmp = CompareRulePosition(b.pos, a.pos)
  OBVIOUS
<1>2. /\ cmp < 0 => MergeReplicationPrimary(a, b) = a
      /\ ~(cmp < 0) => /\ MergeReplicationPrimary(a, b).pos = IF cmp > 0 THEN b.pos ELSE a.pos
                       /\ MergeReplicationPrimary(a, b).primary = b.primary
  BY <1>1 DEF MergeReplicationPrimary
<1>3. a.pos \in PositionType /\ b.pos \in PositionType
  BY DEF PrimaryType
<1>4. CASE cmp < 0
  BY <1>2, <1>4
<1>5. CASE cmp > 0
  BY <1>2, <1>5 DEF Told
<1>6. CASE ~(cmp < 0) /\ ~(cmp > 0)
  <2>1. cmp = 0
    <3>1. cmp \in {-1, 0, 1}
      BY <1>1, <1>3, PositionNumbers, RuleNumbersOrdered DEF CompareRulePosition
    <3> QED
      BY <1>6, <3>1
  <2>2. b.pos.decision.num = a.pos.decision.num /\ b.pos.proposal.num = a.pos.proposal.num
    BY <1>1, <1>3, <2>1, PositionOrder
  <2>3. ProperPosition(b.pos)
    BY LegitParts
  <2>4. CASE a = NoPrimary
    <3>1. a.pos.decision.num = NoNumber
      BY <2>4 DEF NoPrimary, NoPosition, NoRule
    <3>2. ~RuleNumberIsUnset(b.pos.decision.num)
      BY <2>3, KnownNumbers DEF ProperPosition, KnownPosition, Ground, AgreementInv
    <3> QED
      BY <2>2, <3>1, <3>2 DEF NoNumber, RuleNumberIsUnset
  <2>5. CASE a # NoPrimary
    <3>1. ProperPosition(a.pos)
      BY <2>5, LegitParts DEF Told
    <3>2. a.pos = b.pos
      BY <2>2, <2>3, <3>1, LegitByNumbers
    <3> QED
      BY <1>2, <1>6, <2>1, <3>2 DEF Told
  <2> QED
    BY <2>4, <2>5
<1> QED
  BY <1>4, <1>5, <1>6

\* What is announced is legitimate.
LEMMA AnnouncedLegit ==
    ASSUME Ground, ElectionInv, WalLegit, NEW m \in Announcements
    PROVE  /\ m \in PrimaryType
           /\ Legit(m.pos) /\ m.primary = PossiblyUndecidedRule(m.pos).leader
<1>1. PICK pos \in Announced :
        m = [pos         |-> pos,
             primary     |-> PossiblyUndecidedRule(pos).leader,
             rewindReady |-> HasPromoted(PossiblyUndecidedRule(pos).num.term)]
  BY DEF Announcements
<1>2. m.pos = pos /\ m.primary = PossiblyUndecidedRule(pos).leader
  BY <1>1
<1>3. Legit(pos)
  <2>1. CASE pos \in {rounds[r].transition : r \in {q \in Rounds : rounds[q].transition # NoPosition}}
    <3>1. PICK r \in Rounds : rounds[r].transition # NoPosition /\ pos = rounds[r].transition
      BY <2>1
    <3>2. Proposed(r)
      BY <3>1 DEF ElectionInv, ElectionOf, NoProposalYet
    <3> QED
      BY <3>1, <3>2 DEF Legit
  <2>2. CASE pos \in UNION {{wal[q][i].pos : i \in 1..VisibleLsn(q)} : q \in Poolers}
    <3>1. PICK q \in Poolers : pos \in {wal[q][i].pos : i \in 1..VisibleLsn(q)}
      BY <2>2
    <3>2. PICK i \in 1..VisibleLsn(q) : pos = wal[q][i].pos
      BY <3>1
    <3>3. i \in 1..Lsn(q)
      <4>1. VisibleLsn(q) \in 1..Lsn(q) /\ Lsn(q) \in Nat
        BY WalTypes DEF Ground
      <4> QED
        BY <4>1
    <3> QED
      BY <3>2, <3>3 DEF WalLegit
  <2> QED
    BY <2>1, <2>2 DEF Announced
<1> QED
  BY <1>2, <1>3, AnnouncementType DEF Ground

\* A pooler that trusts what it has been told is pointed at nobody it must not.
LEMMA ToldPoints ==
    ASSUME NEW p \in Poolers, NEW entry, Told(entry), ConnInfoReconcileAllowed(p, entry)
    PROVE  Pointed(p, entry.primary)
<1>1. entry # NoPrimary
  BY DEF ConnInfoReconcileAllowed, NoPrimary
<1> QED
  BY <1>1 DEF Told, Pointed, ConnInfoReconcileAllowed

\* Starting a round.
LEMMA StartShape ==
    ASSUME Ground, NEW r \in Rounds, NEW heard \in SUBSET Poolers, StartRound(r, heard)
    PROVE  StartStep(r)
<1>1. PICK authored \in NewTermRevocations({Status(p) : p \in heard}, CoordinatorOf[r], r) :
        rounds' = [rounds EXCEPT ![r].phase = "recruiting", ![r].rev = authored]
  BY DEF StartRound
<1>2. /\ rounds[r] \in RoundType /\ rounds \in [Rounds -> RoundType]
      /\ rounds[r].phase = "idle" /\ \A q \in Rounds : q < r => rounds[q].phase # "idle"
      /\ UNCHANGED <<pgVars, op, promiseVars, memVars>>
  BY DEF Ground, TypeOK, StartRound
<1>3. /\ \A q \in Rounds : q # r => rounds'[q] = rounds[q]
      /\ rounds'[r].phase = "recruiting" /\ rounds'[r].rev = authored
      /\ rounds'[r].transition = rounds[r].transition
      /\ rounds'[r].recruits = rounds[r].recruits
      /\ rounds'[r].accepted = rounds[r].accepted
  BY <1>1, <1>2 DEF RoundType
<1>4. \A q \in Poolers : Idle(q)
  BY <1>2 DEF Idle, pgVars, promiseVars, memVars
<1> QED
  BY <1>2, <1>3, <1>4 DEF StartStep, Started

\* What a recruitment that is accepted changes of its round.
LEMMA AnswerShape ==
    ASSUME TypeOK, NEW r \in Rounds, NEW p \in Poolers,
           \/ CollectRecruit(r, Answer(p))
           \/ rounds' = [rounds EXCEPT ![r].accepted = @ \cup {p}]
    PROVE  AnswerStep(r, p)
<1>1. rounds[r] \in RoundType /\ rounds \in [Rounds -> RoundType]
  BY DEF TypeOK
<1>2. PICK status : status = Answer(p)
  OBVIOUS
<1>3. PICK recruits, joined : /\ recruits = rounds[r].recruits \cup {status}
                              /\ joined = [rounds[r] EXCEPT !.accepted = @ \cup {p}]
  OBVIOUS
<1>4. /\ joined \in [phase : {"idle", "recruiting", "proposed", "promoting"},
                     rev : RevocationType, recruits : SUBSET RecruitType,
                     accepted : SUBSET Poolers, transition : PositionType]
      /\ joined.phase = rounds[r].phase
      /\ joined.recruits = rounds[r].recruits
      /\ joined.transition = rounds[r].transition
  BY <1>1, <1>3 DEF RoundType
<1>5. status.id = p
  BY <1>2 DEF Answer
<1>6. \/ rounds' = [rounds EXCEPT ![r] = joined]
      \/ /\ rounds[r].phase = "recruiting"
         /\ rounds' = [rounds EXCEPT ![r] = [joined EXCEPT !.recruits = recruits]]
      \/ /\ rounds[r].phase = "recruiting"
         /\ \E transition \in BuildSafeProposal(rounds[r].rev, recruits) :
              rounds' = [rounds EXCEPT ![r] =
                [joined EXCEPT !.phase = "proposed", !.recruits = {}, !.transition = transition]]
  BY <1>2, <1>3, <1>5 DEF CollectRecruit
<1>7. CASE rounds' = [rounds EXCEPT ![r] = joined]
  BY <1>1, <1>4, <1>7 DEF AnswerStep
<1>8. CASE /\ rounds[r].phase = "recruiting"
           /\ rounds' = [rounds EXCEPT ![r] = [joined EXCEPT !.recruits = recruits]]
  <2>1. rounds'[r] = [joined EXCEPT !.recruits = recruits]
    BY <1>1, <1>8
  <2>2. /\ rounds'[r].phase = rounds[r].phase /\ rounds'[r].transition = rounds[r].transition
        /\ rounds'[r].recruits = recruits
    BY <1>4, <2>1
  <2> QED
    BY <1>2, <1>3, <1>8, <2>2 DEF AnswerStep
<1>9. CASE /\ rounds[r].phase = "recruiting"
           /\ \E transition \in BuildSafeProposal(rounds[r].rev, recruits) :
                rounds' = [rounds EXCEPT ![r] =
                  [joined EXCEPT !.phase = "proposed", !.recruits = {}, !.transition = transition]]
  <2>1. PICK transition \in BuildSafeProposal(rounds[r].rev, recruits) :
                rounds' = [rounds EXCEPT ![r] =
                  [joined EXCEPT !.phase = "proposed", !.recruits = {}, !.transition = transition]]
    BY <1>9
  <2>2. rounds'[r] = [joined EXCEPT !.phase = "proposed", !.recruits = {},
                                    !.transition = transition]
    BY <1>1, <2>1
  <2>3. /\ rounds'[r].phase = "proposed" /\ rounds'[r].recruits = {}
        /\ rounds'[r].transition = transition
    BY <1>4, <2>2
  <2> QED
    BY <1>2, <1>3, <1>9, <2>1, <2>3 DEF AnswerStep
<1> QED
  BY <1>6, <1>7, <1>8, <1>9

\* Recruiting a pooler: it joins, or it only stops replicating.
LEMMA RecruitShape ==
    ASSUME Ground, ToldInv, NEW r \in Rounds, NEW p \in Poolers, Recruit(r, p)
    PROVE  JoinStep(r, p) \/ LocalStep(p)
<1>1. /\ rounds[r].phase # "idle" /\ p \notin rounds[r].accepted /\ op[p] = NoOp
      /\ UNCHANGED <<wal, op, floor, rp>>
      /\ \/ /\ ValidateRevocation(LastPos(p), FloorOutstanding(p, LastPos(p)), rev[p], rounds[r].rev)
            /\ StopReplication(p, None)
            /\ rev' = [rev EXCEPT ![p] = rounds[r].rev]
            /\ \/ CollectRecruit(r, Answer(p))
               \/ rounds' = [rounds EXCEPT ![r].accepted = @ \cup {p}]
         \/ /\ StopReplication(p, IF prim[p] # 0 THEN None ELSE conn[p])
            /\ UNCHANGED <<rev, rounds>>
  BY DEF Recruit, Answer
<1>2. \A c : StopReplication(p, c) =>
        /\ prim'[p] = 0 /\ conn'[p] = c
        /\ \A q \in Poolers : q # p => prim'[q] = prim[q] /\ conn'[q] = conn[q]
  BY DEF StopReplication, Ground, TypeOK
<1>3. CASE /\ ValidateRevocation(LastPos(p), FloorOutstanding(p, LastPos(p)), rev[p], rounds[r].rev)
           /\ StopReplication(p, None)
           /\ rev' = [rev EXCEPT ![p] = rounds[r].rev]
           /\ \/ CollectRecruit(r, Answer(p))
              \/ rounds' = [rounds EXCEPT ![r].accepted = @ \cup {p}]
  <2>1. /\ rounds'[r].rev = rounds[r].rev
        /\ rounds'[r].accepted = rounds[r].accepted \cup {p}
        /\ \A q \in Rounds : q # r => rounds'[q] = rounds[q]
    BY <1>1, <1>3, RecruitJoins DEF Answer, Ground
  <2>2. AnswerStep(r, p)
    BY <1>3, AnswerShape DEF Ground
  <2>3. rev'[p] = rounds[r].rev /\ \A q \in Poolers : q # p => rev'[q] = rev[q]
    BY <1>3 DEF Ground, TypeOK
  <2>4. OthersIdle(p) /\ wal'[p] = wal[p] /\ op'[p] = NoOp /\ floor'[p] = floor[p] /\ rp'[p] = rp[p]
    BY <1>1, <1>2, <1>3, <2>3 DEF OthersIdle, Idle
  <2> QED
    BY <1>1, <1>2, <1>3, <2>1, <2>2, <2>3, <2>4 DEF JoinStep, Started
<1>4. CASE /\ StopReplication(p, IF prim[p] # 0 THEN None ELSE conn[p])
           /\ UNCHANGED <<rev, rounds>>
  <2>1. OthersIdle(p)
    BY <1>1, <1>2, <1>4 DEF OthersIdle, Idle
  <2>2. Told(rp'[p])
    BY <1>1 DEF ToldInv
  <2>3. conn'[p] = conn[p] \/ conn'[p] = None
    BY <1>2, <1>4
  <2>4. QuietStep(p)
    BY <1>1, <1>2, <1>4, <2>2, <2>3 DEF QuietStep
  <2> QED
    BY <1>4, <2>1, <2>4 DEF LocalStep
<1> QED
  BY <1>1, <1>3, <1>4

\* A promotion.
LEMMA PromoteShape ==
    ASSUME Ground, ElectionInv, ToldInv, NEW r \in Rounds, Promote(r)
    PROVE  PromoteStep(r)
<1>1. Proposed(r) /\ rounds[r].phase = "proposed"
  BY PromoteFrame DEF Proposed
<1>2. PICK p \in Poolers : p = Leader(r)
  BY <1>1, ProposedParts
<1>3. /\ rounds[r].transition \in PositionType /\ KnownRule(rounds[r].transition.proposal)
      /\ rounds[r].transition.proposal.num = [term |-> TermOf(r), subterm |-> 0]
      /\ Outgoing(r) \in RuleNumber
  BY <1>1, ProposedParts
<1>4. PICK transition, rule : transition = rounds[r].transition /\ rule = transition.proposal
  OBVIOUS
<1>5. PICK entry : entry = [pos |-> transition, primary |-> p, rewindReady |-> FALSE]
  OBVIOUS
<1>6. /\ ValidateRevocation(LastPos(p), FloorOutstanding(p, LastPos(p)), rev[p], rounds[r].rev)
      /\ rev[p].term = TermOf(r)
      /\ op[p] = NoOp /\ prim[p] = 0 /\ conn[p] = None
      /\ rp' = [rp EXCEPT ![p] = MergeReplicationPrimary(rp[p], entry)]
      /\ UNCHANGED <<conn, rev, floor>>
  BY <1>2, <1>4, <1>5, ZenonT(60) DEF Promote, Leader, TermOf, promiseVars
<1>7. \/ /\ CompareRuleNumbers(PossiblyUndecidedRule(LastPos(p)).num, Outgoing(r)) = 0
         /\ prim' = [prim EXCEPT ![p] = rule.num.term]
         /\ AppendRecord(p, rule.num.term, "switch", LastPos(p))
         /\ op' = [op EXCEPT ![p] = [phase |-> IF ~IsRuleDecided(LastPos(p)) THEN "confirm" ELSE "propose",
                                     round |-> r, rule |-> rule, await |-> 0]]
      \/ UNCHANGED <<wal, prim, op>>
  BY <1>2, <1>4, ZenonT(60) DEF Promote, Leader, Outgoing
<1>8. rounds' = [rounds EXCEPT ![r].phase = "promoting"]
  BY PromoteFrame
<1>9. rule.num.term = TermOf(r)
  BY <1>3, <1>4
<1>10. \/ /\ PossiblyUndecidedRule(LastPos(p)).num = Outgoing(r)
          /\ prim'[p] = TermOf(r)
          /\ wal'[p] = Append(wal[p], [by |-> TermOf(r), kind |-> "switch", pos |-> LastPos(p)])
          /\ op'[p] = [phase |-> IF ~IsRuleDecided(LastPos(p)) THEN "confirm" ELSE "propose",
                       round |-> r, rule |-> rounds[r].transition.proposal, await |-> 0]
       \/ wal'[p] = wal[p] /\ prim'[p] = prim[p] /\ op'[p] = op[p]
  <2>1. CASE UNCHANGED <<wal, prim, op>>
    BY <2>1
  <2>2. CASE ~UNCHANGED <<wal, prim, op>>
    <3>1. PossiblyUndecidedRule(LastPos(p)).num \in RuleNumber
      BY WalTypes, PositionNumbers DEF Ground
    <3>2. PossiblyUndecidedRule(LastPos(p)).num = Outgoing(r)
      BY <1>3, <1>7, <2>2, <3>1, RuleNumbersOrdered
    <3>3. prim'[p] = TermOf(r)
      BY <1>7, <1>9, <2>2 DEF Ground, TypeOK
    <3>4. wal'[p] = Append(wal[p], [by |-> TermOf(r), kind |-> "switch", pos |-> LastPos(p)])
      BY <1>7, <1>9, <2>2 DEF Ground, TypeOK, AppendRecord
    <3>5. op'[p] = [phase |-> IF ~IsRuleDecided(LastPos(p)) THEN "confirm" ELSE "propose",
                    round |-> r, rule |-> rounds[r].transition.proposal, await |-> 0]
      BY <1>4, <1>7, <2>2 DEF Ground, TypeOK
    <3> QED
      BY <3>2, <3>3, <3>4, <3>5
  <2> QED
    BY <2>1, <2>2
<1>11. OthersIdle(p)
  <2>1. ASSUME NEW q \in Poolers, q # p PROVE wal'[q] = wal[q] /\ prim'[q] = prim[q] /\ op'[q] = op[q]
    BY <1>7, <2>1 DEF Ground, TypeOK, AppendRecord
  <2>2. ASSUME NEW q \in Poolers, q # p PROVE rp'[q] = rp[q]
    BY <1>6, <2>2 DEF Ground, TypeOK
  <2> QED
    BY <1>6, <2>1, <2>2 DEF OthersIdle, Idle
<1>12. Told(rp'[p])
  <2>1. rp[p] \in PrimaryType /\ rp'[p] = MergeReplicationPrimary(rp[p], entry) /\ Told(rp[p])
    BY <1>6 DEF Ground, TypeOK, ToldInv
  <2>2. FALSE \in BOOLEAN
    OBVIOUS
  <2>3. entry \in PrimaryType /\ entry.pos = transition /\ entry.primary = p
    BY <1>3, <1>4, <1>5, <2>2, Zenon DEF PrimaryType
  <2>4. Legit(transition)
    BY <1>1, <1>4 DEF Legit
  <2>5. PossiblyUndecidedRule(transition) = rule
    <3>1. ~IsRuleDecided(transition)
      <4>1. /\ TermOf(r) \in Nat /\ FirstTerm < TermOf(r)
        BY <1>1, ProposedParts
      <4> QED
        BY <1>3, <1>4, <4>1, FirstTermType DEF IsRuleDecided, RuleNumberIsUnset
    <3> QED
      BY <1>4, <3>1 DEF PossiblyUndecidedRule
  <2> QED
    BY <1>2, <1>4, <2>1, <2>3, <2>4, <2>5, ToldMerge DEF Leader
<1> QED
  BY <1>1, <1>2, <1>6, <1>8, <1>10, <1>11, <1>12, Zenon DEF PromoteStep

\* Restarting as a standby, pointed at a leader it may be pointed at.
LEMMA RestartShape ==
    ASSUME Ground, NEW p \in Poolers, NEW q \in Poolers, RestartAsStandby(p, q), Pointed(p, q),
           op[p] = NoOp, UNCHANGED <<op, rev, rounds>>, Told(rp'[p]),
           \A s \in Poolers : s # p => rp'[s] = rp[s]
    PROVE  LocalStep(p)
<1>1. /\ floor[p] = NoFloor
      /\ floor' = [floor EXCEPT ![p] = [pos |-> Visible(p), lsn |-> Lsn(p)]]
      /\ prim' = [prim EXCEPT ![p] = 0]
      /\ conn' = [conn EXCEPT ![p] = q]
  BY DEF RestartAsStandby
<1>2. PICK n \in RewindPoints(p, q) : wal' = [wal EXCEPT ![p] = SubSeq(wal[p], 1, n)]
  BY DEF RestartAsStandby
<1>3. n \in 1..Lsn(p)
  BY RewindKeepsPrefix DEF Ground
<1>4. /\ wal'[p] = SubSeq(wal[p], 1, n) /\ prim'[p] = 0 /\ conn'[p] = q
      /\ floor'[p] = [pos |-> Visible(p), lsn |-> Lsn(p)]
      /\ \A s \in Poolers : s # p => /\ wal'[s] = wal[s] /\ prim'[s] = prim[s]
                                     /\ conn'[s] = conn[s] /\ floor'[s] = floor[s]
  BY <1>1, <1>2 DEF Ground, TypeOK
<1>5. RewindStep(p)
  BY <1>1, <1>3, <1>4 DEF RewindStep
<1>6. OthersIdle(p)
  BY <1>4 DEF OthersIdle, Idle
<1> QED
  BY <1>5, <1>6 DEF LocalStep

\* A step of p that changes no WAL, no promise and no round.
LEMMA QuietShape ==
    ASSUME TypeOK, ToldInv, NEW p \in Poolers, UNCHANGED <<wal, floor, rev, rounds>>,
           \A s \in Poolers : s # p => /\ prim'[s] = prim[s] /\ conn'[s] = conn[s]
                                       /\ op'[s] = op[s] /\ rp'[s] = rp[s],
           \/ prim'[p] = prim[p] /\ (op'[p] = op[p] \/ op'[p] = NoOp)
           \/ prim'[p] = 0 /\ op'[p] = NoOp,
           \/ conn'[p] = conn[p]
           \/ conn'[p] = None
           \/ prim[p] = 0 /\ prim'[p] = 0 /\ Pointed(p, conn'[p]),
           Told(rp'[p])
    PROVE  LocalStep(p)
<1>1. QuietStep(p)
  BY DEF QuietStep
<1>2. OthersIdle(p)
  BY DEF OthersIdle, Idle
<1> QED
  BY <1>1, <1>2 DEF LocalStep

\* SetPrimary.
LEMMA SetPrimaryShape ==
    ASSUME Ground, ElectionInv, WalLegit, ToldInv,
           NEW p \in Poolers, NEW m \in Announcements, SetPrimary(p, m)
    PROVE  LocalStep(p)
<1>1. PICK merged : merged = MergeReplicationPrimary(rp[p], m)
  OBVIOUS
<1>2. PICK higher, diverged \in BOOLEAN :
        /\ higher <=> CompareRulePosition(m.pos, Visible(p)) > 0
        /\ diverged <=> \/ suspect[p]
                        \/ prim[p] # 0
                        \/ PossiblyUndecidedRule(Visible(p)).leader = p
  BY Zenon
<1>3. PICK follow : follow = IF prim[p] = 0 /\ ConnInfoReconcileAllowed(p, merged)
                             THEN merged.primary ELSE conn[p]
  OBVIOUS
<1>4. /\ op[p] = NoOp
      /\ m.primary \notin {None, p}
      /\ ~IsRuleRevoked(m.pos, rev[p])
      /\ rp' = [rp EXCEPT ![p] = merged]
      /\ UNCHANGED <<op, rev, rounds>>
      /\ \/ /\ conn' = [conn EXCEPT ![p] = follow]
            /\ UNCHANGED <<wal, prim, floor>>
         \/ /\ prim[p] = 0
            /\ conn' = [conn EXCEPT ![p] = m.primary]
            /\ UNCHANGED <<wal, prim, floor>>
         \/ UNCHANGED <<wal, prim, conn, floor>>
         \/ RestartAsStandby(p, m.primary)
  BY <1>1, <1>3, Zenon DEF SetPrimary, pgVars
<1>5. m \in PrimaryType /\ Legit(m.pos) /\ m.primary = PossiblyUndecidedRule(m.pos).leader
  BY AnnouncedLegit
<1>6. m.primary \in Poolers
  BY <1>4, <1>5 DEF PrimaryType
<1>7. Pointed(p, m.primary)
  BY <1>4, <1>5 DEF Pointed
<1>8. Told(merged)
  BY <1>1, <1>5, ToldMerge DEF Ground, TypeOK, ToldInv
<1>9. /\ rp'[p] = merged
      /\ \A s \in Poolers : s # p => rp'[s] = rp[s]
  BY <1>4 DEF Ground, TypeOK
<1>10. CASE /\ conn' = [conn EXCEPT ![p] = follow]
            /\ UNCHANGED <<wal, prim, floor>>
  <2>1. conn'[p] = follow /\ \A s \in Poolers : s # p => conn'[s] = conn[s]
    BY <1>10 DEF Ground, TypeOK
  <2>2. conn'[p] = conn[p] \/ (prim[p] = 0 /\ prim'[p] = 0 /\ Pointed(p, conn'[p]))
    BY <1>3, <1>8, <1>10, <2>1, ToldPoints
  <2> QED
    BY <1>4, <1>8, <1>9, <1>10, <2>1, <2>2, QuietShape DEF Ground
<1>11. CASE /\ prim[p] = 0
            /\ conn' = [conn EXCEPT ![p] = m.primary]
            /\ UNCHANGED <<wal, prim, floor>>
  <2>1. conn'[p] = m.primary /\ \A s \in Poolers : s # p => conn'[s] = conn[s]
    BY <1>11 DEF Ground, TypeOK
  <2> QED
    BY <1>4, <1>7, <1>8, <1>9, <1>11, <2>1, QuietShape DEF Ground
<1>12. CASE UNCHANGED <<wal, prim, conn, floor>>
  BY <1>4, <1>8, <1>9, <1>12, QuietShape DEF Ground
<1>13. CASE RestartAsStandby(p, m.primary)
  BY <1>4, <1>6, <1>7, <1>8, <1>9, <1>13, RestartShape
<1> QED
  BY <1>4, <1>10, <1>11, <1>12, <1>13

\* The monitor.
LEMMA MonitorShape ==
    ASSUME Ground, ToldInv, NEW p \in Poolers, MonitorStep(p)
    PROVE  LocalStep(p)
<1>1. Told(rp[p])
  BY DEF ToldInv
<1>2. CASE FixPrimaryConnInfo(p)
  <2>1. /\ conn'[p] = rp[p].primary /\ \A s \in Poolers : s # p => conn'[s] = conn[s]
        /\ prim[p] = 0
        /\ UNCHANGED <<wal, prim, op, rev, floor, rp, rounds>>
        /\ ConnInfoReconcileAllowed(p, rp[p])
    BY <1>2 DEF FixPrimaryConnInfo, Ground, TypeOK, promiseVars, memVars
  <2>2. Pointed(p, conn'[p])
    BY <1>1, <2>1, ToldPoints
  <2> QED
    BY <1>1, <2>1, <2>2, QuietShape DEF Ground
<1>3. CASE MarkStandbyDiverged(p)
  <2>1. UNCHANGED <<wal, prim, conn, op, rev, floor, rp, rounds>>
    BY <1>3 DEF MarkStandbyDiverged, pgVars, promiseVars
  <2> QED
    BY <1>1, <2>1, QuietShape DEF Ground
<1>4. CASE RewindToLeader(p) \/ DemoteStalePrimary(p)
  <2>1. /\ op[p] = NoOp
        /\ ConnInfoReconcileAllowed(p, rp[p])
        /\ RestartAsStandby(p, rp[p].primary)
        /\ UNCHANGED <<op, rev, rp, rounds>>
    BY <1>4 DEF RewindToLeader, DemoteStalePrimary
  <2>2. rp[p].primary \in Poolers
    BY <2>1 DEF Ground, TypeOK, PrimaryType, ConnInfoReconcileAllowed
  <2>3. Pointed(p, rp[p].primary)
    BY <1>1, <2>1, ToldPoints
  <2>4. PICK q \in Poolers : q = rp[p].primary
    BY <2>2
  <2> QED
    BY <1>1, <2>1, <2>3, <2>4, RestartShape
<1>5. CASE ReconcileGUC(p)
  <2>1. UNCHANGED <<wal, prim, conn, op, rev, floor, rp, rounds>>
    BY <1>5 DEF ReconcileGUC, promiseVars, memVars
  <2> QED
    BY <1>1, <2>1, QuietShape DEF Ground
<1> QED
  BY <1>2, <1>3, <1>4, <1>5 DEF MonitorStep

\* A write by a primary.
LEMMA WriteShape ==
    ASSUME Ground, NEW p \in Poolers, prim[p] # 0, NEW kind, NEW pos,
           AppendRecord(p, prim[p], kind, pos), WriteOf(p, kind, pos),
           \A s \in Poolers : s # p => op'[s] = op[s],
           UNCHANGED <<prim, conn, rev, floor, rp, rounds>>
    PROVE  LocalStep(p)
<1>1. wal'[p] = Append(wal[p], [by |-> prim[p], kind |-> kind, pos |-> pos])
      /\ \A s \in Poolers : s # p => wal'[s] = wal[s]
  BY DEF AppendRecord, Ground, TypeOK
<1>2. WriteStep(p)
  BY <1>1 DEF WriteStep
<1>3. OthersIdle(p)
  BY <1>1 DEF OthersIdle, Idle
<1> QED
  BY <1>2, <1>3 DEF LocalStep

\* What a rule write does to the operation.
LEMMA WriteRuleOp ==
    ASSUME Ground, NEW p \in Poolers, NEW kind, NEW pos, NEW phase, WriteRule(p, kind, pos, phase)
    PROVE  /\ AppendRecord(p, prim[p], kind, pos)
           /\ op'[p].phase = phase /\ op'[p].rule = op[p].rule /\ op'[p].await = Lsn(p) + 1
           /\ \A s \in Poolers : s # p => op'[s] = op[s]
           /\ UNCHANGED <<prim, conn, rev, floor, rp, rounds>>
<1>1. op[p] \in OpType /\ op \in [Poolers -> OpType]
  BY DEF Ground, TypeOK
<1>2. op' = [op EXCEPT ![p].phase = phase, ![p].await = Lsn(p) + 1]
  BY DEF WriteRule
<1>3. /\ op'[p].phase = phase /\ op'[p].rule = op[p].rule /\ op'[p].await = Lsn(p) + 1
      /\ \A s \in Poolers : s # p => op'[s] = op[s]
  BY <1>1, <1>2 DEF OpType
<1> QED
  BY <1>3 DEF WriteRule, promiseVars, memVars

\* A step of the operation in progress.
LEMMA RuleStepShape ==
    ASSUME Ground, ElectionInv, ToldInv, OpInvs, NEW p \in Poolers, RuleStep(p)
    PROVE  LocalStep(p)
<1>1. prim[p] # 0 /\ op[p].phase # "none"
  <2>1. op[p].phase # "none"
    BY DEF RuleStep, ConfirmProposalQuorum, FinalizeStuckProposal, WriteRuleProposal,
           MarkProposalAsDecision, SettleRule
  <2> QED
    BY <2>1, OpPrimary DEF OpInvs
<1>2. CASE ConfirmProposalQuorum(p)
  <2>1. op[p].phase = "confirm" /\ WriteRule(p, "probe", LastPos(p), "finalize")
    BY <1>2 DEF ConfirmProposalQuorum
  <2>2. WriteOf(p, "probe", LastPos(p))
    BY <2>1, WriteRuleOp DEF WriteOf
  <2> QED
    BY <1>1, <2>1, <2>2, WriteRuleOp, WriteShape
<1>3. CASE FinalizeStuckProposal(p)
  <2>1. op[p].phase = "finalize" /\ WriteRule(p, "rule", Decided(LastPos(p).proposal), "propose")
    BY <1>3 DEF FinalizeStuckProposal
  <2>2. WriteOf(p, "rule", Decided(LastPos(p).proposal))
    BY <2>1, WriteRuleOp DEF WriteOf
  <2> QED
    BY <1>1, <2>1, <2>2, WriteRuleOp, WriteShape
<1>4. CASE WriteRuleProposal(p)
  <2>1. PICK pos : pos = [decision |-> LastPos(p).decision, proposal |-> op[p].rule]
    OBVIOUS
  <2>2. op[p].phase = "propose" /\ WriteRule(p, "rule", pos, "decide")
    BY <1>4, <2>1 DEF WriteRuleProposal
  <2>3. WriteOf(p, "rule", pos)
    BY <2>1, <2>2, WriteRuleOp DEF WriteOf
  <2> QED
    BY <1>1, <2>2, <2>3, WriteRuleOp, WriteShape
<1>5. CASE MarkProposalAsDecision(p)
  <2>1. op[p].phase = "decide" /\ Acknowledged(p) /\ WriteRule(p, "rule", Decided(op[p].rule), "settle")
    BY <1>5 DEF MarkProposalAsDecision
  <2>2. WriteOf(p, "rule", Decided(op[p].rule))
    BY <2>1, WriteRuleOp DEF WriteOf
  <2> QED
    BY <1>1, <2>1, <2>2, WriteRuleOp, WriteShape
<1>6. CASE SettleRule(p)
  <2>1. PICK entry : entry = [pos |-> Decided(op[p].rule), primary |-> p, rewindReady |-> FALSE]
    OBVIOUS
  <2>2. /\ op[p].phase = "settle"
        /\ UNCHANGED <<wal, prim, conn, rev, floor, rounds>>
        /\ op' = [op EXCEPT ![p] = NoOp]
        /\ rp' = rp \/ rp' = [rp EXCEPT ![p] = MergeReplicationPrimary(rp[p], entry)]
    BY <1>6, <2>1, Zenon DEF SettleRule, promiseVars
  <2>3. Legit(Decided(op[p].rule)) /\ KnownRule(op[p].rule) /\ op[p].rule.leader = p
    BY <1>1, <2>2, OpPrimary DEF OpInvs
  <2>4. Told(MergeReplicationPrimary(rp[p], entry))
    <3>1. /\ Decided(op[p].rule) \in PositionType
          /\ PossiblyUndecidedRule(Decided(op[p].rule)) = op[p].rule
      BY <2>3, DecidedParts DEF Ground, AgreementInv
    <3>2. FALSE \in BOOLEAN
      OBVIOUS
    <3>3. entry \in PrimaryType /\ entry.pos = Decided(op[p].rule) /\ entry.primary = p
      BY <2>1, <3>1, <3>2, Zenon DEF PrimaryType
    <3> QED
      BY <2>3, <3>1, <3>3, ToldMerge DEF Ground, TypeOK, ToldInv
  <2>5. Told(rp'[p]) /\ \A s \in Poolers : s # p => rp'[s] = rp[s]
    <3>1. CASE rp' = rp
      BY <3>1 DEF ToldInv
    <3>2. CASE rp' = [rp EXCEPT ![p] = MergeReplicationPrimary(rp[p], entry)]
      <4>1. rp'[p] = MergeReplicationPrimary(rp[p], entry) /\ \A s \in Poolers : s # p => rp'[s] = rp[s]
        BY <3>2 DEF Ground, TypeOK
      <4> QED
        BY <2>4, <4>1
    <3> QED
      BY <2>2, <3>1, <3>2
  <2>6. op'[p] = NoOp /\ \A s \in Poolers : s # p => op'[s] = op[s]
    BY <2>2 DEF Ground, TypeOK
  <2> QED
    BY <2>2, <2>5, <2>6, QuietShape DEF Ground
<1> QED
  BY <1>2, <1>3, <1>4, <1>5, <1>6 DEF RuleStep

\* The other steps of a pooler.  The leader changes no cohort.
LEMMA LocalShape ==
    ASSUME Ground, ElectionInv, ToldInv, OpInvs, MaxCohortChanges = 0,
           NEW p \in Poolers, Local(p)
    PROVE  LocalStep(p)
<1>1. Told(rp[p]) /\ \A s \in Poolers : Told(rp[s])
  BY DEF ToldInv
<1>2. CASE AbortOperation(p)
  <2>1. /\ UNCHANGED <<wal, prim, conn, rev, floor, rp, rounds>>
        /\ op'[p] = NoOp /\ \A s \in Poolers : s # p => op'[s] = op[s]
    BY <1>2 DEF AbortOperation, pgVars, promiseVars, memVars, Ground, TypeOK
  <2> QED
    BY <1>1, <2>1, QuietShape DEF Ground
<1>3. ASSUME NEW cohort \in SUBSET Poolers, UpdateConsensusRule(p, cohort) PROVE FALSE
  <2>1. spent.changes < MaxCohortChanges
    BY <1>3 DEF UpdateConsensusRule
  <2>2. spent.changes \in Nat
    BY DEF Ground, TypeOK, SpentType
  <2> QED
    BY <2>1, <2>2
<1>4. CASE Stream(p)
  <2>1. /\ conn[p] # None
        /\ IsStrictPrefix(wal[p], wal[conn[p]])
        /\ wal'[p] = Append(wal[p], wal[conn[p]][Lsn(p) + 1])
        /\ \A s \in Poolers : s # p => wal'[s] = wal[s]
        /\ UNCHANGED <<prim, conn, op, rev, floor, rp, rounds>>
    BY <1>4 DEF Stream, promiseVars, memVars, Ground, TypeOK
  <2>2. StreamStep(p) /\ OthersIdle(p)
    BY <2>1 DEF StreamStep, OthersIdle, Idle
  <2> QED
    BY <2>1, <2>2 DEF LocalStep
<1>5. CASE ClientWrite(p)
  <2>1. /\ prim[p] # 0 /\ IsActiveLeader(p)
        /\ AppendRecord(p, prim[p], "data", LastPos(p))
        /\ UNCHANGED <<prim, conn, op, rev, floor, rp, rounds>>
    BY <1>5 DEF ClientWrite, promiseVars, memVars
  <2>2. WriteOf(p, "data", LastPos(p))
    BY <2>1 DEF WriteOf
  <2> QED
    BY <2>1, <2>2, WriteShape
<1>6. CASE PostgresCrash(p)
  <2>1. /\ UNCHANGED <<wal, rev, floor, rp, rounds>>
        /\ prim'[p] = 0 /\ op'[p] = NoOp
        /\ conn'[p] = conn[p] \/ conn'[p] = None
        /\ \A s \in Poolers : s # p => prim'[s] = prim[s] /\ op'[s] = op[s] /\ conn'[s] = conn[s]
    BY <1>6 DEF PostgresCrash, promiseVars, Ground, TypeOK
  <2> QED
    BY <1>1, <2>1, QuietShape DEF Ground
<1>7. CASE PoolerCrash(p)
  <2>1. /\ UNCHANGED <<wal, prim, conn, rev, floor, rounds>>
        /\ op'[p] = NoOp /\ rp'[p] = NoPrimary
        /\ \A s \in Poolers : s # p => op'[s] = op[s] /\ rp'[s] = rp[s]
    BY <1>7 DEF PoolerCrash, pgVars, promiseVars, Ground, TypeOK
  <2>2. Told(rp'[p])
    BY <2>1 DEF Told
  <2> QED
    BY <2>1, <2>2, QuietShape DEF Ground
<1> QED
  BY <1>2, <1>3, <1>4, <1>5, <1>6, <1>7, MonitorShape, RuleStepShape DEF Local

\* Some round or some pooler takes its step.
Shapes ==
    \/ \E r \in Rounds : StartStep(r)
    \/ \E r \in Rounds, p \in Poolers : JoinStep(r, p)
    \/ \E r \in Rounds : PromoteStep(r)
    \/ \E p \in Poolers : LocalStep(p)

\* Every action of the shard is one of the steps above, with the release of
\* commits that follows it.
LEMMA NextShapes ==
    ASSUME Ground, ElectionInv, WalLegit, ToldInv, OpInvs, ReleasedInv, MaxCohortChanges = 0,
           [Next]_vars, TypeOK'
    PROVE  Shapes /\ ReleaseEffect
<1>1. CASE UNCHANGED vars
  <2>1. ReleaseEffect
    BY <1>1, StutterEffects DEF Ground
  <2>2. InitialRule.leader \in Poolers
    BY ConstantsAssumption, RuleParts
  <2>3. PICK p \in Poolers : TRUE
    BY <2>2
  <2>4. Told(rp'[p])
    BY <1>1 DEF vars, ToldInv
  <2>5. LocalStep(p)
    BY <1>1, <2>4, QuietShape DEF vars, Ground
  <2> QED
    BY <2>1, <2>5 DEF Shapes
<1>2. CASE Next
  <2>1. ReleaseEffect
    BY <1>2, ReleaseEffects DEF Next, Ground
  <2>2. CASE Coordination
    BY <2>1, <2>2, StartShape, RecruitShape, PromoteShape, SetPrimaryShape DEF Coordination, Shapes
  <2>3. CASE \E p \in Poolers : Local(p)
    BY <2>1, <2>3, LocalShape DEF Shapes
  <2> QED
    BY <1>2, <2>2, <2>3 DEF Next
<1> QED
  BY <1>1, <1>2

-----------------------------------------------------------------------------
(* Elections: every step keeps ElectionInv.                                *)

\* A round of which nothing has changed but perhaps the promotion.
SameRound(q) ==
    /\ rounds'[q].rev = rounds[q].rev
    /\ rounds'[q].accepted = rounds[q].accepted
    /\ rounds'[q].transition = rounds[q].transition
    /\ Proposed(q)' <=> Proposed(q)
    /\ Started(q)' <=> Started(q)

\* The invariant of a round that a step leaves alone.
LEMMA SameElection ==
    ASSUME ProposalsKept, NEW q \in Rounds, ElectionOf(q), SameRound(q), AcceptancesStand(q)'
    PROVE  ElectionOf(q)'
<1>1. TermOf(q)' = TermOf(q) /\ Outgoing(q)' = Outgoing(q) /\ Leader(q)' = Leader(q)
  BY DEF SameRound, TermOf, Outgoing, Leader
<1>2. RoundBounded(q)'
  BY <1>1 DEF SameRound, ElectionOf, RoundBounded
<1>3. NoProposalYet(q)'
  BY DEF SameRound, ElectionOf, NoProposalYet
<1>4. ProposalBuilt(q)'
  <2>1. PICK x : x = rounds[q].transition.decision
    OBVIOUS
  <2>2. rounds'[q].transition.decision = x
    BY <2>1 DEF SameRound
  <2>3. KnownRule(x) => KnownRule(x)'
    BY KnownKept
  <2>4. Proposed(q)' => KnownRule(x)'
    BY <2>1, <2>3 DEF SameRound, ElectionOf, ProposalBuilt
  <2>5. Proposed(q)' => KnownRule(rounds[q].transition.decision)'
    BY <2>2, <2>4 DEF KnownRule
  <2>6. Proposed(q)' =>
          /\ x.num = Outgoing(q)'
          /\ Leader(q)' \in rounds'[q].accepted
          /\ CheckUnrecruitedCannotCommit(InitialRule.policy, InitialRule.cohort,
                                          InitialRule.cohort \cap rounds'[q].accepted)
    BY <1>1, <2>1 DEF SameRound, ElectionOf, ProposalBuilt
  <2> QED
    BY <2>2, <2>5, <2>6 DEF ProposalBuilt
<1> QED
  BY <1>2, <1>3, <1>4 DEF ElectionOf

\* A round whose poolers have not moved.
LEMMA SameAcceptances ==
    ASSUME TypeOK, NEW q \in Rounds, AcceptancesStand(q), SameRound(q),
           \A s \in rounds[q].accepted : /\ rev'[s] = rev[s]
                                         /\ prim'[s] = prim[s] \/ prim'[s] = 0
    PROVE  AcceptancesStand(q)'
<1>1. TermOf(q)' = TermOf(q) /\ Outgoing(q)' = Outgoing(q)
  BY DEF SameRound, TermOf, Outgoing
<1> QED
  BY <1>1 DEF SameRound, AcceptancesStand

\* What one pooler does by itself leaves the elections alone.
LEMMA LocalElection ==
    ASSUME Ground, ElectionInv, NEW p \in Poolers, LocalStep(p)
    PROVE  ElectionInv' /\ ProposalsKept
<1>1. /\ rounds' = rounds
      /\ \A s \in Poolers : rev'[s] = rev[s] /\ (prim'[s] = prim[s] \/ prim'[s] = 0)
  BY DEF LocalStep, OthersIdle, Idle, WriteStep, StreamStep, RewindStep, QuietStep
<1>2. ProposalsKept
  BY <1>1 DEF ProposalsKept, Proposed
<1>3. \A q \in Rounds : SameRound(q)
  BY <1>1 DEF SameRound, Proposed, Started
<1>4. ASSUME NEW q \in Rounds PROVE ElectionOf(q)'
  <2>1. rounds[q].accepted \in SUBSET Poolers /\ ElectionOf(q) /\ AcceptancesStand(q)
    BY RoundTypes DEF Ground, ElectionInv, ElectionOf
  <2>2. AcceptancesStand(q)'
    BY <1>1, <1>3, <2>1, SameAcceptances DEF Ground
  <2> QED
    BY <1>2, <1>3, <2>1, <2>2, SameElection
<1>5. RoundsInOrder' /\ AcceptancesOrdered'
  BY <1>1 DEF ElectionInv, RoundsInOrder, AcceptancesOrdered, Started, TermOf, Outgoing
<1> QED
  BY <1>2, <1>4, <1>5 DEF ElectionInv

\* A revocation: it names the rule a pooler reports, and its term is above that
\* rule's and above every term the poolers have promised.
LEMMA AuthoredFrom ==
    ASSUME Ground, ElectionInv, WalLegit, NEW r \in Rounds, NEW heard \in SUBSET Poolers,
           NEW authored \in NewTermRevocations({Status(p) : p \in heard}, CoordinatorOf[r], r)
    PROVE  \E rule : /\ KnownRule(rule) /\ authored.outgoing = rule.num
                     /\ rule.num.term < authored.term
                     /\ \/ authored.term = rule.num.term + 1
                        \/ \E p \in Poolers : authored.term = rev[p].term + 1
<1> DEFINE statuses == {Status(p) : p \in heard}
<1>1. PICK best \in {o.pos : o \in statuses} :
        \E highest \in Highest({PossiblyUndecidedRule(best).num.term}
                                  \cup {o.rev.term : o \in statuses}) :
            authored = [term |-> highest + 1, coord |-> CoordinatorOf[r], at |-> r,
                        outgoing |-> PossiblyUndecidedRule(best).num]
  BY DEF NewTermRevocations, MostAdvanced
<1>2. PICK highest \in Highest({PossiblyUndecidedRule(best).num.term}
                                  \cup {o.rev.term : o \in statuses}) :
            authored = [term |-> highest + 1, coord |-> CoordinatorOf[r], at |-> r,
                        outgoing |-> PossiblyUndecidedRule(best).num]
  BY <1>1
<1>3. \A p \in Poolers : Status(p).pos = Visible(p) /\ Status(p).rev = rev[p]
  BY DEF Status
<1>4. PICK p \in heard : best = Visible(p)
  BY <1>1, <1>3
<1>5. KnownRule(PossiblyUndecidedRule(best))
  <2>1. KnownPosition(best)
    BY <1>4, OwnPositionKnown DEF Ground
  <2> QED
    BY <2>1, KnownPolicies DEF Ground, AgreementInv
<1>6. PICK rule : rule = PossiblyUndecidedRule(best)
  OBVIOUS
<1>7. rule.num.term \in Nat
  BY <1>5, <1>6, KnownRules DEF Ground, AgreementInv
<1>8. highest >= rule.num.term
  BY <1>2, <1>6 DEF Highest
<1>9. highest = rule.num.term \/ \E q \in Poolers : highest = rev[q].term
  BY <1>2, <1>3, <1>6 DEF Highest
<1>10. highest \in Nat
  BY <1>7, <1>9 DEF Ground, TypeOK, RevocationType
<1>11. authored.term = highest + 1 /\ authored.outgoing = rule.num
  BY <1>2, <1>6
<1>12. rule.num.term < authored.term
  BY <1>7, <1>8, <1>10, <1>11
<1> QED
  BY <1>5, <1>6, <1>9, <1>11, <1>12

\* Authoring a revocation keeps the invariant of the elections: the term is new
\* to all that the coordinator has heard.
LEMMA StartElection ==
    ASSUME Ground, ElectionInv, WalLegit, NEW r \in Rounds, StartStep(r)
    PROVE  /\ ElectionInv' /\ ProposalsKept
           /\ rounds[r].accepted = {} /\ rounds[r].recruits = {}
<1>1. /\ \A q \in Rounds : q # r => rounds'[q] = rounds[q]
      /\ rounds[r].phase = "idle" /\ rounds'[r].phase = "recruiting"
      /\ rounds'[r].accepted = rounds[r].accepted
      /\ rounds'[r].transition = rounds[r].transition
      /\ \A q \in Rounds : q < r => Started(q)
      /\ \A s \in Poolers : rev'[s] = rev[s] /\ prim'[s] = prim[s]
  BY DEF StartStep, Idle, Started
<1>2. PICK authored : authored = rounds'[r].rev
  OBVIOUS
<1>3. PICK heard \in SUBSET Poolers :
        authored \in NewTermRevocations({Status(p) : p \in heard}, CoordinatorOf[r], r)
  BY <1>2 DEF StartStep
<1>4. rounds[r].accepted = {} /\ rounds[r].recruits = {}
  <2>1. rounds[r].accepted = {}
    BY <1>1 DEF Ground, PromiseInv, RoundAuthored
  <2> QED
    BY <2>1 DEF Ground, AgreementInv, RoundsKnown, RecruitsKnown
<1>5. ProposalsKept
  BY <1>1 DEF ProposalsKept, Proposed
<1>6. ASSUME NEW q \in Rounds, Started(q) PROVE q < r /\ TermOf(q) < FirstTerm + r
  <2>1. q # r
    BY <1>1, <1>6 DEF Started
  <2>2. q \in Nat /\ r \in Nat
    BY RoundTypes DEF Ground
  <2>3. ~(r < q)
    BY <1>1, <1>6 DEF ElectionInv, RoundsInOrder, Started
  <2>4. TermOf(q) <= FirstTerm + q
    BY <1>6 DEF ElectionInv, ElectionOf, RoundBounded
  <2>5. TermOf(q) \in Nat /\ FirstTerm \in Nat
    BY RoundTypes, FirstTermType DEF Ground
  <2> QED
    BY <2>1, <2>2, <2>3, <2>4, <2>5
<1>7. PICK rule : /\ KnownRule(rule) /\ authored.outgoing = rule.num
                  /\ rule.num.term < authored.term
                  /\ \/ authored.term = rule.num.term + 1
                     \/ \E p \in Poolers : authored.term = rev[p].term + 1
  BY <1>3, AuthoredFrom
<1>8. /\ rule.num \in RuleNumber /\ rule.num.term \in Nat /\ FirstTerm <= rule.num.term
      /\ NotAbove(InitialRule.num, rule.num)
      /\ FirstTerm \in Nat \ {0} /\ r \in Nat \ {0}
  BY <1>7, KnownNumbers, FirstTermType, RoundTypes DEF Ground, AgreementInv, RuleNumber
<1>9. rule.num.term < FirstTerm + r
  <2>1. CASE rule = InitialRule
    BY <1>8, <2>1, FirstTermType
  <2>2. CASE rule # InitialRule
    <3>1. PICK q \in Rounds : Proposed(q) /\ rule = rounds[q].transition.proposal
      BY <1>7, <2>2 DEF KnownRule
    <3>2. rule.num.term = TermOf(q)
      <4>1. rule.num = [term |-> TermOf(q), subterm |-> 0]
        BY <3>1, ProposedParts
      <4> QED
        BY <4>1
    <3>3. Started(q)
      BY <3>1 DEF Proposed, Started
    <3> QED
      BY <1>6, <3>2, <3>3
  <2> QED
    BY <2>1, <2>2
<1>10. ASSUME NEW p \in Poolers PROVE rev[p].term \in Nat /\ rev[p].term < FirstTerm + r
  <2>1. CASE rev[p] = NoRevocation
    BY <1>8, <2>1 DEF NoRevocation
  <2>2. CASE rev[p] # NoRevocation
    <3>1. PICK q \in Rounds : rounds[q].phase # "idle" /\ rev[p] = rounds[q].rev
      BY <2>2 DEF Ground, PromiseInv, PromiseOfRound
    <3> QED
      BY <1>6, <3>1, RoundTypes DEF Started, TermOf, Ground
  <2> QED
    BY <2>1, <2>2
<1>11. FirstTerm < authored.term /\ authored.term <= FirstTerm + r
  <2>1. CASE authored.term = rule.num.term + 1
    BY <1>8, <1>9, <2>1
  <2>2. CASE \E p \in Poolers : authored.term = rev[p].term + 1
    <3>1. PICK p \in Poolers : authored.term = rev[p].term + 1
      BY <2>2
    <3>2. rev[p].term \in Nat /\ rev[p].term < FirstTerm + r
      BY <1>10
    <3> QED
      BY <1>7, <1>8, <3>1, <3>2
  <2> QED
    BY <1>7, <2>1, <2>2
<1>12. TermOf(r)' = authored.term /\ Outgoing(r)' = authored.outgoing
  BY <1>2 DEF TermOf, Outgoing
<1>13. ElectionOf(r)'
  <2>1. ~Proposed(r)' /\ ~Proposed(r)
    BY <1>1 DEF Proposed
  <2>2. RoundBounded(r)'
    BY <1>7, <1>8, <1>11, <1>12 DEF RoundBounded
  <2>3. AcceptancesStand(r)'
    BY <1>1, <1>4 DEF AcceptancesStand
  <2>4. NoProposalYet(r)'
    BY <1>1, <2>1 DEF ElectionInv, ElectionOf, NoProposalYet
  <2> QED
    BY <2>1, <2>2, <2>3, <2>4 DEF ElectionOf, ProposalBuilt
<1>14. ASSUME NEW q \in Rounds, q # r PROVE ElectionOf(q)'
  <2>1. rounds[q].accepted \in SUBSET Poolers /\ ElectionOf(q) /\ AcceptancesStand(q)
    BY RoundTypes DEF Ground, ElectionInv, ElectionOf
  <2>2. SameRound(q)
    BY <1>1, <1>14 DEF SameRound, Proposed, Started
  <2>3. AcceptancesStand(q)'
    BY <1>1, <2>1, <2>2, SameAcceptances DEF Ground
  <2> QED
    BY <1>5, <2>1, <2>2, <2>3, SameElection
<1>15. RoundsInOrder'
  <2>1. ASSUME NEW q \in Rounds, NEW s \in Rounds, ~Started(q)', q < s PROVE ~Started(s)'
    <3>1. q # r /\ ~Started(q)
      BY <1>1, <2>1 DEF Started
    <3>2. ~Started(s)
      BY <2>1, <3>1 DEF ElectionInv, RoundsInOrder
    <3>3. s # r
      BY <1>1, <2>1, <3>1
    <3> QED
      BY <1>1, <3>2, <3>3 DEF Started
  <2> QED
    BY <2>1 DEF RoundsInOrder
<1>16. AcceptancesOrdered'
  <2>1. ASSUME NEW q \in Rounds, NEW s \in Rounds,
               NEW x \in rounds'[q].accepted \cap rounds'[s].accepted,
               TermOf(q)' < TermOf(s)'
        PROVE  NotAbove(Outgoing(q)', Outgoing(s)')
    <3>1. q # r /\ s # r
      BY <1>1, <1>4, <2>1
    <3>2. rounds'[q] = rounds[q] /\ rounds'[s] = rounds[s]
      BY <1>1, <3>1
    <3>3. TermOf(q) < TermOf(s) => NotAbove(Outgoing(q), Outgoing(s))
      BY <2>1, <3>2 DEF ElectionInv, AcceptancesOrdered
    <3> QED
      BY <2>1, <3>2, <3>3 DEF TermOf, Outgoing
  <2> QED
    BY <2>1 DEF AcceptancesOrdered
<1> QED
  BY <1>4, <1>5, <1>13, <1>14, <1>15, <1>16 DEF ElectionInv

\* The more poolers a round has recruited, the fewer are left to commit.
LEMMA UnrecruitedGrows ==
    ASSUME NEW S \in SUBSET Poolers, NEW T \in SUBSET Poolers, S \subseteq T,
           CheckUnrecruitedCannotCommit(InitialRule.policy, InitialRule.cohort,
                                        InitialRule.cohort \cap S)
    PROVE  CheckUnrecruitedCannotCommit(InitialRule.policy, InitialRule.cohort,
                                        InitialRule.cohort \cap T)
<1>1. PICK cohort, policy : cohort = InitialRule.cohort /\ policy = InitialRule.policy
  OBVIOUS
<1>2. cohort \in SUBSET Poolers /\ policy \in Policies
  BY <1>1, ConstantsAssumption, RuleParts
<1>3. PICK A, B : A = cohort \ (cohort \cap S) /\ B = cohort \ (cohort \cap T)
  OBVIOUS
<1>4. A \in SUBSET Poolers /\ B \in SUBSET A
  BY <1>2, <1>3
<1>5. SatisfiedBy(policy, B) => SatisfiedBy(policy, A)
  BY <1>2, <1>4, SatisfiedByMonotone
<1>6. ~SatisfiedBy(policy, A)
  BY <1>1, <1>3 DEF CheckUnrecruitedCannotCommit
<1> QED
  BY <1>1, <1>3, <1>5, <1>6 DEF CheckUnrecruitedCannotCommit

\* A pooler accepts a revocation only if it is no earlier than those it accepted
\* before, and revokes no older rule.
LEMMA JoinAfter ==
    ASSUME Ground, ElectionInv, NEW r \in Rounds, NEW p \in Poolers, JoinStep(r, p),
           NEW q \in Rounds, p \in rounds[q].accepted
    PROVE  TermOf(q) <= TermOf(r) /\ NotAbove(Outgoing(q), Outgoing(r))
<1>1. TermOf(q) <= rev[p].term /\ NotAbove(Outgoing(q), rev[p].outgoing)
  BY DEF ElectionInv, ElectionOf, AcceptancesStand
<1>2. FirstTerm < TermOf(q)
  <2>1. Started(q)
    BY DEF Ground, PromiseInv, RoundAuthored, Started
  <2> QED
    BY <2>1 DEF ElectionInv, ElectionOf, RoundBounded
<1>3. /\ TermOf(q) \in Nat /\ TermOf(r) \in Nat /\ FirstTerm \in Nat
      /\ Outgoing(q) \in RuleNumber /\ Outgoing(r) \in RuleNumber
      /\ rev[p].term \in Nat /\ rev[p].outgoing \in RuleNumber
  BY RoundTypes, FirstTermType DEF Ground, TypeOK, RevocationType
<1>4. rev[p].term # 0
  BY <1>1, <1>2, <1>3
<1>5. rev[p].term <= TermOf(r) /\ CompareRuleNumbers(Outgoing(r), rev[p].outgoing) >= 0
  BY <1>4 DEF JoinStep, ValidateRevocation, TermOf, Outgoing
<1>6. NotAbove(rev[p].outgoing, Outgoing(r))
  BY <1>3, <1>5, NumberOrder
<1> QED
  BY <1>1, <1>3, <1>5, <1>6, NumberOrder

\* A recruit's answer is of its type and known.
LEMMA AnswerKnown ==
    ASSUME Ground, NEW p \in Poolers
    PROVE  /\ Answer(p) \in RecruitType
           /\ Answer(p).id = p /\ Answer(p).pos = LastPos(p) /\ Answer(p).lsn = Lsn(p)
           /\ KnownPosition(Answer(p).pos)
<1>1. Answer(p).id = p /\ Answer(p).pos = LastPos(p) /\ Answer(p).lsn = Lsn(p)
  BY DEF Answer
<1>2. LastPos(p) \in PositionType /\ Lsn(p) \in Nat
  BY WalTypes DEF Ground
<1>3. Answer(p) \in RecruitType
  BY <1>2 DEF Answer, RecruitType
<1>4. KnownPosition(LastPos(p))
  BY OwnPositionKnown DEF Ground
<1> QED
  BY <1>1, <1>3, <1>4

\* What joining does to the rounds.
LEMMA JoinRounds ==
    ASSUME Ground, NEW r \in Rounds, NEW p \in Poolers, JoinStep(r, p)
    PROVE  /\ ProposalsKept
           /\ \A q \in Rounds : q # r => SameRound(q)
           /\ rounds'[r].rev = rounds[r].rev
           /\ rounds'[r].accepted = rounds[r].accepted \cup {p}
           /\ Started(r) /\ Started(r)'
           /\ \A q \in Rounds : Started(q)' <=> Started(q)
           /\ \A q \in Rounds : TermOf(q)' = TermOf(q) /\ Outgoing(q)' = Outgoing(q)
           /\ \/ /\ Proposed(r)' <=> Proposed(r)
                 /\ rounds'[r].transition = rounds[r].transition
              \/ /\ ~Proposed(r) /\ Proposed(r)'
                 /\ rounds'[r].transition
                      \in BuildSafeProposal(rounds[r].rev, rounds[r].recruits \cup {Answer(p)})
<1>1. /\ \A q \in Rounds : q # r => rounds'[q] = rounds[q]
      /\ rounds'[r].rev = rounds[r].rev
      /\ rounds'[r].accepted = rounds[r].accepted \cup {p}
      /\ Started(r)
  BY DEF JoinStep
<1>2. \/ /\ rounds'[r].phase = rounds[r].phase
         /\ rounds'[r].transition = rounds[r].transition
      \/ /\ rounds[r].phase = "recruiting" /\ rounds'[r].phase = "proposed"
         /\ rounds'[r].transition
              \in BuildSafeProposal(rounds[r].rev, rounds[r].recruits \cup {Answer(p)})
  BY DEF JoinStep, AnswerStep
<1>3. Started(r)'
  BY <1>1, <1>2 DEF Started
<1>4. \A q \in Rounds : q # r => SameRound(q)
  BY <1>1 DEF SameRound, Proposed, Started
<1>5. \/ /\ Proposed(r)' <=> Proposed(r)
         /\ rounds'[r].transition = rounds[r].transition
      \/ /\ ~Proposed(r) /\ Proposed(r)'
         /\ rounds'[r].transition
              \in BuildSafeProposal(rounds[r].rev, rounds[r].recruits \cup {Answer(p)})
  BY <1>2 DEF Proposed
<1>6. ProposalsKept
  BY <1>4, <1>5 DEF ProposalsKept, SameRound
<1>7. \A q \in Rounds : Started(q)' <=> Started(q)
  BY <1>1, <1>3, <1>4 DEF SameRound
<1>8. \A q \in Rounds : TermOf(q)' = TermOf(q) /\ Outgoing(q)' = Outgoing(q)
  BY <1>1, <1>4 DEF SameRound, TermOf, Outgoing
<1> QED
  BY <1>1, <1>3, <1>4, <1>5, <1>6, <1>7, <1>8

\* The proposal an answer completes.
LEMMA JoinProposal ==
    ASSUME Ground, ElectionInv, NEW r \in Rounds, NEW p \in Poolers, JoinStep(r, p),
           ~Proposed(r), Proposed(r)'
    PROVE  \E best \in rounds[r].recruits \cup {Answer(p)} :
             BuiltFrom(rounds'[r].transition, rounds[r].rev, rounds[r].recruits \cup {Answer(p)}, best)
<1>1. rounds'[r].transition \in BuildSafeProposal(rounds[r].rev, rounds[r].recruits \cup {Answer(p)})
  BY JoinRounds
<1>2. PICK recruits : recruits = rounds[r].recruits \cup {Answer(p)}
  OBVIOUS
<1>3. recruits \in SUBSET RecruitType
  BY <1>2, AnswerKnown, RoundTypes DEF Ground
<1>4. \A c \in recruits : KnownPosition(c.pos)
  BY <1>2, AnswerKnown DEF Ground, AgreementInv, RoundsKnown, RecruitsKnown
<1>5. rounds[r].rev \in RevocationType
  BY RoundTypes DEF Ground
<1> QED
  BY <1>1, <1>2, <1>3, <1>4, <1>5, ProposalSource DEF Ground, AgreementInv

\* A round that a pooler joins stays an election; it may have a proposal now.
LEMMA JoinedElection ==
    ASSUME Ground, TypeOK', ElectionInv, NEW r \in Rounds, NEW p \in Poolers, JoinStep(r, p)
    PROVE  ProposalBuilt(r)' /\ NoProposalYet(r)'
<1>1. /\ rounds'[r].rev = rounds[r].rev
      /\ rounds'[r].accepted = rounds[r].accepted \cup {p}
      /\ ProposalsKept
      /\ TermOf(r)' = TermOf(r) /\ Outgoing(r)' = Outgoing(r)
  BY JoinRounds
<1>2. /\ rounds[r].accepted \in SUBSET Poolers /\ rounds'[r].accepted \in SUBSET Poolers
  <2>1. rounds[r].accepted \in SUBSET Poolers
    BY RoundTypes DEF Ground
  <2> QED
    BY <1>1, <2>1
<1>3. PICK policy, cohort : policy = InitialRule.policy /\ cohort = InitialRule.cohort
  OBVIOUS
<1>4. CASE /\ Proposed(r)' <=> Proposed(r)
           /\ rounds'[r].transition = rounds[r].transition
  <2>1. NoProposalYet(r)'
    BY <1>4 DEF ElectionInv, ElectionOf, NoProposalYet
  <2>2. ProposalBuilt(r)'
    <3>1. PICK x : x = rounds[r].transition.decision
      OBVIOUS
    <3>2. rounds'[r].transition.decision = x
      BY <1>4, <3>1
    <3>3. KnownRule(x) => KnownRule(x)'
      BY <1>1, KnownKept
    <3>4. ProposalBuilt(r)
      BY DEF ElectionInv, ElectionOf
    <3>5. Proposed(r)' => KnownRule(x)'
      BY <1>4, <3>1, <3>3, <3>4 DEF ProposalBuilt
    <3>6. Proposed(r)' => x.num = Outgoing(r)' /\ Leader(r)' \in rounds'[r].accepted
      BY <1>1, <1>4, <3>1, <3>4 DEF ProposalBuilt, Leader
    <3>7. Proposed(r)' => CheckUnrecruitedCannotCommit(InitialRule.policy, InitialRule.cohort,
                                                       InitialRule.cohort \cap rounds'[r].accepted)
      BY <1>1, <1>2, <1>4, <3>4, UnrecruitedGrows DEF ProposalBuilt
    <3> QED
      BY <3>2, <3>5, <3>6, <3>7 DEF ProposalBuilt
  <2> QED
    BY <2>1, <2>2
<1>5. CASE ~Proposed(r) /\ Proposed(r)'
  <2>1. PICK recruits : recruits = rounds[r].recruits \cup {Answer(p)}
    OBVIOUS
  <2>2. PICK best \in recruits : BuiltFrom(rounds'[r].transition, rounds[r].rev, recruits, best)
    BY <1>5, <2>1, JoinProposal
  <2>3. \A c \in recruits : c.id \in rounds'[r].accepted /\ KnownPosition(c.pos)
    BY <1>1, <2>1, AnswerKnown DEF Ground, AgreementInv, RoundsKnown, RecruitsKnown
  <2>4. PICK x : x = PossiblyUndecidedRule(best.pos)
    OBVIOUS
  <2>5. /\ rounds'[r].transition.decision = x
        /\ x.num = Outgoing(r)'
        /\ Leader(r)' = best.id
    BY <1>1, <2>2, <2>4 DEF BuiltFrom, Outgoing, Leader
  <2>6. KnownRule(x)'
    <3>1. KnownRule(x)
      BY <2>3, <2>4, KnownPolicies DEF Ground, AgreementInv
    <3> QED
      BY <1>1, <3>1, KnownKept
  <2>7. CheckUnrecruitedCannotCommit(InitialRule.policy, InitialRule.cohort,
                                     InitialRule.cohort \cap rounds'[r].accepted)
    <3>1. PICK S : S = Ids(recruits)
      OBVIOUS
    <3>2. S \in SUBSET Poolers /\ S \subseteq rounds'[r].accepted
      BY <1>2, <2>3, <3>1 DEF Ids
    <3>3. S \cap InitialRule.cohort = InitialRule.cohort \cap S
      OBVIOUS
    <3>4. CheckUnrecruitedCannotCommit(InitialRule.policy, InitialRule.cohort,
                                       InitialRule.cohort \cap S)
      BY <2>2, <3>1, <3>3 DEF BuiltFrom, CheckSufficientRecruitment
    <3> QED
      BY <1>2, <3>2, <3>4, UnrecruitedGrows
  <2>8. ProposalBuilt(r)'
    BY <2>3, <2>5, <2>6, <2>7 DEF ProposalBuilt
  <2> QED
    BY <1>5, <2>8 DEF NoProposalYet
<1> QED
  BY <1>4, <1>5, JoinRounds

\* So does the acceptance of a revocation, whether or not it completes a proposal.
LEMMA JoinElection ==
    ASSUME Ground, TypeOK', ElectionInv, NEW r \in Rounds, NEW p \in Poolers, JoinStep(r, p)
    PROVE  ElectionInv' /\ ProposalsKept
<1>1. /\ ProposalsKept
      /\ \A q \in Rounds : q # r => SameRound(q)
      /\ rounds'[r].rev = rounds[r].rev
      /\ rounds'[r].accepted = rounds[r].accepted \cup {p}
      /\ \A q \in Rounds : Started(q)' <=> Started(q)
      /\ \A q \in Rounds : TermOf(q)' = TermOf(q) /\ Outgoing(q)' = Outgoing(q)
  BY JoinRounds
<1>2. /\ \A s \in Poolers : s # p => rev'[s] = rev[s] /\ prim'[s] = prim[s]
      /\ rev'[p] = rounds[r].rev /\ prim'[p] = 0
  BY DEF JoinStep, OthersIdle, Idle
<1>3. \A q \in Rounds : \A s : s # p => (s \in rounds'[q].accepted <=> s \in rounds[q].accepted)
  BY <1>1 DEF SameRound
<1>4. \A q \in Rounds : q # r /\ p \in rounds'[q].accepted => p \in rounds[q].accepted
  BY <1>1 DEF SameRound
<1>5. \A q \in Rounds : /\ TermOf(q) \in Nat /\ Outgoing(q) \in RuleNumber
                        /\ rounds[q].accepted \in SUBSET Poolers
  BY RoundTypes DEF Ground
<1>6. rev'[p].term = TermOf(r) /\ rev'[p].outgoing = Outgoing(r)
  BY <1>2 DEF TermOf, Outgoing
<1>7. ASSUME NEW q \in Rounds PROVE AcceptancesStand(q)'
  <2>1. AcceptancesStand(q)
    BY DEF ElectionInv, ElectionOf
  <2>2. ASSUME NEW s \in rounds'[q].accepted, s # p
        PROVE  /\ TermOf(q) <= rev'[s].term /\ NotAbove(Outgoing(q), rev'[s].outgoing)
               /\ prim'[s] = 0 \/ TermOf(q) <= prim'[s]
    <3>1. s \in rounds[q].accepted /\ s \in Poolers
      BY <1>3, <1>5, <2>2
    <3> QED
      BY <1>2, <2>1, <2>2, <3>1 DEF AcceptancesStand
  <2>3. ASSUME p \in rounds'[q].accepted
        PROVE  /\ TermOf(q) <= rev'[p].term /\ NotAbove(Outgoing(q), rev'[p].outgoing)
               /\ prim'[p] = 0 \/ TermOf(q) <= prim'[p]
    <3>1. TermOf(q) <= TermOf(r) /\ NotAbove(Outgoing(q), Outgoing(r))
      <4>1. CASE q = r
        BY <1>5, <4>1, NumberOrder
      <4>2. CASE q # r
        BY <1>4, <2>3, <4>2, JoinAfter
      <4> QED
        BY <4>1, <4>2
    <3> QED
      BY <1>2, <1>6, <3>1
  <2> QED
    BY <1>1, <2>2, <2>3 DEF AcceptancesStand
<1>8. ASSUME NEW q \in Rounds PROVE ElectionOf(q)'
  <2>1. ElectionOf(q)
    BY DEF ElectionInv
  <2>2. CASE q # r
    BY <1>1, <1>7, <2>1, <2>2, SameElection
  <2>3. CASE q = r
    <3>1. RoundBounded(q)'
      BY <1>1, <2>1 DEF ElectionOf, RoundBounded
    <3> QED
      BY <1>7, <2>3, <3>1, JoinedElection DEF ElectionOf
  <2> QED
    BY <2>2, <2>3
<1>9. RoundsInOrder'
  BY <1>1 DEF ElectionInv, RoundsInOrder
<1>10. AcceptancesOrdered'
  <2>1. ASSUME NEW q \in Rounds, NEW x \in Rounds,
               NEW s \in rounds'[q].accepted \cap rounds'[x].accepted, TermOf(q) < TermOf(x)
        PROVE  NotAbove(Outgoing(q), Outgoing(x))
    <3>1. CASE s \in rounds[q].accepted /\ s \in rounds[x].accepted
      BY <2>1, <3>1 DEF ElectionInv, AcceptancesOrdered
    <3>2. CASE ~(s \in rounds[q].accepted /\ s \in rounds[x].accepted)
      <4>1. s = p
        BY <1>3, <2>1, <3>2
      <4>2. q = r \/ x = r
        BY <1>4, <2>1, <3>2, <4>1
      <4>3. q # x
        BY <1>5, <2>1
      <4>4. CASE q = r
        <5>1. p \in rounds[x].accepted
          BY <1>4, <2>1, <4>1, <4>3, <4>4
        <5>2. TermOf(x) <= TermOf(r)
          BY <5>1, JoinAfter
        <5> QED
          BY <1>5, <2>1, <4>4, <5>2
      <4>5. CASE x = r
        <5>1. p \in rounds[q].accepted
          BY <1>4, <2>1, <4>1, <4>3, <4>5
        <5> QED
          BY <4>5, <5>1, JoinAfter
      <4> QED
        BY <4>2, <4>4, <4>5
    <3> QED
      BY <3>1, <3>2
  <2> QED
    BY <1>1, <2>1 DEF AcceptancesOrdered
<1> QED
  BY <1>1, <1>8, <1>9, <1>10 DEF ElectionInv

\* What promoting does to the rounds.
LEMMA PromoteRounds ==
    ASSUME Ground, NEW r \in Rounds, PromoteStep(r)
    PROVE  /\ ProposalsKept /\ Proposed(r)
           /\ \A q \in Rounds : SameRound(q) /\ rounds'[q].recruits = rounds[q].recruits
           /\ rounds'[r].phase = "promoting"
           /\ \A q \in Rounds : q # r => rounds'[q] = rounds[q]
<1>1. rounds \in [Rounds -> RoundType] /\ rounds[r] \in RoundType
  BY DEF Ground, TypeOK
<1>2. rounds' = [rounds EXCEPT ![r].phase = "promoting"] /\ rounds[r].phase = "proposed"
  BY DEF PromoteStep
<1>3. \A q \in Rounds : q # r => rounds'[q] = rounds[q]
  BY <1>1, <1>2
<1>4. /\ rounds'[r].phase = "promoting"
      /\ rounds'[r].rev = rounds[r].rev
      /\ rounds'[r].accepted = rounds[r].accepted
      /\ rounds'[r].transition = rounds[r].transition
      /\ rounds'[r].recruits = rounds[r].recruits
  BY <1>1, <1>2 DEF RoundType
<1>5. \A q \in Rounds : SameRound(q)
  BY <1>2, <1>3, <1>4 DEF SameRound, Proposed, Started
<1>6. ProposalsKept /\ Proposed(r)
  BY <1>2, <1>5 DEF ProposalsKept, SameRound, Proposed
<1> QED
  BY <1>3, <1>4, <1>5, <1>6

\* So does the promotion of a proposed leader.
LEMMA PromoteElection ==
    ASSUME Ground, ElectionInv, NEW r \in Rounds, PromoteStep(r)
    PROVE  ElectionInv' /\ ProposalsKept
<1>1. /\ ProposalsKept /\ Proposed(r)
      /\ \A q \in Rounds : SameRound(q)
  BY PromoteRounds
<1>2. PICK p \in Poolers : p = Leader(r)
  BY <1>1, ProposedParts
<1>3. /\ \A s \in Poolers : s # p => rev'[s] = rev[s] /\ prim'[s] = prim[s]
      /\ rev'[p] = rev[p] /\ rev[p].term = TermOf(r)
      /\ prim'[p] = TermOf(r) \/ prim'[p] = prim[p]
  BY <1>2 DEF PromoteStep, OthersIdle, Idle
<1>4. \A q \in Rounds : TermOf(q)' = TermOf(q) /\ Outgoing(q)' = Outgoing(q)
  BY <1>1 DEF SameRound, TermOf, Outgoing
<1>5. ASSUME NEW q \in Rounds PROVE ElectionOf(q)'
  <2>1. ElectionOf(q) /\ AcceptancesStand(q) /\ SameRound(q)
    BY <1>1 DEF ElectionInv, ElectionOf
  <2>2. rounds[q].accepted \in SUBSET Poolers
    BY RoundTypes DEF Ground
  <2>3. \A s \in rounds[q].accepted : s # p =>
          /\ TermOf(q) <= rev'[s].term /\ NotAbove(Outgoing(q), rev'[s].outgoing)
          /\ prim'[s] = 0 \/ TermOf(q) <= prim'[s]
    BY <1>3, <2>1, <2>2 DEF AcceptancesStand
  <2>4. p \in rounds[q].accepted =>
          /\ TermOf(q) <= rev'[p].term /\ NotAbove(Outgoing(q), rev'[p].outgoing)
          /\ prim'[p] = 0 \/ TermOf(q) <= prim'[p]
    BY <1>3, <2>1, <2>2 DEF AcceptancesStand
  <2>5. AcceptancesStand(q)'
    BY <1>4, <2>1, <2>3, <2>4 DEF AcceptancesStand, SameRound
  <2> QED
    BY <1>1, <2>1, <2>5, SameElection
<1>6. RoundsInOrder'
  BY <1>1 DEF SameRound, ElectionInv, RoundsInOrder
<1>7. AcceptancesOrdered'
  BY <1>1, <1>4 DEF SameRound, ElectionInv, AcceptancesOrdered
<1> QED
  BY <1>1, <1>5, <1>6, <1>7 DEF ElectionInv

\* Every step keeps the elections in order.
LEMMA NextElection ==
    ASSUME Ground, TypeOK', ElectionInv, WalLegit, Shapes
    PROVE  ElectionInv' /\ ProposalsKept
BY StartElection, JoinElection, PromoteElection, LocalElection DEF Shapes

-----------------------------------------------------------------------------
(* What the WALs hold.                                                     *)

\* A round that has started keeps its revocation and its poolers; one whose
\* leader is being promoted stays so.
RoundsGrow ==
    \A r \in Rounds : Started(r) =>
        /\ Started(r)'
        /\ rounds'[r].rev = rounds[r].rev
        /\ rounds[r].accepted \subseteq rounds'[r].accepted
        /\ rounds[r].phase = "promoting" => rounds'[r].phase = "promoting"

\* Who wrote a record, and at which position: the first leader at the first one;
\* the leader of a round at the position it replaces (but no client data), at its
\* proposal or, once that is durable, at its decision.
WrittenIn(x, r) ==
    /\ rounds[r].phase = "promoting" /\ x.by = TermOf(r)
    /\ \/ PossiblyUndecidedRule(x.pos) = rounds[r].transition.decision /\ x.kind # "data"
       \/ x.pos = rounds[r].transition
       \/ x.pos = Decided(rounds[r].transition.proposal) /\ durable[TermOf(r)] # 0

\* Every record is the first one or the work of a round.
Written(x) ==
    \/ x.by = FirstTerm /\ x.pos = Decided(InitialRule)
    \/ \E r \in Rounds : WrittenIn(x, r)

WalWritten == \A p \in Poolers : \A i \in 1..Lsn(p) : Written(wal[p][i])

\* The positions along a WAL never descend.
WalMonotone ==
    \A p \in Poolers : \A i, j \in 1..Lsn(p) :
        i <= j => PosNotAbove(wal[p][i].pos, wal[p][j].pos)

\* A primary is the first leader, or the leader of the round it has promised.
PromotedIn(p, r) ==
    rounds[r].phase = "promoting" /\ prim[p] = TermOf(r) /\ p = Leader(r) /\ rev[p] = rounds[r].rev

\* A primary is the first one or promoted by a round.
PrimInv(p) ==
    prim[p] # 0 => \/ prim[p] = FirstTerm /\ p = InitialRule.leader
                   \/ \E r \in Rounds : PromotedIn(p, r)

PrimInvs == \A p \in Poolers : PrimInv(p)

\* A primary has written the last record of its WAL, and what others hold of its
\* records they hold as it does, up to there.
Owner(p) ==
    prim[p] # 0 =>
        /\ wal[p][Lsn(p)].by = prim[p]
        /\ \A q \in Poolers : \A i \in 1..Lsn(q) : wal[q][i].by = prim[p] =>
              i <= Lsn(p) /\ \A j \in 1..i : wal[q][j] = wal[p][j]

\* Of every primary.
Owners == \A p \in Poolers : Owner(p)

\* The invariant of WALs and elections.
WalInv == /\ ElectionInv /\ WalLegit /\ ToldInv /\ OpInvs /\ ReleasedInv
          /\ WalWritten /\ WalMonotone /\ PrimInvs /\ Owners

\* What a step starts from and what is known of it so far.
Step ==
    /\ Ground /\ HistoryInv /\ WalInv
    /\ Ground' /\ HistoryInv'
    /\ Shapes /\ ReleaseEffect
    /\ ElectionInv' /\ ProposalsKept /\ RoundsGrow

\* No step takes back what a round has got to.
LEMMA NextRoundsGrow ==
    ASSUME Ground, ElectionInv, Shapes
    PROVE  RoundsGrow
<1>1. ASSUME NEW r \in Rounds, StartStep(r) PROVE RoundsGrow
  BY <1>1 DEF StartStep, RoundsGrow, Started
<1>2. ASSUME NEW r \in Rounds, NEW p \in Poolers, JoinStep(r, p) PROVE RoundsGrow
  <2>1. rounds[r].phase = "promoting" => rounds'[r].phase = "promoting"
    BY <1>2 DEF JoinStep, AnswerStep
  <2>2. \A q \in Rounds : q # r => rounds'[q] = rounds[q]
    BY <1>2 DEF JoinStep
  <2>3. /\ \A q \in Rounds : Started(q)' <=> Started(q)
        /\ rounds'[r].rev = rounds[r].rev
        /\ rounds'[r].accepted = rounds[r].accepted \cup {p}
    BY <1>2, JoinRounds
  <2> QED
    BY <2>1, <2>2, <2>3 DEF RoundsGrow
<1>3. ASSUME NEW r \in Rounds, PromoteStep(r) PROVE RoundsGrow
  BY <1>3, PromoteRounds DEF RoundsGrow, SameRound
<1>4. ASSUME NEW p \in Poolers, LocalStep(p) PROVE RoundsGrow
  <2>1. rounds' = rounds
    BY <1>4 DEF LocalStep
  <2> QED
    BY <2>1 DEF RoundsGrow, Started
<1> QED
  BY <1>1, <1>2, <1>3, <1>4 DEF Shapes

\* What a round that has proposed keeps.
LEMMA ProposedKept ==
    ASSUME Step, NEW r \in Rounds, Proposed(r)
    PROVE  /\ Proposed(r)' /\ rounds'[r].transition = rounds[r].transition
           /\ TermOf(r)' = TermOf(r) /\ Outgoing(r)' = Outgoing(r) /\ Leader(r)' = Leader(r)
           /\ rounds'[r].rev = rounds[r].rev
           /\ rounds[r].phase = "promoting" => rounds'[r].phase = "promoting"
           /\ durable[TermOf(r)] # 0 => durable'[TermOf(r)] # 0
<1>1. Started(r)
  BY DEF Proposed, Started
<1>2. /\ Proposed(r)' /\ rounds'[r].transition = rounds[r].transition
      /\ rounds'[r].rev = rounds[r].rev
      /\ rounds[r].phase = "promoting" => rounds'[r].phase = "promoting"
  BY <1>1 DEF Step, ProposalsKept, RoundsGrow
<1>3. TermOf(r)' = TermOf(r) /\ Outgoing(r)' = Outgoing(r) /\ Leader(r)' = Leader(r)
  BY <1>2 DEF TermOf, Outgoing, Leader
<1>4. durable[TermOf(r)] # 0 => durable'[TermOf(r)] # 0
  <2>1. TermOf(r) \in Terms
    BY ProposedParts DEF Step, WalInv
  <2>2. PICK t \in Terms : t = TermOf(r)
    BY <2>1
  <2>3. durable[t] \in Nat /\ durable'[t] \in Nat /\ durable[t] <= durable'[t]
    BY DEF Step, Ground, TypeOK, ReleaseEffect, DurableEffect
  <2> QED
    BY <2>2, <2>3
<1> QED
  BY <1>2, <1>3, <1>4

\* Positions stay legitimate, records written as they were.
LEMMA LegitKept ==
    ASSUME Step
    PROVE  /\ \A pos : Legit(pos) => Legit(pos)'
           /\ \A x : Written(x) => Written(x)'
           /\ \A entry : Told(entry) => Told(entry)'
<1>1. ASSUME NEW pos, Legit(pos) PROVE Legit(pos)'
  <2>1. CASE pos = Decided(InitialRule)
    BY <2>1 DEF Legit
  <2>2. ASSUME NEW r \in Rounds, Proposed(r),
               \/ pos = rounds[r].transition
               \/ pos = Decided(rounds[r].transition.decision)
               \/ pos = Decided(rounds[r].transition.proposal) /\ durable[TermOf(r)] # 0
        PROVE  Legit(pos)'
    BY <2>2, ProposedKept DEF Legit
  <2> QED
    BY <1>1, <2>1, <2>2 DEF Legit
<1>2. ASSUME NEW x, Written(x) PROVE Written(x)'
  <2>1. CASE x.by = FirstTerm /\ x.pos = Decided(InitialRule)
    BY <2>1 DEF Written
  <2>2. ASSUME NEW r \in Rounds, WrittenIn(x, r) PROVE Written(x)'
    <3>1. Proposed(r)
      BY <2>2 DEF WrittenIn, Proposed
    <3>2. WrittenIn(x, r)'
      BY <2>2, <3>1, ProposedKept DEF WrittenIn
    <3> QED
      BY <3>2 DEF Written
  <2> QED
    BY <1>2, <2>1, <2>2 DEF Written
<1>3. ASSUME NEW entry, Told(entry) PROVE Told(entry)'
  BY <1>1, <1>3 DEF Told
<1> QED
  BY <1>1, <1>2, <1>3

-----------------------------------------------------------------------------
(* A step copies records that are there, or appends one.                   *)

\* What q holds after the step is the beginning of what c held before.
CopyOf(q, c) ==
    Lsn(q)' <= Lsn(c) /\ \A i \in 1..Lsn(q)' : wal'[q][i] = wal[c][i]

\* No record is written; whoever is a primary has been one with the same WAL.
Copies ==
    \A q \in Poolers :
        /\ \E c \in Poolers : CopyOf(q, c)
        /\ prim'[q] # 0 => wal'[q] = wal[q] /\ prim'[q] = prim[q] /\ rev'[q] = rev[q]

\* p, a primary now, writes x.
Appends(p, x) ==
    /\ Lsn(p)' = Lsn(p) + 1
    /\ \A i \in 1..Lsn(p) : wal'[p][i] = wal[p][i]
    /\ wal'[p][Lsn(p) + 1] = x
    /\ prim'[p] = x.by /\ x.by # 0
    /\ rev'[p] = rev[p]
    /\ OthersIdle(p)

\* The timeline switch of a promotion.
Switches(r, p, x) ==
    /\ PromoteStep(r) /\ Proposed(r) /\ p = Leader(r)
    /\ Appends(p, x)
    /\ x = [by |-> TermOf(r), kind |-> "switch", pos |-> LastPos(p)]
    /\ PossiblyUndecidedRule(LastPos(p)).num = Outgoing(r)
    /\ op'[p] = [phase |-> IF ~IsRuleDecided(LastPos(p)) THEN "confirm" ELSE "propose",
                 round |-> r, rule |-> rounds[r].transition.proposal, await |-> 0]
    /\ rounds'[r].phase = "promoting"
    /\ rev[p] = rounds[r].rev

\* A rule write or a client's.
Writes(p, x) ==
    /\ Appends(p, x)
    /\ x = [by |-> prim[p], kind |-> x.kind, pos |-> x.pos] /\ prim'[p] = prim[p]
    /\ WriteOf(p, x.kind, x.pos)
    /\ rounds' = rounds

\* Appending, by indexes.
LEMMA AppendParts ==
    ASSUME TypeOK, NEW p \in Poolers, NEW x, wal'[p] = Append(wal[p], x)
    PROVE  /\ Lsn(p)' = Lsn(p) + 1
           /\ \A i \in 1..Lsn(p) : wal'[p][i] = wal[p][i]
           /\ wal'[p][Lsn(p) + 1] = x
<1>1. PICK w : w = wal[p]
  OBVIOUS
<1>2. w \in Seq(RecordType)
  BY <1>1, WalTypes
<1>3. \E T : w \in Seq(T) /\ x \in T
  <2>1. w \in Seq(RecordType \cup {x})
    BY <1>2, SeqDef
  <2> QED
    BY <2>1
<1>4. PICK T : w \in Seq(T) /\ x \in T
  BY <1>3
<1>5. /\ Len(Append(w, x)) = Len(w) + 1
      /\ \A i \in 1..Len(w) : Append(w, x)[i] = w[i]
      /\ Append(w, x)[Len(w) + 1] = x
  BY <1>4, AppendProperties
<1> QED
  BY <1>1, <1>5 DEF Lsn

\* A pooler whose WAL does not grow holds a copy of what it held.
LEMMA CopyOfOwn ==
    ASSUME TypeOK, NEW q \in Poolers,
           wal'[q] = wal[q] \/ \E n \in 1..Lsn(q) : wal'[q] = SubSeq(wal[q], 1, n)
    PROVE  CopyOf(q, q)
<1>1. wal[q] \in Seq(RecordType) /\ Lsn(q) \in Nat
  BY WalTypes
<1>2. CASE wal'[q] = wal[q]
  BY <1>1, <1>2 DEF CopyOf, Lsn
<1>3. ASSUME NEW n \in 1..Lsn(q), wal'[q] = SubSeq(wal[q], 1, n) PROVE CopyOf(q, q)
  <2>1. Len(wal'[q]) = n /\ \A i \in 1..n : wal'[q][i] = wal[q][i]
    BY <1>1, <1>3, SubSeqProperties DEF Lsn
  <2> QED
    BY <1>1, <1>3, <2>1 DEF CopyOf, Lsn
<1> QED
  BY <1>2, <1>3

\* A prefix, by indexes.
LEMMA PrefixParts ==
    ASSUME TypeOK, NEW s \in Poolers, NEW c \in Poolers, IsPrefix(wal[s], wal[c])
    PROVE  /\ Lsn(s) <= Lsn(c)
           /\ \A i \in 1..Lsn(s) : wal[s][i] = wal[c][i]
<1>1. /\ wal[s] \in Seq(RecordType) /\ Lsn(s) \in Nat
      /\ wal[c] \in Seq(RecordType) /\ Lsn(c) \in Nat
  BY WalTypes
<1>2. Lsn(s) <= Lsn(c) /\ SubSeq(wal[s], 1, Lsn(s)) = SubSeq(wal[c], 1, Lsn(s))
  BY DEF IsPrefix, Lsn
<1>3. \A i \in 1..Lsn(s) : SubSeq(wal[s], 1, Lsn(s))[i] = wal[s][i]
  BY <1>1, SubSeqProperties DEF Lsn
<1>4. \A i \in 1..Lsn(s) : SubSeq(wal[c], 1, Lsn(s))[i] = wal[c][i]
  BY <1>1, <1>2, SubSeqProperties DEF Lsn
<1> QED
  BY <1>2, <1>3, <1>4

\* A standby that takes a record holds a copy of what its source held.
LEMMA StreamCopies ==
    ASSUME TypeOK, NEW s \in Poolers, StreamStep(s)
    PROVE  conn[s] \in Poolers /\ CopyOf(s, conn[s]) /\ Lsn(s)' = Lsn(s) + 1
<1>1. PICK c \in Poolers : c = conn[s]
  BY DEF StreamStep, TypeOK
<1>2. /\ wal[s] \in Seq(RecordType) /\ Lsn(s) \in Nat
      /\ wal[c] \in Seq(RecordType) /\ Lsn(c) \in Nat
  BY WalTypes
<1>3. IsPrefix(wal[s], wal[c]) /\ wal[s] # wal[c]
  BY <1>1 DEF StreamStep, IsStrictPrefix
<1>4. Lsn(s) <= Lsn(c) /\ \A i \in 1..Lsn(s) : wal[s][i] = wal[c][i]
  BY <1>3, PrefixParts
<1>5. Lsn(s) < Lsn(c)
  <2>1. /\ SubSeq(wal[s], 1, Lsn(s)) = SubSeq(wal[c], 1, Lsn(s))
        /\ SubSeq(wal[s], 1, Lsn(s)) = wal[s] /\ SubSeq(wal[c], 1, Lsn(c)) = wal[c]
    BY <1>2, <1>3, SubSeqFull DEF IsPrefix, Lsn
  <2>2. Lsn(s) # Lsn(c)
    <3>1. ASSUME Lsn(s) = Lsn(c) PROVE wal[s] = wal[c]
      BY <2>1, <3>1
    <3> QED
      BY <1>3, <3>1
  <2> QED
    BY <1>2, <1>4, <2>2
<1>6. /\ Lsn(s)' = Lsn(s) + 1
      /\ \A i \in 1..Lsn(s) : wal'[s][i] = wal[s][i]
      /\ wal'[s][Lsn(s) + 1] = wal[c][Lsn(s) + 1]
  BY <1>1, AppendParts DEF StreamStep
<1>7. ASSUME NEW i \in 1..Lsn(s)' PROVE wal'[s][i] = wal[c][i]
  <2>1. i = Lsn(s) + 1 \/ i \in 1..Lsn(s)
    BY <1>2, <1>6
  <2> QED
    BY <1>4, <1>6, <2>1
<1> QED
  BY <1>1, <1>2, <1>5, <1>6, <1>7 DEF CopyOf

\* A promotion that goes through appends a timeline switch.
LEMMA PromoteAppends ==
    ASSUME Ground, HistoryInv, WalInv, NEW r \in Rounds, PromoteStep(r)
    PROVE  Copies \/ \E p \in Poolers : \E x : Switches(r, p, x)
<1>1. Proposed(r) /\ rounds'[r].phase = "promoting"
  BY PromoteRounds
<1>2. PICK p \in Poolers : p = Leader(r)
  BY <1>1, ProposedParts DEF WalInv
<1>3. /\ ValidateRevocation(LastPos(p), FloorOutstanding(p, LastPos(p)), rev[p], rounds[r].rev)
      /\ rev[p].term = TermOf(r)
      /\ OthersIdle(p) /\ rev'[p] = rev[p] /\ prim[p] = 0
      /\ \/ /\ PossiblyUndecidedRule(LastPos(p)).num = Outgoing(r)
            /\ prim'[p] = TermOf(r)
            /\ wal'[p] = Append(wal[p], [by |-> TermOf(r), kind |-> "switch", pos |-> LastPos(p)])
            /\ op'[p] = [phase |-> IF ~IsRuleDecided(LastPos(p)) THEN "confirm" ELSE "propose",
                         round |-> r, rule |-> rounds[r].transition.proposal, await |-> 0]
         \/ wal'[p] = wal[p] /\ prim'[p] = prim[p] /\ op'[p] = op[p]
  BY <1>2 DEF PromoteStep
<1>4. TermOf(r) # 0
  <2>1. TermOf(r) \in Nat /\ FirstTerm < TermOf(r)
    BY <1>1, ProposedParts DEF WalInv
  <2> QED
    BY <2>1, FirstTermType
<1>5. CASE wal'[p] = wal[p] /\ prim'[p] = prim[p] /\ op'[p] = op[p]
  <2>1. \A q \in Poolers : wal'[q] = wal[q] /\ prim'[q] = prim[q] /\ rev'[q] = rev[q]
    BY <1>3, <1>5 DEF OthersIdle, Idle
  <2> QED
    BY <2>1, CopyOfOwn DEF Copies, Ground
<1>6. CASE /\ PossiblyUndecidedRule(LastPos(p)).num = Outgoing(r)
           /\ prim'[p] = TermOf(r)
           /\ wal'[p] = Append(wal[p], [by |-> TermOf(r), kind |-> "switch", pos |-> LastPos(p)])
           /\ op'[p] = [phase |-> IF ~IsRuleDecided(LastPos(p)) THEN "confirm" ELSE "propose",
                        round |-> r, rule |-> rounds[r].transition.proposal, await |-> 0]
  <2>1. rev[p] = rounds[r].rev
    <3>1. Started(r) /\ rounds[r].rev.at = r
      BY <1>1 DEF Proposed, Started, Ground, PromiseInv, RoundAuthored
    <3>2. rev[p].at = r
      BY <1>3, <1>4, <3>1 DEF ValidateRevocation, TermOf
    <3>3. rev[p] # NoRevocation
      BY <1>3, <1>4 DEF NoRevocation
    <3>4. PICK q \in Rounds : rounds[q].phase # "idle" /\ rev[p] = rounds[q].rev
      BY <3>3 DEF Ground, PromiseInv, PromiseOfRound
    <3>5. rounds[q].rev.at = q
      BY <3>4 DEF Ground, PromiseInv, RoundAuthored
    <3> QED
      BY <3>2, <3>4, <3>5
  <2>2. PICK x : x = [by |-> TermOf(r), kind |-> "switch", pos |-> LastPos(p)]
    OBVIOUS
  <2>3. x.by = TermOf(r)
    BY <2>2
  <2>4. Appends(p, x)
    BY <1>3, <1>4, <1>6, <2>2, <2>3, AppendParts DEF Appends, Ground
  <2> QED
    BY <1>1, <1>2, <1>6, <2>1, <2>2, <2>4 DEF Switches
<1> QED
  BY <1>3, <1>5, <1>6

\* A local step copies, or appends what a primary writes.
LEMMA LocalAppends ==
    ASSUME Ground, HistoryInv, WalInv, NEW p \in Poolers, LocalStep(p)
    PROVE  Copies \/ \E x : Writes(p, x)
<1>1. OthersIdle(p) /\ rev'[p] = rev[p] /\ rounds' = rounds
  BY DEF LocalStep
<1>2. \A q \in Poolers : q # p => /\ wal'[q] = wal[q] /\ prim'[q] = prim[q] /\ rev'[q] = rev[q]
                                  /\ CopyOf(q, q)
  BY <1>1, CopyOfOwn DEF OthersIdle, Idle, Ground
<1>3. ASSUME NEW c \in Poolers, CopyOf(p, c),
             prim'[p] # 0 => wal'[p] = wal[p] /\ prim'[p] = prim[p]
      PROVE  Copies
  BY <1>1, <1>2, <1>3 DEF Copies
<1>4. CASE WriteStep(p)
  <2>1. PICK kind, pos : /\ wal'[p] = Append(wal[p], [by |-> prim[p], kind |-> kind, pos |-> pos])
                         /\ WriteOf(p, kind, pos)
    BY <1>4 DEF WriteStep
  <2>2. PICK x : x = [by |-> prim[p], kind |-> kind, pos |-> pos]
    OBVIOUS
  <2>3. x.by = prim[p] /\ x.kind = kind /\ x.pos = pos
    BY <2>2
  <2>4. Appends(p, x)
    BY <1>1, <1>4, <2>1, <2>2, <2>3, AppendParts DEF Appends, Ground, WriteStep
  <2> QED
    BY <1>1, <1>4, <2>1, <2>2, <2>3, <2>4 DEF Writes, WriteStep
<1>5. CASE StreamStep(p)
  <2>1. conn[p] \in Poolers /\ CopyOf(p, conn[p])
    BY <1>5, StreamCopies DEF Ground
  <2>2. prim'[p] = 0
    <3>1. conn[p] # None /\ prim'[p] = prim[p]
      BY <1>5 DEF StreamStep
    <3> QED
      BY <3>1 DEF HistoryInv, HistoryOf, OperationOwnsWal
  <2> QED
    BY <1>3, <2>1, <2>2
<1>6. CASE RewindStep(p)
  <2>1. CopyOf(p, p) /\ prim'[p] = 0
    BY <1>6, CopyOfOwn DEF RewindStep, Ground
  <2> QED
    BY <1>3, <2>1
<1>7. CASE QuietStep(p)
  <2>1. CopyOf(p, p) /\ wal'[p] = wal[p] /\ (prim'[p] = prim[p] \/ prim'[p] = 0)
    BY <1>7, CopyOfOwn DEF QuietStep, Ground
  <2> QED
    BY <1>3, <2>1
<1> QED
  BY <1>4, <1>5, <1>6, <1>7 DEF LocalStep

\* Every step does one or the other.
LEMMA StepAppends ==
    ASSUME Step
    PROVE  \/ Copies
           \/ \E r \in Rounds, p \in Poolers : \E x : Switches(r, p, x)
           \/ \E p \in Poolers : \E x : Writes(p, x)
<1>1. ASSUME NEW r \in Rounds, StartStep(r) PROVE Copies
  BY <1>1, CopyOfOwn DEF StartStep, Idle, Copies, Step, Ground
<1>2. ASSUME NEW r \in Rounds, NEW p \in Poolers, JoinStep(r, p) PROVE Copies
  <2>1. /\ \A q \in Poolers : wal'[q] = wal[q] /\ CopyOf(q, q)
        /\ \A q \in Poolers : q # p => prim'[q] = prim[q] /\ rev'[q] = rev[q]
        /\ prim'[p] = 0
    BY <1>2, CopyOfOwn DEF JoinStep, OthersIdle, Idle, Step, Ground
  <2> QED
    BY <2>1 DEF Copies
<1> QED
  BY <1>1, <1>2, PromoteAppends, LocalAppends DEF Step, Shapes

-----------------------------------------------------------------------------
(* What is written, and where.                                             *)

\* The record of a term tells the round.
LEMMA WrittenBy ==
    ASSUME Ground, ElectionInv, NEW x, Written(x)
    PROVE  /\ x.by = FirstTerm => x.pos = Decided(InitialRule)
           /\ \A r \in Rounds : Proposed(r) /\ x.by = TermOf(r) => WrittenIn(x, r)
           /\ x.by # FirstTerm => \E r \in Rounds : WrittenIn(x, r)
           /\ x.by >= FirstTerm
<1>1. ASSUME NEW q \in Rounds, WrittenIn(x, q)
      PROVE  /\ x.by > FirstTerm /\ x.by \in Nat
             /\ \A r \in Rounds : Proposed(r) /\ x.by = TermOf(r) => r = q
  <2>1. Proposed(q) /\ x.by = TermOf(q)
    BY <1>1 DEF WrittenIn, Proposed
  <2>2. TermOf(q) \in Nat /\ FirstTerm < TermOf(q)
    BY <2>1, ProposedParts
  <2>3. \A r \in Rounds : Proposed(r) /\ x.by = TermOf(r) => r = q
    BY <2>1, ProposalsOrdered DEF Ground, ElectionInv
  <2> QED
    BY <2>1, <2>2, <2>3, FirstTermType
<1>2. ASSUME NEW r \in Rounds, Proposed(r), x.by = TermOf(r), x.by = FirstTerm PROVE FALSE
  <2>1. TermOf(r) \in Nat /\ FirstTerm < TermOf(r)
    BY <1>2, ProposedParts
  <2> QED
    BY <1>2, <2>1, FirstTermType
<1>3. CASE x.by = FirstTerm /\ x.pos = Decided(InitialRule)
  BY <1>2, <1>3, FirstTermType
<1>4. ASSUME NEW q \in Rounds, WrittenIn(x, q)
      PROVE  x.by > FirstTerm /\ x.by \in Nat /\ x.by # FirstTerm
             /\ \A r \in Rounds : Proposed(r) /\ x.by = TermOf(r) => WrittenIn(x, r)
  BY <1>1, <1>4, FirstTermType
<1> QED
  BY <1>3, <1>4, FirstTermType DEF Written

\* The last record of a WAL, by its index.
LEMMA LastRecord ==
    ASSUME Ground, WalInv, NEW p \in Poolers
    PROVE  /\ Lsn(p) \in Nat \ {0} /\ Lsn(p) \in 1..Lsn(p)
           /\ LastPos(p) = wal[p][Lsn(p)].pos
           /\ Legit(LastPos(p)) /\ ProperPosition(LastPos(p)) /\ LastPos(p) \in PositionType
           /\ KnownRule(PossiblyUndecidedRule(LastPos(p)))
<1>1. Lsn(p) \in Nat \ {0} /\ Lsn(p) \in 1..Lsn(p)
  BY WalTypes DEF Ground
<1>2. LastPos(p) = wal[p][Lsn(p)].pos
  BY DEF LastPos, Last, Lsn
<1>3. Legit(LastPos(p))
  BY <1>1, <1>2 DEF WalInv, WalLegit
<1> QED
  BY <1>1, <1>2, <1>3, LegitParts DEF WalInv, ProperPosition

\* A primary's last record is its own.
LEMMA OwnLast ==
    ASSUME Ground, WalInv, NEW p \in Poolers, prim[p] # 0
    PROVE  /\ prim[p] = FirstTerm => LastPos(p) = Decided(InitialRule)
           /\ \A r \in Rounds : Proposed(r) /\ prim[p] = TermOf(r) => WrittenIn(wal[p][Lsn(p)], r)
<1>1. Lsn(p) \in 1..Lsn(p) /\ LastPos(p) = wal[p][Lsn(p)].pos
  BY LastRecord
<1>2. wal[p][Lsn(p)].by = prim[p] /\ Written(wal[p][Lsn(p)])
  BY <1>1 DEF WalInv, Owners, Owner, WalWritten
<1> QED
  BY <1>1, <1>2, WrittenBy DEF WalInv

\* There is one primary of a term.
LEMMA PrimUnique ==
    ASSUME Ground, WalInv, NEW p \in Poolers, NEW q \in Poolers, prim[p] # 0, prim[p] = prim[q]
    PROVE  p = q
<1>1. ASSUME NEW r \in Rounds, NEW o \in Poolers, PromotedIn(o, r) PROVE Proposed(r) /\ prim[o] # FirstTerm
  <2>1. Proposed(r) /\ prim[o] = TermOf(r)
    BY <1>1 DEF PromotedIn, Proposed
  <2>2. TermOf(r) \in Nat /\ FirstTerm < TermOf(r)
    BY <2>1, ProposedParts DEF WalInv
  <2> QED
    BY <2>1, <2>2, FirstTermType
<1>2. PrimInv(p) /\ PrimInv(q) /\ prim[q] # 0
  BY DEF WalInv, PrimInvs
<1>3. CASE prim[p] = FirstTerm
  BY <1>1, <1>2, <1>3 DEF PrimInv
<1>4. CASE prim[p] # FirstTerm
  <2>1. PICK r \in Rounds : PromotedIn(p, r)
    BY <1>2, <1>4 DEF PrimInv
  <2>2. PICK s \in Rounds : PromotedIn(q, s)
    BY <1>2, <1>4 DEF PrimInv
  <2>3. Proposed(r) /\ Proposed(s) /\ TermOf(r) = TermOf(s)
    BY <1>1, <2>1, <2>2 DEF PromotedIn
  <2>4. r = s
    BY <2>3, ProposalsOrdered DEF Ground, WalInv, ElectionInv
  <2> QED
    BY <2>1, <2>2, <2>4 DEF PromotedIn
<1> QED
  BY <1>3, <1>4

\* A position that leads to the rule a round replaces is below its proposal.
LEMMA BelowProposal ==
    ASSUME Ground, ElectionInv, NEW r \in Rounds, Proposed(r), NEW pos, ProperPosition(pos)
    PROVE  /\ PosNotAbove(rounds[r].transition, Decided(rounds[r].transition.proposal))
           /\ PosNotAbove(Decided(rounds[r].transition.decision), rounds[r].transition)
           /\ PossiblyUndecidedRule(pos) = rounds[r].transition.decision =>
                /\ PosNotAbove(pos, Decided(rounds[r].transition.decision))
                /\ PosNotAbove(pos, rounds[r].transition)
                /\ PosNotAbove(pos, Decided(rounds[r].transition.proposal))
<1>1. PICK tr, d, o : tr = rounds[r].transition /\ d = tr.decision /\ o = tr.proposal
  OBVIOUS
<1>2. /\ tr \in PositionType /\ KnownRule(d) /\ KnownRule(o)
      /\ d.num = Outgoing(r)
      /\ o.num = [term |-> TermOf(r), subterm |-> 0]
      /\ TermOf(r) \in Nat /\ Outgoing(r) \in RuleNumber /\ Outgoing(r).term \in Nat
      /\ Outgoing(r).term < TermOf(r)
  BY <1>1, ProposedParts
<1>3. o.num.term = TermOf(r) /\ o.num \in RuleNumber /\ d.num \in RuleNumber
  BY <1>2 DEF RuleNumber
<1>4. /\ Decided(d) \in PositionType /\ Decided(o) \in PositionType
      /\ Decided(d).decision = d /\ Decided(o).decision = o
      /\ Decided(d).proposal.num = NoNumber /\ Decided(o).proposal.num = NoNumber
  BY <1>2, DecidedParts DEF Ground, AgreementInv
<1>5. ~NotAbove(o.num, d.num)
  BY <1>2, <1>3, NumberOrder
<1>6. PosNotAbove(tr, Decided(o))
  BY <1>1, <1>2, <1>4, <1>5, PositionOrder
<1>7. PosNotAbove(Decided(d), tr)
  <2>1. NotAbove(NoNumber, o.num)
    BY <1>2 DEF NotAbove, CompareRuleNumbers, NoNumber
  <2> QED
    BY <1>1, <1>2, <1>4, <2>1, PositionOrder
<1>8. ASSUME PossiblyUndecidedRule(pos) = d PROVE PosNotAbove(pos, Decided(d))
  <2>1. CASE IsRuleDecided(pos)
    <3>1. pos = Decided(d)
      BY <1>8, <2>1 DEF ProperPosition, PossiblyUndecidedRule
    <3> QED
      BY <1>4, <3>1, PositionOrder
  <2>2. CASE ~IsRuleDecided(pos)
    <3>1. pos.proposal = d /\ pos.decision.num.term < d.num.term /\ pos \in PositionType
      BY <1>8, <2>2 DEF ProperPosition, PossiblyUndecidedRule
    <3>2. pos.decision.num \in RuleNumber
      BY <3>1, PositionNumbers
    <3>3. ~NotAbove(d.num, pos.decision.num)
      BY <1>3, <3>1, <3>2, NumberOrder
    <3> QED
      BY <1>4, <3>1, <3>3, PositionOrder
  <2> QED
    BY <2>1, <2>2
<1>9. pos \in PositionType
  BY DEF ProperPosition
<1>10. ASSUME PosNotAbove(pos, Decided(d)) PROVE PosNotAbove(pos, tr) /\ PosNotAbove(pos, Decided(o))
  <2>1. PosNotAbove(pos, tr)
    BY <1>2, <1>4, <1>7, <1>9, <1>10, PositionOrder
  <2> QED
    BY <1>2, <1>4, <1>6, <1>9, <2>1, PositionOrder
<1> QED
  BY <1>1, <1>6, <1>7, <1>8, <1>10

\* What the leader of a round writes is not above its decision.
LEMMA WrittenBelow ==
    ASSUME Ground, ElectionInv, NEW r \in Rounds, NEW x, WrittenIn(x, r), ProperPosition(x.pos)
    PROVE  /\ Proposed(r)
           /\ PosNotAbove(x.pos, Decided(rounds[r].transition.proposal))
<1>1. Proposed(r)
  BY DEF WrittenIn, Proposed
<1>2. Decided(rounds[r].transition.proposal) \in PositionType
  BY <1>1, ProposedParts, DecidedParts DEF Ground, AgreementInv
<1>3. PosNotAbove(Decided(rounds[r].transition.proposal), Decided(rounds[r].transition.proposal))
  BY <1>2, PositionOrder
<1> QED
  BY <1>1, <1>3, BelowProposal DEF WrittenIn

\* A promotion's timeline switch.
LEMMA SwitchRecord ==
    ASSUME Step, NEW r \in Rounds, NEW p \in Poolers, NEW x, Switches(r, p, x)
    PROVE  /\ PossiblyUndecidedRule(LastPos(p)) = rounds[r].transition.decision
           /\ ~IsRuleDecided(LastPos(p)) => LastPos(p).proposal = rounds[r].transition.decision
           /\ IsRuleDecided(LastPos(p)) => LastPos(p) = Decided(rounds[r].transition.decision)
           /\ x.by = TermOf(r) /\ x.kind = "switch" /\ x.pos = LastPos(p)
           /\ Legit(x.pos)' /\ Written(x)' /\ PosNotAbove(LastPos(p), x.pos)
<1>1. /\ Proposed(r) /\ x.by = TermOf(r) /\ x.kind = "switch" /\ x.pos = LastPos(p)
      /\ rounds'[r].phase = "promoting"
  BY DEF Switches
<1>2. /\ Legit(LastPos(p)) /\ ProperPosition(LastPos(p)) /\ LastPos(p) \in PositionType
      /\ KnownRule(PossiblyUndecidedRule(LastPos(p)))
  BY LastRecord DEF Step
<1>3. PossiblyUndecidedRule(LastPos(p)) = rounds[r].transition.decision
  <2>1. PICK d : d = rounds[r].transition.decision
    OBVIOUS
  <2>2. KnownRule(d) /\ d.num = Outgoing(r)
    BY <1>1, <2>1, ProposedParts DEF Step, WalInv
  <2>3. PossiblyUndecidedRule(LastPos(p)).num = d.num
    BY <2>2 DEF Switches
  <2> QED
    BY <1>2, <2>1, <2>2, <2>3, RuleByNumber DEF Step, Ground
<1>4. /\ ~IsRuleDecided(LastPos(p)) => LastPos(p).proposal = rounds[r].transition.decision
      /\ IsRuleDecided(LastPos(p)) => LastPos(p) = Decided(rounds[r].transition.decision)
  BY <1>2, <1>3 DEF PossiblyUndecidedRule, ProperPosition
<1>5. Legit(x.pos)'
  <2>1. PICK pos : pos = LastPos(p)
    OBVIOUS
  <2>2. Legit(pos)'
    BY <1>2, <2>1, LegitKept
  <2> QED
    BY <1>1, <2>1, <2>2
<1>6. Written(x)'
  <2>1. TermOf(r)' = TermOf(r) /\ rounds'[r].transition = rounds[r].transition
    BY <1>1, ProposedKept
  <2>2. WrittenIn(x, r)'
    BY <1>1, <1>3, <2>1 DEF WrittenIn
  <2> QED
    BY <2>2 DEF Written
<1>7. PosNotAbove(LastPos(p), x.pos)
  BY <1>1, <1>2, PositionOrder
<1> QED
  BY <1>1, <1>3, <1>4, <1>5, <1>6, <1>7

\* Clients write to a leader only once its own rule is written: while its WAL
\* ends in the rule it replaces, its promise revokes the position it sees.
LEMMA ActiveAfterProposal ==
    ASSUME Ground, WalInv, NEW p \in Poolers, NEW r \in Rounds, PromotedIn(p, r), IsActiveLeader(p)
    PROVE  PossiblyUndecidedRule(LastPos(p)) # rounds[r].transition.decision
<1> SUFFICES ASSUME PossiblyUndecidedRule(LastPos(p)) = rounds[r].transition.decision
             PROVE  FALSE
  OBVIOUS
<1>1. Proposed(r)
  BY DEF PromotedIn, Proposed
<1>2. PICK d : d = rounds[r].transition.decision
  OBVIOUS
<1>3. /\ KnownRule(d) /\ d.num = Outgoing(r) /\ d.num \in RuleNumber /\ d.num.term \in Nat
      /\ d.num.term < TermOf(r) /\ TermOf(r) \in Nat /\ TermOf(r) # 0
  <2>1. /\ KnownRule(d) /\ d.num = Outgoing(r) /\ Outgoing(r) \in RuleNumber /\ Outgoing(r).term \in Nat
        /\ Outgoing(r).term < TermOf(r) /\ TermOf(r) \in Nat /\ FirstTerm < TermOf(r)
    BY <1>1, <1>2, ProposedParts DEF WalInv
  <2> QED
    BY <2>1, FirstTermType
<1>4. PosNotAbove(LastPos(p), Decided(d)) /\ Decided(d) \in PositionType /\ Decided(d).decision = d
      /\ Decided(d).proposal.num = NoNumber
  BY <1>1, <1>2, <1>3, LastRecord, BelowProposal, DecidedParts DEF WalInv, Ground, AgreementInv
<1>5. PosNotAbove(Visible(p), LastPos(p)) /\ Visible(p) \in PositionType /\ LastPos(p) \in PositionType
  <2>1. /\ VisibleLsn(p) \in 1..Lsn(p) /\ Lsn(p) \in 1..Lsn(p)
        /\ Visible(p) \in PositionType
    BY WalTypes, LastRecord DEF Ground
  <2>2. VisibleLsn(p) <= Lsn(p)
    BY <2>1, LastRecord
  <2> QED
    BY <2>1, <2>2, LastRecord DEF WalInv, WalMonotone, Visible
<1>6. PosNotAbove(Visible(p), Decided(d))
  BY <1>4, <1>5, PositionOrder
<1>7. PICK v, n : v = Visible(p).decision.num /\ n = Visible(p).proposal.num
  OBVIOUS
<1>8. v \in RuleNumber /\ n \in RuleNumber /\ v.term \in Nat /\ n.term \in Nat
  BY <1>5, <1>7, PositionNumbers
<1>9. ~NotAbove(d.num, v) \/ (v = d.num /\ NotAbove(n, NoNumber))
  BY <1>4, <1>5, <1>6, <1>7, PositionOrder
<1>10. v.term < TermOf(r)
  BY <1>3, <1>8, <1>9, NumberOrder
<1>11. CompareRuleNumbers(v, d.num) < 0 \/ (CompareRuleNumbers(v, d.num) = 0 /\ n.term < TermOf(r))
  <2>1. CASE ~NotAbove(d.num, v)
    BY <1>3, <1>8, <2>1, NumberOrder
  <2>2. CASE v = d.num /\ NotAbove(n, NoNumber)
    <3>1. n.term <= NoNumber.term
      BY <1>8, <2>2 DEF NotAbove, CompareRuleNumbers, NoNumber
    <3>2. n.term = 0
      BY <1>8, <3>1 DEF NoNumber
    <3> QED
      BY <1>3, <1>8, <2>2, <3>2, NumberOrder
  <2> QED
    BY <1>9, <2>1, <2>2
<1>12. ~RuleNumberIsUnset(d.num)
  BY <1>3, KnownNumbers DEF Ground, AgreementInv
<1>13. rev[p].term = TermOf(r) /\ rev[p].outgoing = d.num
  BY <1>3 DEF PromotedIn, TermOf, Outgoing
<1>14. IsRuleRevoked(Visible(p), rev[p])
  BY <1>3, <1>7, <1>10, <1>11, <1>12, <1>13 DEF IsRuleRevoked
<1> QED
  BY <1>14 DEF IsActiveLeader

\* A proposal's position leads to it.
LEMMA TransitionParts ==
    ASSUME Ground, ElectionInv, NEW r \in Rounds, Proposed(r)
    PROVE  /\ ~IsRuleDecided(rounds[r].transition)
           /\ PossiblyUndecidedRule(rounds[r].transition) = rounds[r].transition.proposal
           /\ rounds[r].transition = [decision |-> rounds[r].transition.decision,
                                      proposal |-> rounds[r].transition.proposal]
           /\ rounds[r].transition.proposal.num.term = TermOf(r)
<1>1. /\ rounds[r].transition \in PositionType
      /\ rounds[r].transition.proposal.num = [term |-> TermOf(r), subterm |-> 0]
      /\ TermOf(r) \in Nat /\ FirstTerm < TermOf(r)
  BY ProposedParts
<1>2. rounds[r].transition.proposal.num.term = TermOf(r)
  BY <1>1
<1>3. ~IsRuleDecided(rounds[r].transition)
  BY <1>1, <1>2, FirstTermType DEF IsRuleDecided, RuleNumberIsUnset
<1> QED
  BY <1>1, <1>2, <1>3 DEF PossiblyUndecidedRule, PositionType

\* A proposal whose write has been acknowledged is durable.
LEMMA AcknowledgedDurable ==
    ASSUME Ground, WalInv, NEW p \in Poolers, NEW r \in Rounds, Proposed(r),
           prim[p] = TermOf(r), Acknowledged(p), op[p].await \in 1..Lsn(p),
           wal[p][op[p].await] = [by |-> prim[p], kind |-> "rule", pos |-> rounds[r].transition]
    PROVE  durable[TermOf(r)] # 0
<1>1. TermOf(r) \in Terms /\ TermOf(r) \in Nat /\ FirstTerm < TermOf(r)
  BY ProposedParts DEF WalInv
<1>2. prim[p] # 0
  BY <1>1, FirstTermType
<1>3. PICK n : n = op[p].await
  OBVIOUS
<1>4. Lsn(p) \in Nat /\ acked[p] \in Nat /\ VisibleLsn(p) = acked[p] /\ n <= acked[p] /\ n \in 1..Lsn(p)
  BY <1>2, <1>3, LastRecord DEF VisibleLsn, Acknowledged, Ground, TypeOK
<1>5. n \in 1..VisibleLsn(p)
  BY <1>4
<1>6. /\ wal[p][n].by = prim[p] /\ wal[p][n].kind = "rule"
      /\ wal[p][n].pos = rounds[r].transition
  BY <1>3
<1>7. PossiblyUndecidedRule(wal[p][n].pos).num.term = prim[p]
  BY <1>6, TransitionParts DEF WalInv
<1>8. n \in Committed(p)
  BY <1>5, <1>6, <1>7 DEF Committed
<1>9. n <= durable[prim[p]]
  BY <1>2, <1>8 DEF WalInv, ReleasedInv
<1>10. durable[TermOf(r)] \in Nat
  BY <1>1 DEF Ground, TypeOK
<1> QED
  BY <1>4, <1>9, <1>10

\* What a primary writes is a position there is, no lower than the last one; the
\* operation in progress has got as far as what it has written.
LEMMA WriteRecord ==
    ASSUME Step, NEW p \in Poolers, NEW x, Writes(p, x)
    PROVE  /\ Legit(x.pos)' /\ Written(x)' /\ PosNotAbove(LastPos(p), x.pos)
           /\ OpInv(p)'
<1>1. /\ x.by = prim[p] /\ prim'[p] = prim[p] /\ prim[p] # 0
      /\ x = [by |-> prim[p], kind |-> x.kind, pos |-> x.pos]
      /\ rounds' = rounds
      /\ Lsn(p)' = Lsn(p) + 1
      /\ \A i \in 1..Lsn(p) : wal'[p][i] = wal[p][i]
      /\ wal'[p][Lsn(p)'] = x
  BY DEF Writes, Appends
<1>2. LastPos(p)' = x.pos
  BY <1>1 DEF LastPos, Last, Lsn
<1>3. /\ Legit(LastPos(p)) /\ ProperPosition(LastPos(p)) /\ LastPos(p) \in PositionType
      /\ Lsn(p) \in Nat \ {0}
  BY LastRecord DEF Step
<1>4. PosNotAbove(LastPos(p), LastPos(p))
  BY <1>3, PositionOrder
<1>5. /\ \A pos : Legit(pos) => Legit(pos)'
      /\ \A y : Written(y) => Written(y)'
  BY LegitKept
<1>6. ASSUME NEW pos, x.pos = pos, Legit(pos)' PROVE Legit(x.pos)'
  BY <1>6
<1>7. CASE op'[p] = op[p] /\ x.kind = "data" /\ x.pos = LastPos(p) /\ IsActiveLeader(p)
  <2>1. Legit(x.pos)'
    <3>1. PICK pos : pos = LastPos(p)
      OBVIOUS
    <3> QED
      BY <1>3, <1>5, <1>6, <1>7, <3>1
  <2>2. Written(x)'
    <3>1. PrimInv(p)
      BY DEF Step, WalInv, PrimInvs
    <3>2. CASE prim[p] = FirstTerm
      <4>1. LastPos(p) = Decided(InitialRule)
        BY <1>1, <3>2, OwnLast DEF Step
      <4> QED
        BY <1>1, <1>7, <3>2, <4>1 DEF Written
    <3>3. CASE prim[p] # FirstTerm
      <4>1. PICK r \in Rounds : PromotedIn(p, r)
        BY <1>1, <3>1, <3>3 DEF PrimInv
      <4>2. Proposed(r) /\ prim[p] = TermOf(r)
        BY <4>1 DEF PromotedIn, Proposed
      <4>3. WrittenIn(wal[p][Lsn(p)], r) /\ LastPos(p) = wal[p][Lsn(p)].pos
        BY <1>1, <4>2, OwnLast, LastRecord DEF Step
      <4>4. PossiblyUndecidedRule(LastPos(p)) # rounds[r].transition.decision
        BY <1>7, <4>1, ActiveAfterProposal DEF Step
      <4>5. WrittenIn(x, r)
        BY <1>1, <1>7, <4>2, <4>3, <4>4 DEF WrittenIn
      <4> QED
        BY <1>5, <4>5 DEF Written
    <3> QED
      BY <3>2, <3>3
  <2>3. OpInv(p)'
    <3>1. SUFFICES ASSUME op[p].phase # "none" PROVE OpInv(p)'
      BY <1>7 DEF OpInv
    <3>2. PICK r \in Rounds :
            /\ rounds[r].phase = "promoting" /\ op[p].rule = rounds[r].transition.proposal
            /\ prim[p] = TermOf(r) /\ p = Leader(r)
            /\ op[p].phase \in {"confirm", "finalize"} =>
                  /\ ~IsRuleDecided(LastPos(p))
                  /\ LastPos(p).proposal = rounds[r].transition.decision
            /\ op[p].phase = "propose" => LastPos(p) = Decided(rounds[r].transition.decision)
            /\ op[p].phase = "decide" =>
                  /\ op[p].await \in 1..Lsn(p)
                  /\ wal[p][op[p].await] =
                       [by |-> prim[p], kind |-> "rule", pos |-> rounds[r].transition]
            /\ op[p].phase = "settle" => durable[TermOf(r)] # 0
      BY <3>1 DEF OpInv, Step, WalInv, OpInvs
    <3>3. Proposed(r)
      BY <3>2 DEF Proposed
    <3>4. TermOf(r)' = TermOf(r) /\ Leader(r)' = Leader(r) /\ (durable[TermOf(r)] # 0 => durable'[TermOf(r)] # 0)
      BY <3>3, ProposedKept
    <3>5. op[p].phase = "decide" =>
                  /\ op[p].await \in 1..Lsn(p)'
                  /\ wal'[p][op[p].await] =
                       [by |-> prim[p], kind |-> "rule", pos |-> rounds[r].transition]
      BY <1>1, <1>3, <3>2
    <3> QED
      BY <1>1, <1>2, <1>7, <3>2, <3>4, <3>5 DEF OpInv
  <2> QED
    BY <1>4, <1>7, <2>1, <2>2, <2>3
<1>8. ASSUME op[p].phase \in {"confirm", "finalize", "propose", "decide"}, op'[p].rule = op[p].rule,
             \/ /\ op[p].phase = "confirm"
                /\ x.kind = "probe" /\ x.pos = LastPos(p) /\ op'[p].phase = "finalize"
             \/ /\ op[p].phase = "finalize"
                /\ x.kind = "rule" /\ x.pos = Decided(LastPos(p).proposal) /\ op'[p].phase = "propose"
             \/ /\ op[p].phase = "propose"
                /\ x.kind = "rule" /\ x.pos = [decision |-> LastPos(p).decision, proposal |-> op[p].rule]
                /\ op'[p].phase = "decide" /\ op'[p].await = Lsn(p) + 1
             \/ /\ op[p].phase = "decide" /\ Acknowledged(p)
                /\ x.kind = "rule" /\ x.pos = Decided(op[p].rule)
                /\ op'[p].phase = "settle"
      PROVE  /\ Legit(x.pos)' /\ Written(x)' /\ PosNotAbove(LastPos(p), x.pos)
             /\ OpInv(p)'
  <2>1. PICK r \in Rounds :
            /\ rounds[r].phase = "promoting" /\ op[p].rule = rounds[r].transition.proposal
            /\ prim[p] = TermOf(r) /\ p = Leader(r)
            /\ op[p].phase \in {"confirm", "finalize"} =>
                  /\ ~IsRuleDecided(LastPos(p))
                  /\ LastPos(p).proposal = rounds[r].transition.decision
            /\ op[p].phase = "propose" => LastPos(p) = Decided(rounds[r].transition.decision)
            /\ op[p].phase = "decide" =>
                  /\ op[p].await \in 1..Lsn(p)
                  /\ wal[p][op[p].await] =
                       [by |-> prim[p], kind |-> "rule", pos |-> rounds[r].transition]
    BY <1>8 DEF OpInv, Step, WalInv, OpInvs
  <2>2. Proposed(r)
    BY <2>1 DEF Proposed
  <2>3. PICK tr, d, o : tr = rounds[r].transition /\ d = tr.decision /\ o = tr.proposal
    OBVIOUS
  <2>4. /\ rounds'[r].transition = tr /\ rounds'[r].phase = "promoting"
        /\ TermOf(r)' = TermOf(r) /\ Leader(r)' = Leader(r)
        /\ durable[TermOf(r)] # 0 => durable'[TermOf(r)] # 0
    BY <1>1, <2>1, <2>2, <2>3, ProposedKept
  <2>5. KnownRule(d) /\ KnownRule(o) /\ tr = [decision |-> d, proposal |-> o]
    BY <2>2, <2>3, ProposedParts, TransitionParts DEF Step, WalInv
  <2>6. /\ PosNotAbove(tr, Decided(o)) /\ PosNotAbove(Decided(d), tr)
        /\ PossiblyUndecidedRule(LastPos(p)) = d => PosNotAbove(LastPos(p), Decided(d))
    BY <1>3, <2>2, <2>3, BelowProposal DEF Step, WalInv
  <2>7. /\ PossiblyUndecidedRule(Decided(d)) = d /\ Decided(d).decision = d
        /\ Decided(d) \in PositionType /\ Decided(o) \in PositionType
    BY <2>5, DecidedParts DEF Step, Ground, AgreementInv
  <2>8. Legit(Decided(d)) /\ Legit(tr)
    BY <2>2, <2>3 DEF Legit
  <2>9. CASE op[p].phase = "confirm"
    <3>1. /\ x.kind = "probe" /\ x.pos = LastPos(p) /\ op'[p].phase = "finalize"
          /\ ~IsRuleDecided(LastPos(p)) /\ LastPos(p).proposal = d
      BY <1>8, <2>1, <2>3, <2>9
    <3>2. Legit(x.pos)'
      <4>1. PICK pos : pos = LastPos(p)
        OBVIOUS
      <4> QED
        BY <1>3, <1>5, <1>6, <3>1, <4>1
    <3>3. Written(x)'
      <4>1. WrittenIn(x, r)
        BY <1>1, <2>1, <2>3, <3>1 DEF WrittenIn, PossiblyUndecidedRule
      <4> QED
        BY <1>5, <4>1 DEF Written
    <3>4. OpInv(p)'
      BY <1>1, <1>2, <1>8, <2>1, <2>3, <2>4, <3>1 DEF OpInv
    <3> QED
      BY <1>4, <3>1, <3>2, <3>3, <3>4
  <2>10. CASE op[p].phase = "finalize"
    <3>1. /\ x.kind = "rule" /\ x.pos = Decided(d) /\ op'[p].phase = "propose"
          /\ ~IsRuleDecided(LastPos(p)) /\ LastPos(p).proposal = d
      BY <1>8, <2>1, <2>3, <2>10
    <3>2. Legit(x.pos)'
      <4>1. PICK pos : pos = Decided(d)
        OBVIOUS
      <4> QED
        BY <1>5, <1>6, <2>8, <3>1, <4>1
    <3>3. Written(x)'
      <4>1. WrittenIn(x, r)
        BY <1>1, <2>1, <2>3, <2>7, <3>1 DEF WrittenIn
      <4> QED
        BY <1>5, <4>1 DEF Written
    <3>4. PosNotAbove(LastPos(p), x.pos)
      BY <2>6, <3>1 DEF PossiblyUndecidedRule
    <3>5. OpInv(p)'
      BY <1>1, <1>2, <1>8, <2>1, <2>3, <2>4, <3>1 DEF OpInv
    <3> QED
      BY <3>2, <3>3, <3>4, <3>5
  <2>11. CASE op[p].phase = "propose"
    <3>1. /\ x.kind = "rule" /\ x.pos = tr /\ op'[p].phase = "decide" /\ op'[p].await = Lsn(p) + 1
          /\ LastPos(p) = Decided(d)
      BY <1>8, <2>1, <2>3, <2>5, <2>7, <2>11
    <3>2. Legit(x.pos)'
      BY <1>5, <1>6, <2>8, <3>1
    <3>3. Written(x)'
      <4>1. WrittenIn(x, r)
        BY <1>1, <2>1, <2>3, <3>1 DEF WrittenIn
      <4> QED
        BY <1>5, <4>1 DEF Written
    <3>4. PosNotAbove(LastPos(p), x.pos)
      BY <2>6, <3>1
    <3>5. OpInv(p)'
      <4>1. /\ op'[p].await \in 1..Lsn(p)'
            /\ wal'[p][op'[p].await] = [by |-> prim'[p], kind |-> "rule", pos |-> rounds'[r].transition]
        BY <1>1, <1>3, <2>4, <3>1
      <4> QED
        BY <1>1, <1>2, <1>8, <2>1, <2>3, <2>4, <3>1, <4>1 DEF OpInv
    <3> QED
      BY <3>2, <3>3, <3>4, <3>5
  <2>12. CASE op[p].phase = "decide"
    <3>1. /\ x.kind = "rule" /\ x.pos = Decided(o) /\ op'[p].phase = "settle" /\ Acknowledged(p)
      BY <1>8, <2>1, <2>3, <2>12
    <3>2. durable[TermOf(r)] # 0
      BY <2>1, <2>2, <2>12, <3>1, AcknowledgedDurable DEF Step
    <3>3. Legit(x.pos)'
      <4>1. PICK pos : pos = Decided(o)
        OBVIOUS
      <4>2. Legit(pos)
        BY <2>2, <2>3, <3>2, <4>1 DEF Legit
      <4> QED
        BY <1>5, <1>6, <3>1, <4>1, <4>2
    <3>4. Written(x)'
      <4>1. WrittenIn(x, r)
        BY <1>1, <2>1, <2>3, <3>1, <3>2 DEF WrittenIn
      <4> QED
        BY <1>5, <4>1 DEF Written
    <3>5. PosNotAbove(LastPos(p), x.pos)
      <4>1. WrittenIn(wal[p][Lsn(p)], r) /\ LastPos(p) = wal[p][Lsn(p)].pos
        BY <1>1, <2>1, <2>2, OwnLast, LastRecord DEF Step
      <4>2. PosNotAbove(wal[p][Lsn(p)].pos, Decided(rounds[r].transition.proposal))
        BY <1>3, <4>1, WrittenBelow DEF Step, WalInv
      <4> QED
        BY <2>3, <3>1, <4>1, <4>2
    <3>6. OpInv(p)'
      BY <1>1, <1>2, <1>8, <2>1, <2>3, <2>4, <3>1, <3>2 DEF OpInv
    <3> QED
      BY <3>3, <3>4, <3>5, <3>6
  <2> QED
    BY <1>8, <2>9, <2>10, <2>11, <2>12
<1>9. WriteOf(p, x.kind, x.pos)
  BY DEF Writes
<1> QED
  BY <1>7, <1>8, <1>9 DEF WriteOf

-----------------------------------------------------------------------------
(* Every step keeps what the WALs hold.                                    *)

\* What holds of every record before a step, and of the one it appends, holds of
\* every record after it.
LEMMA RecordsAfter ==
    ASSUME Step, NEW q \in Poolers, NEW i \in 1..Lsn(q)'
    PROVE  \/ \E c \in Poolers : \E j \in 1..Lsn(c) : wal'[q][i] = wal[c][j]
           \/ \E r \in Rounds : Switches(r, q, wal'[q][i])
           \/ Writes(q, wal'[q][i])
<1>1. Lsn(q)' \in Nat
  BY WalTypesNext DEF Step, Ground, WalShapes, WalShape
<1>2. ASSUME NEW p \in Poolers, NEW x, Appends(p, x)
      PROVE  \/ \E c \in Poolers : \E j \in 1..Lsn(c) : wal'[q][i] = wal[c][j]
             \/ q = p /\ wal'[q][i] = x
  <2>1. Lsn(p) \in Nat
    BY LastRecord DEF Step
  <2>2. CASE q # p
    <3>1. wal'[q] = wal[q] /\ Lsn(q)' = Lsn(q)
      BY <1>2, <2>2 DEF Appends, OthersIdle, Idle, Lsn
    <3> QED
      BY <3>1
  <2>3. CASE q = p /\ i # Lsn(p) + 1
    <3>1. i \in 1..Lsn(p)
      BY <1>2, <2>1, <2>3 DEF Appends
    <3> QED
      BY <1>2, <2>3, <3>1 DEF Appends
  <2>4. CASE q = p /\ i = Lsn(p) + 1
    BY <1>2, <2>4 DEF Appends
  <2> QED
    BY <2>2, <2>3, <2>4
<1>3. CASE Copies
  <2>1. PICK c \in Poolers : CopyOf(q, c)
    BY <1>3 DEF Copies
  <2>2. i \in 1..Lsn(c) /\ wal'[q][i] = wal[c][i]
    <3>1. Lsn(c) \in Nat
      BY LastRecord DEF Step
    <3> QED
      BY <1>1, <2>1, <3>1 DEF CopyOf
  <2> QED
    BY <2>2
<1>4. ASSUME NEW r \in Rounds, NEW p \in Poolers, NEW x, Switches(r, p, x)
      PROVE  \/ \E c \in Poolers : \E j \in 1..Lsn(c) : wal'[q][i] = wal[c][j]
             \/ \E s \in Rounds : Switches(s, q, wal'[q][i])
  BY <1>2, <1>4 DEF Switches
<1>5. ASSUME NEW p \in Poolers, NEW x, Writes(p, x)
      PROVE  \/ \E c \in Poolers : \E j \in 1..Lsn(c) : wal'[q][i] = wal[c][j]
             \/ Writes(q, wal'[q][i])
  BY <1>2, <1>5 DEF Writes
<1> QED
  BY <1>3, <1>4, <1>5, StepAppends

\* Every record of a WAL stays at a legitimate position, and the work of its round.
LEMMA NextWalLegit ==
    ASSUME Step
    PROVE  WalLegit' /\ WalWritten'
<1>1. ASSUME NEW q \in Poolers, NEW i \in 1..Lsn(q)', NEW x, x = wal'[q][i]
      PROVE  Legit(x.pos)' /\ Written(x)'
  <2>1. ASSUME NEW c \in Poolers, NEW j \in 1..Lsn(c), x = wal[c][j]
        PROVE  Legit(x.pos)' /\ Written(x)'
    <3>1. PICK pos : pos = x.pos
      OBVIOUS
    <3>2. Legit(pos) /\ Written(x)
      BY <2>1, <3>1 DEF Step, WalInv, WalLegit, WalWritten
    <3>3. Legit(pos)' /\ Written(x)'
      BY <3>2, LegitKept
    <3> QED
      BY <3>1, <3>3
  <2>2. ASSUME NEW r \in Rounds, Switches(r, q, x) PROVE Legit(x.pos)' /\ Written(x)'
    BY <2>2, SwitchRecord
  <2>3. ASSUME Writes(q, x) PROVE Legit(x.pos)' /\ Written(x)'
    BY <2>3, WriteRecord
  <2>4. \/ \E c \in Poolers : \E j \in 1..Lsn(c) : wal'[q][i] = wal[c][j]
        \/ \E r \in Rounds : Switches(r, q, x)
        \/ Writes(q, x)
    BY <1>1, RecordsAfter
  <2> QED
    BY <1>1, <2>1, <2>2, <2>3, <2>4
<1>2. WalLegit'
  BY <1>1 DEF WalLegit, Legit
<1>3. WalWritten'
  BY <1>1 DEF WalWritten, Written
<1> QED
  BY <1>2, <1>3

\* No step makes them descend.
LEMMA NextWalMonotone ==
    ASSUME Step
    PROVE  WalMonotone'
<1>1. ASSUME NEW q \in Poolers, NEW i \in 1..Lsn(q)', NEW j \in 1..Lsn(q)', i <= j
      PROVE  PosNotAbove(wal'[q][i].pos, wal'[q][j].pos)
  <2>1. Lsn(q)' \in Nat /\ Lsn(q) \in Nat /\ \A c \in Poolers : Lsn(c) \in Nat
    BY WalTypesNext DEF Step, Ground, WalShapes, WalShape
  <2>2. ASSUME NEW c \in Poolers, CopyOf(q, c) PROVE PosNotAbove(wal'[q][i].pos, wal'[q][j].pos)
    <3>1. i \in 1..Lsn(c) /\ j \in 1..Lsn(c) /\ wal'[q][i] = wal[c][i] /\ wal'[q][j] = wal[c][j]
      BY <2>1, <2>2 DEF CopyOf
    <3> QED
      BY <1>1, <3>1 DEF Step, WalInv, WalMonotone
  <2>3. ASSUME NEW p \in Poolers, NEW x, Appends(p, x), PosNotAbove(LastPos(p), x.pos)
        PROVE  PosNotAbove(wal'[q][i].pos, wal'[q][j].pos)
    <3>1. CASE q # p
      <4>1. wal'[q] = wal[q]
        BY <2>3, <3>1 DEF Appends, OthersIdle, Idle
      <4> QED
        BY <2>2, <4>1, CopyOfOwn DEF Step, Ground
    <3>2. CASE q = p /\ j # Lsn(p) + 1
      <4>1. i \in 1..Lsn(p) /\ j \in 1..Lsn(p)
        BY <1>1, <2>1, <2>3, <3>2 DEF Appends
      <4>2. wal'[q][i] = wal[p][i] /\ wal'[q][j] = wal[p][j]
        BY <2>3, <3>2, <4>1 DEF Appends
      <4> QED
        BY <1>1, <4>1, <4>2 DEF Step, WalInv, WalMonotone
    <3>3. CASE q = p /\ j = Lsn(p) + 1
      <4>1. wal'[q][j] = x /\ j \in 1..Lsn(p)'
        BY <2>3, <3>3 DEF Appends
      <4>2. x.pos \in PositionType
        BY <4>1, WalTypesNext DEF Step, Ground, WalShapes, WalShape
      <4>3. CASE i = j
        BY <4>1, <4>2, <4>3, PositionOrder
      <4>4. CASE i # j
        <5>1. i \in 1..Lsn(p) /\ wal'[q][i] = wal[p][i]
          BY <1>1, <2>1, <2>3, <3>3, <4>4 DEF Appends
        <5>2. /\ LastPos(p) = wal[p][Lsn(p)].pos /\ Lsn(p) \in 1..Lsn(p) /\ i <= Lsn(p)
              /\ LastPos(p) \in PositionType
          BY <2>1, <5>1, LastRecord DEF Step
        <5>3. PosNotAbove(wal[p][i].pos, LastPos(p)) /\ wal[p][i].pos \in PositionType
          BY <5>1, <5>2, WalTypes DEF Step, WalInv, WalMonotone, Ground
        <5> QED
          BY <2>3, <4>1, <4>2, <5>1, <5>2, <5>3, PositionOrder
      <4> QED
        BY <4>3, <4>4
    <3> QED
      BY <3>1, <3>2, <3>3
  <2>4. CASE Copies
    BY <2>2, <2>4 DEF Copies
  <2>5. ASSUME NEW r \in Rounds, NEW p \in Poolers, NEW x, Switches(r, p, x)
        PROVE  PosNotAbove(wal'[q][i].pos, wal'[q][j].pos)
    BY <2>3, <2>5, SwitchRecord DEF Switches
  <2>6. ASSUME NEW p \in Poolers, NEW x, Writes(p, x)
        PROVE  PosNotAbove(wal'[q][i].pos, wal'[q][j].pos)
    BY <2>3, <2>6, WriteRecord DEF Writes
  <2> QED
    BY <2>4, <2>5, <2>6, StepAppends
<1> QED
  BY <1>1 DEF WalMonotone, PosNotAbove

\* A primary keeps the promise it was promoted under.
LEMMA NextPrimInvs ==
    ASSUME Step
    PROVE  PrimInvs'
<1>1. ASSUME NEW q \in Poolers, prim'[q] # 0, prim'[q] = prim[q], rev'[q] = rev[q]
      PROVE  PrimInv(q)'
  <2>1. PrimInv(q)
    BY DEF Step, WalInv, PrimInvs
  <2>2. CASE prim[q] = FirstTerm /\ q = InitialRule.leader
    BY <1>1, <2>2 DEF PrimInv
  <2>3. ASSUME NEW r \in Rounds, PromotedIn(q, r) PROVE PrimInv(q)'
    <3>1. Proposed(r)
      BY <2>3 DEF PromotedIn, Proposed
    <3>2. PromotedIn(q, r)'
      BY <1>1, <2>3, <3>1, ProposedKept DEF PromotedIn
    <3> QED
      BY <3>2 DEF PrimInv
  <2> QED
    BY <1>1, <2>1, <2>2, <2>3 DEF PrimInv
<1>2. ASSUME NEW p \in Poolers, NEW x, Appends(p, x), PrimInv(p)' PROVE PrimInvs'
  <2>1. \A q \in Poolers : q # p => prim'[q] = prim[q] /\ rev'[q] = rev[q]
    BY <1>2 DEF Appends, OthersIdle, Idle
  <2>2. ASSUME NEW q \in Poolers PROVE PrimInv(q)'
    <3>1. CASE q = p
      BY <1>2, <3>1
    <3>2. CASE q # p /\ prim'[q] # 0
      BY <1>1, <2>1, <3>2
    <3>3. CASE prim'[q] = 0
      BY <3>3 DEF PrimInv
    <3> QED
      BY <3>1, <3>2, <3>3
  <2> QED
    BY <2>2 DEF PrimInvs
<1>3. CASE Copies
  <2>1. ASSUME NEW q \in Poolers PROVE PrimInv(q)'
    <3>1. CASE prim'[q] # 0
      BY <1>1, <1>3, <3>1 DEF Copies
    <3>2. CASE prim'[q] = 0
      BY <3>2 DEF PrimInv
    <3> QED
      BY <3>1, <3>2
  <2> QED
    BY <2>1 DEF PrimInvs
<1>4. ASSUME NEW r \in Rounds, NEW p \in Poolers, NEW x, Switches(r, p, x) PROVE PrimInvs'
  <2>1. Proposed(r) /\ Appends(p, x) /\ rounds'[r].phase = "promoting" /\ p = Leader(r)
        /\ rev[p] = rounds[r].rev
    BY <1>4 DEF Switches
  <2>2. prim'[p] = TermOf(r) /\ rev'[p] = rounds[r].rev
    BY <1>4, <2>1, SwitchRecord DEF Appends
  <2>3. PromotedIn(p, r)'
    BY <2>1, <2>2, ProposedKept DEF PromotedIn
  <2>4. PrimInv(p)'
    BY <2>3 DEF PrimInv
  <2> QED
    BY <1>2, <2>1, <2>4
<1>5. ASSUME NEW p \in Poolers, NEW x, Writes(p, x) PROVE PrimInvs'
  <2>1. Appends(p, x) /\ prim'[p] = prim[p] /\ rev'[p] = rev[p]
    BY <1>5 DEF Writes, Appends
  <2>2. PrimInv(p)'
    BY <1>1, <2>1 DEF Appends
  <2> QED
    BY <1>2, <2>1, <2>2
<1> QED
  BY <1>3, <1>4, <1>5, StepAppends

-----------------------------------------------------------------------------
(* The primaries' records and what the steps leave the rest at.            *)

\* A record that is appended leaves the primaries the owners of their records if
\* no other primary is of its term and no one holds records of the term that its
\* writer does not.
LEMMA AppendOwners ==
    ASSUME Step, NEW o \in Poolers, NEW x, Appends(o, x),
           \A p \in Poolers : p # o => prim[p] # x.by,
           \A q \in Poolers : \A i \in 1..Lsn(q) : wal[q][i].by = x.by =>
              i <= Lsn(o) /\ \A j \in 1..i : wal[q][j] = wal[o][j]
    PROVE  Owners'
<1>1. \A q \in Poolers : Lsn(q) \in Nat
  BY LastRecord DEF Step
<1>2. /\ Lsn(o)' = Lsn(o) + 1
      /\ \A i \in 1..Lsn(o) : wal'[o][i] = wal[o][i]
      /\ wal'[o][Lsn(o) + 1] = x
      /\ prim'[o] = x.by /\ x.by # 0
  BY DEF Appends
<1>3. \A q \in Poolers : q # o => wal'[q] = wal[q] /\ prim'[q] = prim[q] /\ Lsn(q)' = Lsn(q)
  BY DEF Appends, OthersIdle, Idle, Lsn
<1>4. ASSUME NEW q \in Poolers, NEW i \in 1..Lsn(q)', wal'[q][i].by = x.by
      PROVE  i <= Lsn(o)' /\ \A j \in 1..i : wal'[q][j] = wal'[o][j]
  <2>1. CASE q = o
    BY <2>1
  <2>2. CASE q # o
    <3>1. i \in 1..Lsn(q) /\ wal[q][i].by = x.by
      BY <1>3, <1>4, <2>2
    <3>2. i <= Lsn(o) /\ \A j \in 1..i : wal[q][j] = wal[o][j]
      BY <3>1
    <3> QED
      BY <1>1, <1>2, <1>3, <2>2, <3>1, <3>2
  <2> QED
    BY <2>1, <2>2
<1>5. ASSUME NEW p \in Poolers, p # o, prim[p] # 0, NEW q \in Poolers, NEW i \in 1..Lsn(q)',
             wal'[q][i].by = prim[p]
      PROVE  i <= Lsn(p) /\ \A j \in 1..i : wal'[q][j] = wal[p][j]
  <2>1. i \in 1..Lsn(q) /\ wal[q][i] = wal'[q][i] /\ \A j \in 1..i : wal'[q][j] = wal[q][j]
    <3>1. CASE q # o
      BY <1>3, <3>1
    <3>2. CASE q = o
      <4>1. i # Lsn(o) + 1
        BY <1>2, <1>5, <3>2
      <4>2. i \in 1..Lsn(o)
        BY <1>1, <1>2, <3>2, <4>1
      <4> QED
        BY <1>1, <1>2, <3>2, <4>2
    <3> QED
      BY <3>1, <3>2
  <2>2. Owner(p)
    BY DEF Step, WalInv, Owners
  <2> QED
    BY <1>5, <2>1, <2>2 DEF Owner
<1>6. ASSUME NEW p \in Poolers PROVE Owner(p)'
  <2>1. CASE p = o
    BY <1>2, <1>4, <2>1 DEF Owner
  <2>2. CASE p # o /\ prim[p] # 0
    <3>1. wal[p][Lsn(p)].by = prim[p]
      BY <2>2 DEF Step, WalInv, Owners, Owner
    <3> QED
      BY <1>3, <1>5, <2>2, <3>1 DEF Owner
  <2>3. CASE p # o /\ prim[p] = 0
    BY <1>3, <2>3 DEF Owner
  <2> QED
    BY <2>1, <2>2, <2>3
<1> QED
  BY <1>6 DEF Owners

\* The records of a term stay copies of what the primary of the term wrote.
LEMMA NextOwners ==
    ASSUME Step
    PROVE  Owners'
<1>1. CASE Copies
  <2>1. ASSUME NEW p \in Poolers, prim'[p] # 0 PROVE Owner(p)'
    <3>1. wal'[p] = wal[p] /\ prim'[p] = prim[p] /\ Lsn(p)' = Lsn(p)
      BY <1>1, <2>1 DEF Copies, Lsn
    <3>2. Owner(p)
      BY DEF Step, WalInv, Owners
    <3>3. ASSUME NEW q \in Poolers, NEW i \in 1..Lsn(q)', wal'[q][i].by = prim'[p]
          PROVE  i <= Lsn(p) /\ \A j \in 1..i : wal'[q][j] = wal[p][j]
      <4>1. PICK c \in Poolers : CopyOf(q, c)
        BY <1>1 DEF Copies
      <4>2. Lsn(c) \in Nat /\ Lsn(q)' \in Nat
        BY LastRecord, WalTypesNext DEF Step, Ground, WalShapes, WalShape
      <4>3. i \in 1..Lsn(c) /\ \A j \in 1..i : wal'[q][j] = wal[c][j]
        BY <4>1, <4>2 DEF CopyOf
      <4>4. wal'[q][i] = wal[c][i]
        BY <4>1 DEF CopyOf
      <4> QED
        BY <2>1, <3>1, <3>2, <3>3, <4>3, <4>4 DEF Owner
    <3> QED
      BY <2>1, <3>1, <3>2, <3>3 DEF Owner
  <2>2. ASSUME NEW p \in Poolers, prim'[p] = 0 PROVE Owner(p)'
    BY <2>2 DEF Owner
  <2> QED
    BY <2>1, <2>2 DEF Owners
<1>2. ASSUME NEW r \in Rounds, NEW o \in Poolers, NEW x, Switches(r, o, x) PROVE Owners'
  <2>1. Proposed(r) /\ rounds[r].phase # "promoting" /\ x.by = TermOf(r) /\ Appends(o, x)
    BY <1>2, SwitchRecord DEF Switches, PromoteStep
  <2>2. ASSUME NEW q \in Poolers, NEW i \in 1..Lsn(q), wal[q][i].by = x.by PROVE FALSE
    <3>1. PICK y : y = wal[q][i]
      OBVIOUS
    <3>2. Written(y)
      BY <3>1 DEF Step, WalInv, WalWritten
    <3>3. WrittenIn(y, r)
      BY <2>1, <2>2, <3>1, <3>2, WrittenBy DEF Step, WalInv
    <3> QED
      BY <2>1, <3>3 DEF WrittenIn
  <2>3. ASSUME NEW p \in Poolers, prim[p] = x.by PROVE FALSE
    <3>1. wal[p][Lsn(p)].by = x.by /\ Lsn(p) \in 1..Lsn(p)
      BY <2>1, <2>3, LastRecord DEF Step, WalInv, Owners, Owner, Appends
    <3> QED
      BY <2>2, <3>1
  <2> QED
    BY <2>1, <2>2, <2>3, AppendOwners
<1>3. ASSUME NEW o \in Poolers, NEW x, Writes(o, x) PROVE Owners'
  <2>1. Appends(o, x) /\ x.by = prim[o] /\ prim[o] # 0
    BY <1>3 DEF Writes, Appends
  <2>2. \A p \in Poolers : p # o => prim[p] # x.by
    BY <2>1, PrimUnique DEF Step
  <2>3. ASSUME NEW q \in Poolers, NEW i \in 1..Lsn(q), wal[q][i].by = x.by
        PROVE  i <= Lsn(o) /\ \A j \in 1..i : wal[q][j] = wal[o][j]
    BY <2>1, <2>3 DEF Step, WalInv, Owners, Owner
  <2> QED
    BY <2>1, <2>2, <2>3, AppendOwners
<1> QED
  BY <1>1, <1>2, <1>3, StepAppends

\* The operations have got as far as their WALs.
LEMMA NextOpInvs ==
    ASSUME Step
    PROVE  OpInvs'
<1>1. ASSUME NEW p \in Poolers, op'[p].phase = "none" PROVE OpInv(p)'
  BY <1>1 DEF OpInv
<1>2. NoOp.phase = "none"
  BY DEF NoOp
<1>3. ASSUME NEW p \in Poolers, op'[p] = op[p], wal'[p] = wal[p], prim'[p] = prim[p]
      PROVE  OpInv(p)'
  <2>1. CASE op[p].phase = "none"
    BY <1>1, <1>3, <2>1
  <2>2. CASE op[p].phase # "none"
    <3>1. PICK r \in Rounds :
            /\ rounds[r].phase = "promoting" /\ op[p].rule = rounds[r].transition.proposal
            /\ prim[p] = TermOf(r) /\ p = Leader(r)
            /\ op[p].phase \in {"confirm", "finalize"} =>
                  /\ ~IsRuleDecided(LastPos(p))
                  /\ LastPos(p).proposal = rounds[r].transition.decision
            /\ op[p].phase = "propose" => LastPos(p) = Decided(rounds[r].transition.decision)
            /\ op[p].phase = "decide" =>
                  /\ op[p].await \in 1..Lsn(p)
                  /\ wal[p][op[p].await] =
                       [by |-> prim[p], kind |-> "rule", pos |-> rounds[r].transition]
            /\ op[p].phase = "settle" => durable[TermOf(r)] # 0
      BY <2>2 DEF OpInv, Step, WalInv, OpInvs
    <3>2. Proposed(r)
      BY <3>1 DEF Proposed
    <3>3. /\ rounds'[r].phase = "promoting" /\ rounds'[r].transition = rounds[r].transition
          /\ TermOf(r)' = TermOf(r) /\ Leader(r)' = Leader(r)
          /\ (durable[TermOf(r)] # 0 => durable'[TermOf(r)] # 0)
      BY <3>1, <3>2, ProposedKept
    <3>4. Lsn(p)' = Lsn(p) /\ LastPos(p)' = LastPos(p)
      BY <1>3 DEF Lsn, LastPos, Last
    <3> QED
      BY <1>3, <3>1, <3>3, <3>4 DEF OpInv
  <2> QED
    BY <2>1, <2>2
<1>4. ASSUME NEW p \in Poolers, OthersIdle(p), OpInv(p)' PROVE OpInvs'
  <2>1. ASSUME NEW q \in Poolers, q # p PROVE OpInv(q)'
    BY <1>3, <1>4, <2>1 DEF OthersIdle, Idle
  <2> QED
    BY <1>4, <2>1 DEF OpInvs
<1>5. ASSUME NEW r \in Rounds, StartStep(r) PROVE OpInvs'
  <2>1. \A q \in Poolers : OpInv(q)'
    BY <1>3, <1>5 DEF StartStep, Idle
  <2> QED
    BY <2>1 DEF OpInvs
<1>6. ASSUME NEW r \in Rounds, NEW p \in Poolers, JoinStep(r, p) PROVE OpInvs'
  BY <1>1, <1>2, <1>4, <1>6 DEF JoinStep
<1>7. ASSUME NEW r \in Rounds, NEW p \in Poolers, NEW x, Switches(r, p, x) PROVE OpInv(p)'
  <2>1. /\ Proposed(r) /\ p = Leader(r) /\ prim'[p] = x.by /\ x.by = TermOf(r)
        /\ wal'[p][Lsn(p) + 1] = x /\ Lsn(p)' = Lsn(p) + 1
        /\ rounds'[r].phase = "promoting"
        /\ op'[p] = [phase |-> IF ~IsRuleDecided(LastPos(p)) THEN "confirm" ELSE "propose",
                     round |-> r, rule |-> rounds[r].transition.proposal, await |-> 0]
    BY <1>7, SwitchRecord DEF Switches, Appends
  <2>2. LastPos(p)' = x.pos /\ x.pos = LastPos(p)
    BY <1>7, <2>1, SwitchRecord DEF LastPos, Last, Lsn
  <2>3. /\ ~IsRuleDecided(LastPos(p)) => LastPos(p).proposal = rounds[r].transition.decision
        /\ IsRuleDecided(LastPos(p)) => LastPos(p) = Decided(rounds[r].transition.decision)
    BY <1>7, SwitchRecord
  <2>4. /\ rounds'[r].transition = rounds[r].transition
        /\ TermOf(r)' = TermOf(r) /\ Leader(r)' = Leader(r)
    BY <2>1, ProposedKept
  <2>5. CASE IsRuleDecided(LastPos(p))
    <3>1. op'[p].phase = "propose" /\ op'[p].rule = rounds[r].transition.proposal
      BY <2>1, <2>5
    <3> QED
      BY <2>1, <2>2, <2>3, <2>4, <2>5, <3>1 DEF OpInv
  <2>6. CASE ~IsRuleDecided(LastPos(p))
    <3>1. op'[p].phase = "confirm" /\ op'[p].rule = rounds[r].transition.proposal
      BY <2>1, <2>6
    <3> QED
      BY <2>1, <2>2, <2>3, <2>4, <2>6, <3>1 DEF OpInv
  <2> QED
    BY <2>5, <2>6
<1>8. ASSUME NEW r \in Rounds, PromoteStep(r) PROVE OpInvs'
  <2>1. Proposed(r)
    BY <1>8, PromoteRounds DEF Step
  <2>2. PICK p \in Poolers : p = Leader(r)
    BY <2>1, ProposedParts DEF Step, WalInv
  <2>3. OthersIdle(p) /\ prim[p] = 0
    BY <1>8, <2>2 DEF PromoteStep
  <2>4. CASE wal'[p] = wal[p] /\ prim'[p] = prim[p] /\ op'[p] = op[p]
    BY <1>3, <1>4, <2>3, <2>4
  <2>5. CASE prim'[p] = TermOf(r)
    <3>1. prim'[p] # prim[p] /\ prim'[p] # 0
      <4>1. TermOf(r) \in Nat /\ FirstTerm < TermOf(r)
        BY <2>1, ProposedParts DEF Step, WalInv
      <4> QED
        BY <2>3, <2>5, <4>1, FirstTermType
    <3>2. ~Copies
      BY <3>1 DEF Copies
    <3>3. \E o \in Poolers : \E x : Switches(r, o, x)
      BY <1>8, <3>2, PromoteAppends DEF Step
    <3>4. \E x : Switches(r, p, x)
      BY <2>2, <3>3 DEF Switches
    <3> QED
      BY <1>4, <1>7, <2>3, <3>4
  <2> QED
    BY <1>8, <2>2, <2>4, <2>5 DEF PromoteStep
<1>9. ASSUME NEW p \in Poolers, LocalStep(p) PROVE OpInvs'
  <2>1. OthersIdle(p)
    BY <1>9 DEF LocalStep
  <2>2. CASE WriteStep(p)
    <3>1. ~Copies
      <4>1. PICK x : wal'[p] = Append(wal[p], x)
        BY <2>2 DEF WriteStep
      <4>2. Lsn(p)' = Lsn(p) + 1 /\ Lsn(p) \in Nat
        BY <4>1, AppendParts, LastRecord DEF Step, Ground
      <4>3. wal'[p] # wal[p]
        BY <4>2 DEF Lsn
      <4> QED
        BY <2>2, <4>3 DEF Copies, WriteStep
    <3>2. \E x : Writes(p, x)
      BY <1>9, <3>1, LocalAppends DEF Step
    <3> QED
      BY <1>4, <2>1, <3>2, WriteRecord
  <2>3. CASE StreamStep(p)
    <3>1. conn[p] # None /\ op'[p] = op[p]
      BY <2>3 DEF StreamStep
    <3>2. prim[p] = 0
      BY <3>1 DEF Step, HistoryInv, HistoryOf, OperationOwnsWal
    <3>3. op[p].phase = "none"
      BY <3>2, OpPrimary DEF Step, WalInv, OpInvs
    <3> QED
      BY <1>1, <1>4, <2>1, <3>1, <3>3
  <2>4. CASE RewindStep(p)
    BY <1>1, <1>2, <1>4, <2>1, <2>4 DEF RewindStep
  <2>5. CASE QuietStep(p)
    BY <1>1, <1>2, <1>3, <1>4, <2>1, <2>5 DEF QuietStep
  <2> QED
    BY <1>9, <2>2, <2>3, <2>4, <2>5 DEF LocalStep
<1> QED
  BY <1>5, <1>6, <1>8, <1>9 DEF Step, Shapes

\* What the poolers are told of stays legitimate.
LEMMA NextTold ==
    ASSUME Step
    PROVE  ToldInv'
<1>1. ASSUME NEW q \in Poolers PROVE Told(rp'[q])
  <2>1. Told(rp[q])
    BY DEF Step, WalInv, ToldInv
  <2>2. ASSUME NEW r \in Rounds, StartStep(r) PROVE Told(rp'[q])
    BY <2>1, <2>2 DEF StartStep, Idle
  <2>3. ASSUME NEW r \in Rounds, NEW p \in Poolers, JoinStep(r, p) PROVE Told(rp'[q])
    BY <2>1, <2>3 DEF JoinStep, OthersIdle, Idle
  <2>4. ASSUME NEW r \in Rounds, PromoteStep(r) PROVE Told(rp'[q])
    BY <2>1, <2>4 DEF PromoteStep, OthersIdle, Idle
  <2>5. ASSUME NEW p \in Poolers, LocalStep(p) PROVE Told(rp'[q])
    <3>1. CASE q # p
      BY <2>1, <2>5, <3>1 DEF LocalStep, OthersIdle, Idle
    <3>2. CASE q = p
      BY <2>1, <2>5, <3>2 DEF LocalStep, WriteStep, StreamStep, RewindStep, QuietStep
    <3> QED
      BY <3>1, <3>2
  <2> QED
    BY <2>2, <2>3, <2>4, <2>5 DEF Step, Shapes
<1>2. ASSUME NEW q \in Poolers, NEW entry, entry = rp'[q] PROVE Told(entry)'
  BY <1>1, <1>2, LegitKept
<1> QED
  BY <1>2 DEF ToldInv, Told

\* Nothing is left to release after a step either.
LEMMA NextReleased ==
    ASSUME Step
    PROVE  ReleasedInv'
<1>1. ASSUME NEW p \in Poolers, prim'[p] # 0 PROVE prim'[p] \in Terms
  <2>1. CASE prim'[p] = prim[p]
    BY <1>1, <2>1 DEF Step, WalInv, ReleasedInv
  <2>2. CASE prim'[p] # prim[p]
    <3>1. ASSUME NEW r \in Rounds, NEW o \in Poolers, NEW x, Switches(r, o, x)
          PROVE  prim'[p] \in Terms
      <4>1. p = o
        BY <2>2, <3>1 DEF Switches, Appends, OthersIdle, Idle
      <4>2. Proposed(r) /\ prim'[p] = TermOf(r)
        BY <3>1, <4>1, SwitchRecord DEF Switches, Appends
      <4> QED
        BY <4>2, ProposedParts DEF Step, WalInv
    <3>2. ASSUME NEW o \in Poolers, NEW x, Writes(o, x) PROVE FALSE
      BY <2>2, <3>2 DEF Writes, Appends, OthersIdle, Idle
    <3>3. ~Copies
      BY <1>1, <2>2 DEF Copies
    <3> QED
      BY <3>1, <3>2, <3>3, StepAppends
  <2> QED
    BY <2>1, <2>2
<1>2. ASSUME NEW p \in Poolers, prim'[p] # 0, NEW n \in FlushedByQuorum(p)' PROVE n <= acked'[p]
  <2>1. AckedEffect(p)
    BY DEF Step, ReleaseEffect
  <2>2. n \in 1..Lsn(p)' /\ Lsn(p)' \in Nat
    BY <1>2, WalTypesNext DEF FlushedByQuorum, Step, Ground, WalShapes, WalShape
  <2> QED
    BY <1>2, <2>1, <2>2 DEF AckedEffect
<1>3. ASSUME NEW p \in Poolers, prim'[p] # 0, NEW n \in Committed(p)' PROVE n <= durable'[prim'[p]]
  <2>1. PICK t \in Terms : t = prim'[p]
    BY <1>1, <1>3
  <2>2. DurableEffect(t)
    BY DEF Step, ReleaseEffect
  <2> QED
    BY <1>3, <2>1, <2>2 DEF DurableEffect
<1> QED
  BY <1>1, <1>2, <1>3 DEF ReleasedInv

\* Every step keeps WalInv.
LEMMA NextWalInv ==
    ASSUME Step
    PROVE  WalInv'
BY NextWalLegit, NextWalMonotone, NextPrimInvs, NextOwners, NextOpInvs, NextTold, NextReleased
   DEF WalInv, Step

-----------------------------------------------------------------------------
(* Whom the poolers that accepted a round follow.                          *)

\* The round's revocation does not forbid to work under the position.
Escapes(pos, r) ==
    \/ ~NotAbove(pos.decision.num, Outgoing(r))
    \/ pos.decision.num = Outgoing(r) /\ TermOf(r) <= pos.proposal.num.term

\* That is what IsRuleRevoked says of a round's revocation.
LEMMA EscapesRevocation ==
    ASSUME Ground, ElectionInv, NEW r \in Rounds, Started(r), NEW pos \in PositionType
    PROVE  IsRuleRevoked(pos, rounds[r].rev) <=> ~Escapes(pos, r)
<1>1. PICK d, n, o, t : /\ d = pos.decision.num /\ n = pos.proposal.num
                        /\ o = Outgoing(r) /\ t = TermOf(r)
  OBVIOUS
<1>2. /\ d \in RuleNumber /\ n \in RuleNumber /\ o \in RuleNumber
      /\ d.term \in Nat /\ n.term \in Nat /\ o.term \in Nat /\ t \in Nat
  BY <1>1, PositionNumbers, RoundTypes DEF Ground
<1>3. o.term < t /\ NotAbove(InitialRule.num, o)
  BY <1>1 DEF ElectionInv, ElectionOf, RoundBounded
<1>4. o.term # 0
  BY <1>2, <1>3, FirstTermType, NumberOrder
<1>5. t # 0 /\ ~RuleNumberIsUnset(o)
  BY <1>2, <1>3, <1>4 DEF RuleNumberIsUnset
<1>6. IsRuleRevoked(pos, rounds[r].rev) <=>
        /\ d.term < t
        /\ CompareRuleNumbers(d, o) < 0 \/ (CompareRuleNumbers(d, o) = 0 /\ t > n.term)
  BY <1>1, <1>5 DEF IsRuleRevoked, TermOf, Outgoing
<1>7. /\ CompareRuleNumbers(d, o) < 0 <=> ~NotAbove(o, d)
      /\ CompareRuleNumbers(d, o) = 0 <=> d = o
      /\ NotAbove(d, o) <=> (~NotAbove(o, d) \/ d = o)
      /\ NotAbove(d, o) => d.term <= o.term
  BY <1>2, NumberOrder
<1>8. Escapes(pos, r) <=> (~NotAbove(d, o) \/ (d = o /\ t <= n.term))
  BY <1>1 DEF Escapes
<1>9. CASE NotAbove(d, o)
  BY <1>2, <1>3, <1>6, <1>7, <1>8, <1>9
<1>10. CASE ~NotAbove(d, o)
  BY <1>2, <1>6, <1>7, <1>8, <1>10
<1> QED
  BY <1>9, <1>10

\* What a pooler's promise allows, the rounds it accepted before allow.
LEMMA PromiseEscapes ==
    ASSUME Ground, ElectionInv, NEW r \in Rounds, NEW p \in rounds[r].accepted,
           NEW pos \in PositionType, ~IsRuleRevoked(pos, rev[p])
    PROVE  Escapes(pos, r)
<1>1. p \in Poolers /\ Started(r)
  BY RoundTypes DEF Ground, PromiseInv, RoundAuthored, Started
<1>2. TermOf(r) <= rev[p].term /\ NotAbove(Outgoing(r), rev[p].outgoing)
  BY DEF ElectionInv, ElectionOf, AcceptancesStand
<1>3. TermOf(r) \in Nat /\ Outgoing(r) \in RuleNumber /\ FirstTerm < TermOf(r)
  BY <1>1, RoundTypes DEF Ground, ElectionInv, ElectionOf, RoundBounded
<1>4. rev[p] # NoRevocation
  BY <1>2, <1>3, FirstTermType DEF NoRevocation
<1>5. PICK q \in Rounds : Started(q) /\ rev[p] = rounds[q].rev
  BY <1>1, <1>4 DEF Ground, PromiseInv, PromiseOfRound, Started
<1>6. Escapes(pos, q)
  BY <1>5, EscapesRevocation
<1>7. /\ TermOf(r) <= TermOf(q) /\ NotAbove(Outgoing(r), Outgoing(q))
      /\ TermOf(q) \in Nat /\ Outgoing(q) \in RuleNumber
  BY <1>2, <1>5, RoundTypes DEF TermOf, Outgoing, Ground
<1>8. /\ pos.decision.num \in RuleNumber /\ pos.proposal.num \in RuleNumber
      /\ pos.proposal.num.term \in Nat
  BY PositionNumbers
<1>9. CASE ~NotAbove(pos.decision.num, Outgoing(q))
  <2>1. ~NotAbove(pos.decision.num, Outgoing(r))
    BY <1>3, <1>7, <1>8, <1>9, NumberOrder
  <2> QED
    BY <2>1 DEF Escapes
<1>10. CASE pos.decision.num = Outgoing(q) /\ TermOf(q) <= pos.proposal.num.term
  <2>1. TermOf(r) <= pos.proposal.num.term
    BY <1>3, <1>7, <1>8, <1>10
  <2>2. pos.decision.num = Outgoing(r) \/ ~NotAbove(pos.decision.num, Outgoing(r))
    BY <1>3, <1>7, <1>8, <1>10, NumberOrder
  <2> QED
    BY <2>1, <2>2 DEF Escapes
<1> QED
  BY <1>6, <1>9, <1>10 DEF Escapes

\* Someone was proposed as leader at the round's term or later; or a rule later
\* than the one the round would replace has itself been replaced; or an earlier
\* term than the round's has commits and begins above that rule.
LedLater(r, c) == \E q \in Rounds : Proposed(q) /\ TermOf(r) <= TermOf(q) /\ Leader(q) = c

ReplacedLater(r) == \E q \in Rounds : Proposed(q) /\ ~NotAbove(Outgoing(q), Outgoing(r))

DecidedLater(r) ==
    \E q \in Rounds : /\ Proposed(q) /\ durable[TermOf(q)] # 0 /\ TermOf(q) < TermOf(r)
                      /\ ~NotAbove([term |-> TermOf(q), subterm |-> 0], Outgoing(r))

\* Why a pooler that accepted a round may still follow someone.
LEMMA EscapedLead ==
    ASSUME Ground, ElectionInv, NEW r \in Rounds, Started(r), NEW pos, Legit(pos), Escapes(pos, r)
    PROVE  \/ LedLater(r, PossiblyUndecidedRule(pos).leader)
           \/ ReplacedLater(r)
           \/ DecidedLater(r)
<1>1. /\ TermOf(r) \in Nat /\ Outgoing(r) \in RuleNumber
      /\ FirstTerm < TermOf(r) /\ NotAbove(InitialRule.num, Outgoing(r))
  BY RoundTypes DEF Ground, ElectionInv, ElectionOf, RoundBounded
<1>2. TermOf(r) # 0 /\ ~(TermOf(r) <= 0)
  BY <1>1, FirstTermType
<1>3. ASSUME NEW rule, KnownRule(rule), pos = Decided(rule)
      PROVE  ~NotAbove(rule.num, Outgoing(r)) /\ PossiblyUndecidedRule(pos) = rule
  <2>1. pos.decision = rule /\ pos.proposal.num = NoNumber /\ PossiblyUndecidedRule(pos) = rule
    BY <1>3, DecidedParts DEF Ground, AgreementInv
  <2>2. pos.proposal.num.term = 0
    BY <2>1 DEF NoNumber
  <2> QED
    BY <1>2, <2>1, <2>2 DEF Escapes
<1>4. CASE pos = Decided(InitialRule)
  <2>1. KnownRule(InitialRule)
    BY DEF KnownRule
  <2> QED
    BY <1>1, <1>3, <1>4, <2>1
<1>5. ASSUME NEW q \in Rounds, Proposed(q), pos = rounds[q].transition
      PROVE  LedLater(r, PossiblyUndecidedRule(pos).leader) \/ ReplacedLater(r)
  <2>1. /\ pos.decision.num = Outgoing(q) /\ TermOf(q) \in Nat
        /\ pos.proposal.num.term = TermOf(q)
        /\ PossiblyUndecidedRule(pos).leader = Leader(q)
    BY <1>5, ProposedParts, TransitionParts DEF Leader
  <2>2. CASE TermOf(r) <= TermOf(q)
    BY <1>5, <2>1, <2>2 DEF LedLater
  <2>3. CASE ~(TermOf(r) <= TermOf(q))
    <3>1. ~NotAbove(Outgoing(q), Outgoing(r))
      BY <2>1, <2>3 DEF Escapes
    <3> QED
      BY <1>5, <3>1 DEF ReplacedLater
  <2> QED
    BY <2>2, <2>3
<1>6. ASSUME NEW q \in Rounds, Proposed(q), pos = Decided(rounds[q].transition.decision)
      PROVE  ReplacedLater(r)
  <2>1. KnownRule(rounds[q].transition.decision) /\ rounds[q].transition.decision.num = Outgoing(q)
    BY <1>6, ProposedParts
  <2>2. ~NotAbove(Outgoing(q), Outgoing(r))
    BY <1>3, <1>6, <2>1
  <2> QED
    BY <1>6, <2>2 DEF ReplacedLater
<1>7. ASSUME NEW q \in Rounds, Proposed(q), pos = Decided(rounds[q].transition.proposal),
             durable[TermOf(q)] # 0
      PROVE  LedLater(r, PossiblyUndecidedRule(pos).leader) \/ DecidedLater(r)
  <2>1. /\ KnownRule(rounds[q].transition.proposal) /\ TermOf(q) \in Nat
        /\ rounds[q].transition.proposal.num = [term |-> TermOf(q), subterm |-> 0]
    BY <1>7, ProposedParts
  <2>2. /\ ~NotAbove([term |-> TermOf(q), subterm |-> 0], Outgoing(r))
        /\ PossiblyUndecidedRule(pos) = rounds[q].transition.proposal
    BY <1>3, <1>7, <2>1
  <2>3. CASE TermOf(r) <= TermOf(q)
    BY <1>7, <2>2, <2>3 DEF LedLater, Leader
  <2>4. CASE TermOf(q) < TermOf(r)
    BY <1>7, <2>2, <2>4 DEF DecidedLater
  <2> QED
    BY <1>1, <2>1, <2>3, <2>4
<1> QED
  BY <1>4, <1>5, <1>6, <1>7 DEF Legit

\* A pooler that has accepted a round streams only from whom a position leads to
\* that the round does not revoke.
JustifiedConn(r, c) ==
    \E pos : Legit(pos) /\ PossiblyUndecidedRule(pos).leader = c /\ Escapes(pos, r)

\* Whoever has accepted a round follows only whom the round's revocation lets lead.
ConnInv == \A r \in Rounds : \A s \in rounds[r].accepted :
                conn[s] # None => JustifiedConn(r, conn[s])

\* After a step, by a position there was before it.
LEMMA NextJustified ==
    ASSUME Step, ConnInv, NEW r \in Rounds, NEW s \in rounds'[r].accepted, conn'[s] # None
    PROVE  Started(r) /\ s \in rounds[r].accepted /\ JustifiedConn(r, conn'[s])
<1>1. s \in Poolers
  <2>1. rounds'[r] \in RoundType
    BY DEF Step, Ground, TypeOK
  <2>2. rounds'[r].accepted \in SUBSET Poolers
    BY <2>1, Zenon DEF RoundType
  <2> QED
    BY <2>2
<1>2. ASSUME s \in rounds[r].accepted
      PROVE  Started(r) /\ (conn'[s] = conn[s] => JustifiedConn(r, conn'[s]))
  <2>1. Started(r)
    BY <1>2 DEF Step, Ground, PromiseInv, RoundAuthored, Started
  <2> QED
    BY <1>2, <2>1 DEF ConnInv
<1>3. ASSUME NEW q \in Rounds, StartStep(q)
      PROVE  s \in rounds[r].accepted /\ conn'[s] = conn[s]
  BY <1>1, <1>3 DEF StartStep, Idle
<1>4. ASSUME NEW q \in Rounds, NEW p \in Poolers, JoinStep(q, p)
      PROVE  s \in rounds[r].accepted /\ conn'[s] = conn[s]
  <2>1. s # p
    BY <1>4 DEF JoinStep
  <2>2. conn'[s] = conn[s]
    BY <1>1, <1>4, <2>1 DEF JoinStep, OthersIdle, Idle
  <2>3. rounds'[r] = rounds[r] \/ rounds'[r].accepted = rounds[r].accepted \cup {p}
    BY <1>4 DEF JoinStep
  <2> QED
    BY <2>1, <2>2, <2>3
<1>5. ASSUME NEW q \in Rounds, PromoteStep(q)
      PROVE  s \in rounds[r].accepted /\ conn'[s] = conn[s]
  <2>1. rounds'[r].accepted = rounds[r].accepted
    BY <1>5, PromoteRounds DEF Step, SameRound
  <2> QED
    BY <1>1, <1>5, <2>1 DEF PromoteStep, OthersIdle, Idle
<1>6. ASSUME NEW p \in Poolers, LocalStep(p)
      PROVE  s \in rounds[r].accepted /\ JustifiedConn(r, conn'[s])
  <2>1. s \in rounds[r].accepted
    BY <1>6 DEF LocalStep
  <2>2. CASE conn'[s] = conn[s]
    BY <1>2, <2>1, <2>2
  <2>3. CASE conn'[s] # conn[s]
    <3>1. s = p
      BY <1>1, <1>6, <2>3 DEF LocalStep, OthersIdle, Idle
    <3>2. Pointed(s, conn'[s])
      BY <1>6, <2>3, <3>1 DEF LocalStep, WriteStep, StreamStep, RewindStep, QuietStep
    <3>3. PICK pos : /\ Legit(pos) /\ PossiblyUndecidedRule(pos).leader = conn'[s]
                     /\ ~IsRuleRevoked(pos, rev[s])
      BY <3>2 DEF Pointed
    <3>4. pos \in PositionType
      BY <3>3, LegitParts DEF Step, WalInv, ProperPosition
    <3>5. Escapes(pos, r)
      BY <2>1, <3>3, <3>4, PromiseEscapes DEF Step, WalInv
    <3> QED
      BY <2>1, <3>3, <3>5 DEF JustifiedConn
  <2> QED
    BY <2>1, <2>2, <2>3
<1> QED
  BY <1>2, <1>3, <1>4, <1>5, <1>6 DEF Step, Shapes

\* Every step keeps it.
LEMMA NextConnInv ==
    ASSUME Step, ConnInv
    PROVE  ConnInv'
<1>1. ASSUME NEW r \in Rounds, NEW s \in rounds'[r].accepted, NEW c, c = conn'[s], c # None
      PROVE  JustifiedConn(r, c)'
  <2>1. Started(r) /\ JustifiedConn(r, c)
    BY <1>1, NextJustified
  <2>2. PICK pos : Legit(pos) /\ PossiblyUndecidedRule(pos).leader = c /\ Escapes(pos, r)
    BY <2>1 DEF JustifiedConn
  <2>3. Legit(pos)'
    BY <2>2, LegitKept
  <2>4. TermOf(r)' = TermOf(r) /\ Outgoing(r)' = Outgoing(r)
    BY <2>1 DEF Step, RoundsGrow, TermOf, Outgoing
  <2>5. Escapes(pos, r)'
    BY <2>2, <2>4 DEF Escapes
  <2> QED
    BY <2>2, <2>3, <2>5 DEF JustifiedConn
<1> QED
  BY <1>1 DEF ConnInv, JustifiedConn

-----------------------------------------------------------------------------
(* What the poolers have reached.                                          *)

\* A pooler has reached a position: it shows it, or its floor records that it
\* did before a rewind.
Reached(s, m) ==
    \/ Reaches([pos |-> Visible(s), lsn |-> Lsn(s)], m)
    \/ Reaches(floor[s], m)

\* What the recruits of a round have reported they have reached.
RecruitsInv ==
    \A r \in Rounds : \A c \in rounds[r].recruits :
        /\ c.id \in rounds[r].accepted
        /\ Legit(c.pos)
        /\ Reached(c.id, MarkOf(c))

\* A WAL grows, unless it is rewound.
LEMMA GrowsOrRewinds ==
    ASSUME Step, NEW s \in Poolers
    PROVE  \/ RewindStep(s)
           \/ /\ floor'[s] = floor[s]
              /\ Lsn(s) <= Lsn(s)' /\ \A i \in 1..Lsn(s) : wal'[s][i] = wal[s][i]
<1>1. ASSUME floor'[s] = floor[s], wal'[s] = wal[s]
      PROVE  /\ floor'[s] = floor[s]
             /\ Lsn(s) <= Lsn(s)' /\ \A i \in 1..Lsn(s) : wal'[s][i] = wal[s][i]
  BY <1>1, LastRecord DEF Lsn, Step
<1>2. ASSUME floor'[s] = floor[s], NEW x, wal'[s] = Append(wal[s], x)
      PROVE  /\ floor'[s] = floor[s]
             /\ Lsn(s) <= Lsn(s)' /\ \A i \in 1..Lsn(s) : wal'[s][i] = wal[s][i]
  <2>1. Lsn(s) \in Nat
    BY LastRecord DEF Step
  <2>2. Lsn(s)' = Lsn(s) + 1 /\ \A i \in 1..Lsn(s) : wal'[s][i] = wal[s][i]
    BY <1>2, AppendParts DEF Step, Ground
  <2>3. Lsn(s) <= Lsn(s)'
    <3>1. PICK n \in Nat : n = Lsn(s)
      BY <2>1
    <3>2. Lsn(s)' = n + 1
      BY <3>1, <2>2
    <3>3. n <= n + 1
      BY <3>1
    <3> QED
      BY <3>1, <3>2, <3>3
  <2> QED
    BY <1>2, <2>2, <2>3
<1>3. ASSUME NEW r \in Rounds, StartStep(r) PROVE floor'[s] = floor[s] /\ wal'[s] = wal[s]
  BY <1>3 DEF StartStep, Idle
<1>4. ASSUME NEW r \in Rounds, NEW p \in Poolers, JoinStep(r, p)
      PROVE  floor'[s] = floor[s] /\ wal'[s] = wal[s]
  BY <1>4 DEF JoinStep, OthersIdle, Idle
<1>5. ASSUME NEW r \in Rounds, PromoteStep(r)
      PROVE  floor'[s] = floor[s] /\ (wal'[s] = wal[s] \/ \E x : wal'[s] = Append(wal[s], x))
  <2>1. CASE s = Leader(r)
    BY <1>5, <2>1 DEF PromoteStep
  <2>2. CASE s # Leader(r)
    BY <1>5, <2>2 DEF PromoteStep, OthersIdle, Idle
  <2> QED
    BY <2>1, <2>2
<1>6. ASSUME NEW p \in Poolers, LocalStep(p)
      PROVE  \/ RewindStep(s)
             \/ floor'[s] = floor[s] /\ (wal'[s] = wal[s] \/ \E x : wal'[s] = Append(wal[s], x))
  <2>1. CASE s # p
    BY <1>6, <2>1 DEF LocalStep, OthersIdle, Idle
  <2>2. CASE s = p
    BY <1>6, <2>2 DEF LocalStep, WriteStep, StreamStep, QuietStep
  <2> QED
    BY <2>1, <2>2
<1> QED
  BY <1>1, <1>2, <1>3, <1>4, <1>5, <1>6 DEF Step, Shapes

\* What is visible on it only moves forward too.
LEMMA VisibleGrows ==
    ASSUME Step, WalMonotone', NEW s \in Poolers, ~RewindStep(s)
    PROVE  /\ Lsn(s) <= Lsn(s)'
           /\ VisibleLsn(s) <= VisibleLsn(s)'
           /\ PosNotAbove(Visible(s), Visible(s)')
<1>1. /\ Lsn(s) <= Lsn(s)' /\ \A i \in 1..Lsn(s) : wal'[s][i] = wal[s][i]
  BY GrowsOrRewinds
<1>2. /\ Lsn(s) \in Nat \ {0} /\ VisibleLsn(s) \in 1..Lsn(s)
      /\ Lsn(s)' \in Nat \ {0} /\ VisibleLsn(s)' \in 1..Lsn(s)'
  BY WalTypesNext DEF Step, Ground, WalShapes, WalShape
<1>3. VisibleLsn(s) <= VisibleLsn(s)'
  <2>1. CASE prim'[s] = 0
    <3>1. VisibleLsn(s)' = Lsn(s)'
      BY <2>1 DEF VisibleLsn
    <3> QED
      BY <1>1, <1>2, <3>1
  <2>2. CASE prim'[s] # 0
    <3>1. VisibleLsn(s)' = acked'[s] /\ AckedEffect(s)
      BY <2>2 DEF VisibleLsn, Step, ReleaseEffect
    <3>2. CASE prim'[s] # prim[s] /\ acked'[s] = Lsn(s)'
      BY <1>1, <1>2, <3>1, <3>2
    <3>3. CASE prim'[s] = prim[s] /\ acked[s] <= acked'[s]
      BY <2>2, <3>1, <3>3 DEF VisibleLsn
    <3> QED
      BY <2>2, <3>1, <3>2, <3>3 DEF AckedEffect
  <2> QED
    BY <2>1, <2>2
<1>4. PICK i, j : i = VisibleLsn(s) /\ j = VisibleLsn(s)'
  OBVIOUS
<1>5. i \in 1..Lsn(s)' /\ j \in 1..Lsn(s)' /\ i <= j /\ wal'[s][i] = wal[s][i]
  BY <1>1, <1>2, <1>3, <1>4
<1>6. PosNotAbove(wal'[s][i].pos, wal'[s][j].pos)
  BY <1>5 DEF WalMonotone, PosNotAbove
<1> QED
  BY <1>1, <1>3, <1>4, <1>5, <1>6 DEF Visible

\* No floor is set at first: it reaches nothing.
LEMMA NoFloorReaches ==
    ASSUME Ground, NEW m \in MarkType, KnownRule(m.pos.decision), Reaches(NoFloor, m)
    PROVE  FALSE
<1>1. NoFloor \in MarkType /\ NoFloor.pos = NoPosition
  BY AbsentTypes DEF NoFloor, MarkType, FloorType
<1>2. PosNotAbove(m.pos, NoPosition) /\ NoPosition \in PositionType /\ m.pos \in PositionType
  BY <1>1, MarkOrder, AbsentTypes DEF MarkType, FloorType
<1>3. /\ m.pos.decision.num \in RuleNumber /\ FirstTerm <= m.pos.decision.num.term
      /\ m.pos.decision.num.term \in Nat
  BY KnownNumbers DEF Ground, AgreementInv, RuleNumber
<1>4. NoPosition.decision.num = NoNumber /\ NoNumber \in RuleNumber /\ NoNumber.term = 0
  BY DEF NoPosition, NoRule, NoNumber, RuleNumber
<1>5. NotAbove(m.pos.decision.num, NoNumber)
  BY <1>2, <1>3, <1>4, PositionOrder, NumberOrder
<1>6. m.pos.decision.num.term <= 0
  BY <1>3, <1>4, <1>5, NumberOrder
<1> QED
  BY <1>3, <1>6, FirstTermType

\* What a pooler has reached it has reached for good.
LEMMA ReachedKept ==
    ASSUME Step, WalMonotone', NEW s \in Poolers, NEW m \in MarkType, KnownRule(m.pos.decision),
           Reached(s, m)
    PROVE  Reached(s, m)'
<1>1. PICK a, b : a = [pos |-> Visible(s), lsn |-> Lsn(s)] /\ b = [pos |-> Visible(s)', lsn |-> Lsn(s)']
  OBVIOUS
<1>2. a \in MarkType /\ b \in MarkType
  <2>1. Visible(s) \in PositionType /\ Lsn(s) \in Nat /\ Visible(s)' \in PositionType /\ Lsn(s)' \in Nat
    BY WalTypesNext DEF Step, Ground, WalShapes, WalShape
  <2> QED
    BY <1>1, <2>1 DEF MarkType, FloorType
<1>3. Reaches(a, m) \/ Reaches(floor[s], m)
  BY <1>1 DEF Reached
<1>4. Reached(s, m)' <=> Reaches(b, m) \/ Reaches(floor'[s], m)
  BY <1>1 DEF Reached, Reaches
<1>5. CASE RewindStep(s)
  <2>1. floor[s] = NoFloor /\ floor'[s] = a
    BY <1>1, <1>5 DEF RewindStep
  <2> QED
    BY <1>3, <1>4, <2>1, NoFloorReaches DEF Step
<1>6. CASE ~RewindStep(s)
  <2>1. Reaches(b, a)
    <3>1. PosNotAbove(Visible(s), Visible(s)') /\ Lsn(s) <= Lsn(s)'
      BY <1>6, VisibleGrows
    <3>2. PosNotAbove(a.pos, b.pos) /\ a.lsn <= b.lsn
      BY <1>1, <3>1
    <3> QED
      BY <1>2, <3>2, MarkOrder
  <2>2. floor'[s] = floor[s]
    BY <1>6, GrowsOrRewinds
  <2>3. Reaches(a, m) => Reaches(b, m)
    BY <1>2, <2>1, MarkOrder
  <2> QED
    BY <1>3, <1>4, <2>2, <2>3
<1> QED
  BY <1>5, <1>6

\* Joining a round, or being promoted, a pooler holds what it has reached.
LEMMA ReachedHeld ==
    ASSUME Ground, WalInv, NEW p \in Poolers, ~FloorOutstanding(p, LastPos(p)),
           NEW m \in MarkType, Reached(p, m)
    PROVE  Reaches([pos |-> LastPos(p), lsn |-> Lsn(p)], m)
<1>1. PICK a, b, f : /\ a = [pos |-> Visible(p), lsn |-> Lsn(p)]
                     /\ b = [pos |-> LastPos(p), lsn |-> Lsn(p)]
                     /\ f = floor[p]
  OBVIOUS
<1>2. /\ Lsn(p) \in Nat \ {0} /\ Lsn(p) \in 1..Lsn(p) /\ VisibleLsn(p) \in 1..Lsn(p)
      /\ Visible(p) \in PositionType /\ LastPos(p) \in PositionType
      /\ LastPos(p) = wal[p][Lsn(p)].pos
  BY WalTypes, LastRecord DEF Ground
<1>3. a \in MarkType /\ b \in MarkType /\ f \in MarkType
  BY <1>1, <1>2 DEF MarkType, FloorType, Ground, TypeOK
<1>4. PosNotAbove(Visible(p), LastPos(p))
  BY <1>2 DEF WalInv, WalMonotone, Visible
<1>5. Reaches(b, a)
  <2>1. PosNotAbove(a.pos, b.pos) /\ a.lsn <= b.lsn
    BY <1>1, <1>2, <1>4
  <2> QED
    BY <1>3, <2>1, MarkOrder
<1>6. Reaches(b, f)
  BY <1>1, <1>3, MarkOrder DEF FloorOutstanding
<1>7. Reaches(a, m) \/ Reaches(f, m)
  BY <1>1 DEF Reached
<1> QED
  BY <1>1, <1>3, <1>5, <1>6, <1>7, MarkOrder

\* The recruits' reports stay true.
LEMMA NextRecruitsInv ==
    ASSUME Step, WalMonotone', RecruitsInv
    PROVE  RecruitsInv'
<1>1. ASSUME NEW c, NEW r \in Rounds, c \in rounds[r].recruits
      PROVE  /\ c.id \in Poolers /\ c.id \in rounds[r].accepted
             /\ MarkOf(c) \in MarkType /\ KnownRule(MarkOf(c).pos.decision)
             /\ Legit(c.pos)' /\ Reached(c.id, MarkOf(c))'
  <2>1. c \in RecruitType /\ c.id \in Poolers /\ c.pos \in PositionType /\ c.lsn \in Nat
    <3>1. c \in RecruitType
      BY <1>1, RoundTypes DEF Step, Ground
    <3> QED
      BY <3>1 DEF RecruitType
  <2>2. c.id \in rounds[r].accepted /\ Legit(c.pos) /\ Reached(c.id, MarkOf(c))
    BY <1>1 DEF RecruitsInv
  <2>3. MarkOf(c) \in MarkType /\ MarkOf(c).pos = c.pos
    BY <2>1 DEF MarkOf, MarkType, FloorType
  <2>4. KnownRule(c.pos.decision)
    BY <2>2, LegitParts DEF Step, WalInv, ProperPosition, KnownPosition
  <2>5. Legit(c.pos)'
    <3>1. PICK pos : pos = c.pos
      OBVIOUS
    <3> QED
      BY <2>2, <3>1, LegitKept
  <2>6. Reached(c.id, MarkOf(c))'
    <3>1. PICK s, m : s = c.id /\ m = MarkOf(c)
      OBVIOUS
    <3>2. s \in Poolers /\ m \in MarkType /\ KnownRule(m.pos.decision) /\ Reached(s, m)
      BY <2>1, <2>2, <2>3, <2>4, <3>1
    <3>3. Reached(s, m)'
      BY <3>2, ReachedKept
    <3> QED
      BY <3>1, <3>3
  <2> QED
    BY <2>1, <2>2, <2>3, <2>4, <2>5, <2>6
<1>2. ASSUME NEW r \in Rounds, NEW c \in rounds'[r].recruits,
             c \in rounds[r].recruits, rounds[r].accepted \subseteq rounds'[r].accepted
      PROVE  c.id \in rounds'[r].accepted /\ Legit(c.pos)' /\ Reached(c.id, MarkOf(c))'
  BY <1>1, <1>2
<1>3. ASSUME NEW q \in Rounds, StartStep(q), NEW r \in Rounds
      PROVE  rounds'[r].recruits = rounds[r].recruits /\ rounds'[r].accepted = rounds[r].accepted
  BY <1>3 DEF StartStep
<1>4. ASSUME NEW q \in Rounds, PromoteStep(q), NEW r \in Rounds
      PROVE  rounds'[r].recruits = rounds[r].recruits /\ rounds'[r].accepted = rounds[r].accepted
  BY <1>4, PromoteRounds DEF Step, SameRound
<1>5. ASSUME NEW p \in Poolers, LocalStep(p), NEW r \in Rounds
      PROVE  rounds'[r].recruits = rounds[r].recruits /\ rounds'[r].accepted = rounds[r].accepted
  BY <1>5 DEF LocalStep
<1>6. ASSUME NEW q \in Rounds, NEW p \in Poolers, JoinStep(q, p), NEW r \in Rounds,
             NEW c \in rounds'[r].recruits
      PROVE  c.id \in rounds'[r].accepted /\ Legit(c.pos)' /\ Reached(c.id, MarkOf(c))'
  <2>1. rounds[r].accepted \subseteq rounds'[r].accepted /\ (r = q => p \in rounds'[r].accepted)
    BY <1>6, JoinRounds DEF Step, SameRound
  <2>2. CASE c \in rounds[r].recruits
    BY <1>2, <2>1, <2>2
  <2>3. CASE c \notin rounds[r].recruits
    <3>1. r = q /\ c = Answer(p)
      BY <1>6, <2>3 DEF JoinStep, AnswerStep
    <3>2. c.id = p /\ c.pos = LastPos(p) /\ c.lsn = Lsn(p)
      BY <3>1, AnswerKnown DEF Step
    <3>3. Legit(c.pos)'
      <4>1. PICK pos : pos = LastPos(p)
        OBVIOUS
      <4>2. Legit(pos)'
        BY <4>1, LastRecord, LegitKept DEF Step
      <4> QED
        BY <3>2, <4>1, <4>2
    <3>4. MarkOf(c) = [pos |-> Visible(p)', lsn |-> Lsn(p)'] /\ Visible(p)' \in PositionType /\ Lsn(p)' \in Nat
      <4>1. wal'[p] = wal[p] /\ prim'[p] = 0
        BY <1>6 DEF JoinStep
      <4>2. Lsn(p)' = Lsn(p) /\ Visible(p)' = LastPos(p)
        BY <4>1 DEF Lsn, Visible, VisibleLsn, LastPos, Last
      <4>3. Visible(p)' \in PositionType /\ Lsn(p)' \in Nat
        BY WalTypesNext DEF Step, Ground, WalShapes, WalShape
      <4> QED
        BY <3>2, <4>2, <4>3 DEF MarkOf
    <3>5. PICK s, m : s = c.id /\ m = MarkOf(c)
      OBVIOUS
    <3>6. m \in MarkType
      BY <3>4, <3>5 DEF MarkType, FloorType
    <3>7. Reaches(m, m)
      BY <3>6, MarkOrder
    <3>8. Reached(s, m)'
      BY <3>2, <3>4, <3>5, <3>7 DEF Reached, Reaches
    <3> QED
      BY <2>1, <3>1, <3>2, <3>3, <3>5, <3>8
  <2> QED
    BY <2>2, <2>3
<1>7. ASSUME NEW r \in Rounds, NEW c \in rounds'[r].recruits
      PROVE  c.id \in rounds'[r].accepted /\ Legit(c.pos)' /\ Reached(c.id, MarkOf(c))'
  BY <1>2, <1>3, <1>4, <1>5, <1>6 DEF Step, Shapes
<1> QED
  BY <1>7 DEF RecruitsInv

-----------------------------------------------------------------------------
(* When a commit becomes durable, and that revoked terms are fenced.       *)

\* What flushing by p's quorum means: a set that can commit holds p's WAL.
FlushQuorum(p, n) ==
    \E Q \in SUBSET InitialRule.cohort :
        /\ p \in Q /\ SatisfiedBy(InitialRule.policy, Q)
        /\ \A s \in Q : s = p \/ (conn[s] = p /\ IsPrefix(wal[s], wal[p]) /\ n <= Lsn(s))

\* FlushedByQuorum means it.
FlushCovered ==
    \A p \in Poolers : prim[p] # 0 => \A n \in FlushedByQuorum(p) : FlushQuorum(p, n)

\* Postgres waits for a quorum of the durability policy.
LEMMA FlushedCovered ==
    /\ TypeOK /\ AgreementInv => FlushCovered
    /\ TypeOK' /\ AgreementInv' => FlushCovered'
<1>1. TypeOK /\ AgreementInv => FlushCovered
  <2> SUFFICES ASSUME TypeOK, AgreementInv, NEW p \in Poolers, prim[p] # 0,
                      NEW n \in FlushedByQuorum(p)
               PROVE  FlushQuorum(p, n)
    BY DEF FlushCovered
  <2>1. /\ CanBuildSyncReplicationConfig(FirstPolicy, p)
        /\ guc[p] = BuildSyncReplicationConfig(FirstPolicy, p)
    BY DEF AgreementInv, PoolerKnown, PrimarySynced
  <2>2. PICK policy, cohort : policy = InitialRule.policy /\ cohort = InitialRule.cohort
    OBVIOUS
  <2>3. FirstPolicy = [policy |-> policy, cohort |-> cohort]
    BY <2>2 DEF FirstPolicy, PolicyWithCohort
  <2>4. policy \in Policies /\ cohort \in SUBSET Poolers
    BY <2>2, FirstTermType, RuleParts
  <2> DEFINE S == {s \in {f \in guc[p].standbys : Streaming(f, p)} : Lsn(s) >= n}
  <2>5. Cardinality(S) >= guc[p].numSync
    BY DEF FlushedByQuorum
  <2>6. S \subseteq guc[p].standbys
    OBVIOUS
  <2> HIDE DEF S
  <2>7. S \cup {p} \subseteq cohort /\ SatisfiedBy(policy, S \cup {p})
    BY <2>1, <2>3, <2>4, <2>5, <2>6, CommitQuorumSatisfiesPolicy
  <2>8. ASSUME NEW s \in S PROVE conn[s] = p /\ IsPrefix(wal[s], wal[p]) /\ n <= Lsn(s)
    <3>1. Streaming(s, p) /\ Lsn(s) >= n /\ s \in Poolers
      BY <2>4, <2>7 DEF S
    <3>2. Lsn(s) \in Nat /\ n \in Nat
      BY <3>1, WalTypes DEF FlushedByQuorum
    <3> QED
      BY <3>1, <3>2 DEF Streaming
  <2>9. PICK Q : Q = S \cup {p}
    OBVIOUS
  <2> QED
    BY <2>2, <2>7, <2>8, <2>9 DEF FlushQuorum
<1> QED
  BY <1>1, PTL

\* A primary that neither writes nor gains a standby has nothing more flushed.
LEMMA FlushedKept ==
    ASSUME TypeOK, TypeOK', AgreementInv, AgreementInv', NEW p \in Poolers,
           prim[p] # 0, prim'[p] # 0,
           wal'[p] = wal[p],
           \A s \in Poolers : conn'[s] = p => conn[s] = p /\ wal'[s] = wal[s],
           NEW n \in FlushedByQuorum(p)'
    PROVE  n \in FlushedByQuorum(p)
<1>1. guc'[p] = guc[p]
  BY DEF AgreementInv, PoolerKnown, PrimarySynced
<1>2. guc[p] \in SyncType
  BY DEF TypeOK
<1>3. guc[p].standbys \in SUBSET Poolers /\ guc[p].numSync \in Nat
  BY <1>2 DEF SyncType
<1>4. PICK k : k = guc[p].numSync
  OBVIOUS
<1>5. PICK B : B = guc[p].standbys
  OBVIOUS
<1> DEFINE S == {s \in {f \in B : Streaming(f, p)} : Lsn(s) >= n}
           T == {s \in {f \in B : conn'[f] = p /\ IsPrefix(wal'[f], wal'[p])} : Len(wal'[s]) >= n}
<1>6. n \in 1..Lsn(p) /\ Cardinality(T) >= k
  BY <1>1, <1>4, <1>5 DEF FlushedByQuorum, Streaming, Lsn
<1>7. T \subseteq S
  BY <1>3, <1>5 DEF Streaming, Lsn
<1>8. S \in SUBSET Poolers
  BY <1>3, <1>5
<1> HIDE DEF S, T
<1>9. IsFiniteSet(S)
  BY <1>8, PoolersAssumption, FS_Subset
<1>10. Cardinality(T) <= Cardinality(S) /\ IsFiniteSet(T)
  BY <1>7, <1>9, FS_Subset
<1>11. Cardinality(S) \in Nat /\ Cardinality(T) \in Nat
  BY <1>9, <1>10, FS_CardinalityType
<1>12. Cardinality(S) >= k
  BY <1>3, <1>4, <1>6, <1>10, <1>11
<1> QED
  BY <1>4, <1>5, <1>6, <1>12 DEF FlushedByQuorum, S

\* How the highest commit of a term comes to be higher: its primary's standbys
\* have flushed one more write, and nothing else happens to the rounds.
Grows(t, p) ==
    /\ prim[p] = t /\ prim'[p] = t
    /\ durable[t] < durable'[t] /\ durable'[t] \in Committed(p)'
    /\ durable'[t] <= acked'[p] /\ acked'[p] \in FlushedByQuorum(p)'
    /\ rounds' = rounds
    /\ \A i \in 1..Lsn(p) : wal'[p][i] = wal[p][i]
    /\ Lsn(p) <= Lsn(p)'

\* A primary in office stays where it is, or appends.
LEMMA InOffice ==
    ASSUME Step, NEW p \in Poolers, prim[p] # 0, prim'[p] = prim[p]
    PROVE  Lsn(p) <= Lsn(p)' /\ \A i \in 1..Lsn(p) : wal'[p][i] = wal[p][i]
<1>1. \/ RewindStep(p)
      \/ Lsn(p) <= Lsn(p)' /\ \A i \in 1..Lsn(p) : wal'[p][i] = wal[p][i]
  BY GrowsOrRewinds
<1> QED
  BY <1>1 DEF RewindStep

\* A promotion commits nothing.
LEMMA CommitterStays ==
    ASSUME Step, NEW p \in Poolers, NEW n \in Committed(p)', prim'[p] # 0
    PROVE  prim'[p] = prim[p]
<1>1. /\ n \in 1..VisibleLsn(p)' /\ wal'[p][n].by = prim'[p]
      /\ wal'[p][n].kind # "switch"
  BY DEF Committed
<1>2. /\ Lsn(p) \in Nat \ {0} /\ Lsn(p)' \in Nat \ {0} /\ VisibleLsn(p)' \in 1..Lsn(p)'
  BY WalTypesNext DEF Step, Ground, WalShapes, WalShape
<1>3. n \in 1..Lsn(p)'
  BY <1>1, <1>2
<1>4. CASE Copies
  BY <1>4 DEF Copies
<1>5. ASSUME NEW r \in Rounds, NEW o \in Poolers, NEW x, Switches(r, o, x)
      PROVE  prim'[p] = prim[p]
  <2>1. CASE p # o
    BY <1>5, <2>1 DEF Switches, Appends, OthersIdle, Idle
  <2>2. CASE p = o
    <3>1. /\ Lsn(p)' = Lsn(p) + 1 /\ prim'[p] = x.by
          /\ \A i \in 1..Lsn(p) : wal'[p][i] = wal[p][i]
          /\ wal'[p][Lsn(p) + 1] = x
      BY <1>5, <2>2 DEF Switches, Appends
    <3>2. x.by = TermOf(r) /\ x.kind = "switch" /\ Proposed(r)
      BY <1>5 DEF Switches
    <3>3. n \in 1..Lsn(p) /\ wal[p][n].by = TermOf(r)
      BY <1>1, <1>2, <1>3, <3>1, <3>2
    <3>4. Written(wal[p][n])
      BY <3>3 DEF Step, WalInv, WalWritten
    <3>5. WrittenIn(wal[p][n], r)
      BY <3>2, <3>3, <3>4, WrittenBy DEF Step, WalInv
    <3>6. rounds[r].phase = "promoting" /\ rounds[r].phase = "proposed"
      BY <1>5, <3>5 DEF WrittenIn, Switches, PromoteStep
    <3> QED
      BY <3>6
  <2> QED
    BY <2>1, <2>2
<1>6. ASSUME NEW o \in Poolers, NEW x, Writes(o, x) PROVE prim'[p] = prim[p]
  BY <1>6 DEF Writes, Appends, OthersIdle, Idle
<1> QED
  BY <1>4, <1>5, <1>6, StepAppends

\* More can be flushed only by a pooler's own step.
LEMMA FlushedLocally ==
    ASSUME Step, NEW p \in Poolers, prim[p] # 0, prim'[p] = prim[p],
           acked[p] < acked'[p], acked'[p] \in FlushedByQuorum(p)'
    PROVE  rounds' = rounds
<1>1. acked[p] \in Nat /\ acked'[p] \in Nat
  BY DEF Step, Ground, TypeOK
<1>2. acked'[p] \notin FlushedByQuorum(p)
  BY <1>1 DEF Step, WalInv, ReleasedInv
<1>3. TypeOK /\ TypeOK' /\ AgreementInv /\ AgreementInv'
  BY DEF Step, Ground
<1>4. PICK n : n = acked'[p]
  OBVIOUS
<1>5. n \in FlushedByQuorum(p)' /\ n \notin FlushedByQuorum(p)
  BY <1>2, <1>4
<1>6. None \notin Poolers
  BY ConstantsAssumption
<1>7. ASSUME NEW r \in Rounds, StartStep(r) PROVE FALSE
  <2>1. wal'[p] = wal[p] /\ \A s \in Poolers : conn'[s] = conn[s] /\ wal'[s] = wal[s]
    BY <1>7 DEF StartStep, Idle
  <2> QED
    BY <1>3, <1>5, <2>1, FlushedKept
<1>8. ASSUME NEW r \in Rounds, NEW j \in Poolers, JoinStep(r, j) PROVE FALSE
  <2>1. /\ \A s \in Poolers : wal'[s] = wal[s]
        /\ \A s \in Poolers : conn'[s] = conn[s] \/ conn'[s] = None
    BY <1>8 DEF JoinStep, OthersIdle, Idle
  <2> QED
    BY <1>3, <1>5, <1>6, <2>1, FlushedKept
<1>9. ASSUME NEW r \in Rounds, PromoteStep(r) PROVE FALSE
  <2>1. Leader(r) # p
    BY <1>9 DEF PromoteStep
  <2>2. \A s \in Poolers : s # Leader(r) => wal'[s] = wal[s] /\ conn'[s] = conn[s]
    BY <1>9 DEF PromoteStep, OthersIdle, Idle
  <2>3. conn'[Leader(r)] = None
    BY <1>9 DEF PromoteStep
  <2> QED
    BY <1>3, <1>5, <1>6, <2>1, <2>2, <2>3, FlushedKept
<1> QED
  BY <1>7, <1>8, <1>9 DEF Step, Shapes, LocalStep

\* What becomes durable was flushed by the quorum of its term's primary.
LEMMA GrowthSource ==
    ASSUME Step, NEW t \in Terms, durable'[t] # durable[t]
    PROVE  \E p \in Poolers : Grows(t, p)
<1>1. PICK p \in Poolers : prim'[p] = t /\ durable'[t] \in Committed(p)'
  BY DEF Step, ReleaseEffect, DurableEffect
<1>2. durable[t] \in Nat /\ durable'[t] \in Nat /\ durable[t] < durable'[t]
  BY DEF Step, ReleaseEffect, DurableEffect, Ground, TypeOK
<1>3. t # 0
  BY FirstTermType, ConstantsAssumption DEF Terms
<1>4. prim[p] = t
  BY <1>1, <1>3, CommitterStays
<1>5. Lsn(p) <= Lsn(p)' /\ \A i \in 1..Lsn(p) : wal'[p][i] = wal[p][i]
  BY <1>1, <1>3, <1>4, InOffice
<1>6. /\ acked[p] \in Nat /\ acked'[p] \in Nat /\ acked[p] <= Lsn(p) /\ Lsn(p) \in Nat
  BY WalTypesNext DEF Step, Ground, TypeOK, WalShapes, WalShape
<1>7. PICK n : n = durable'[t]
  OBVIOUS
<1>8. /\ n \in 1..acked'[p]
      /\ wal'[p][n].by = t
      /\ \/ wal'[p][n].kind = "data"
         \/ wal'[p][n].kind = "rule" /\ PossiblyUndecidedRule(wal'[p][n].pos).num.term = t
  BY <1>1, <1>3, <1>7 DEF Committed, VisibleLsn
<1>9. acked[p] < n
  <2> SUFFICES ASSUME ~(acked[p] < n) PROVE FALSE
    OBVIOUS
  <2>1. n \in 1..acked[p] /\ n \in 1..Lsn(p)
    BY <1>6, <1>8
  <2>2. wal[p][n] = wal'[p][n]
    BY <1>5, <2>1
  <2>3. n \in Committed(p)
    BY <1>3, <1>4, <1>8, <2>1, <2>2 DEF Committed, VisibleLsn
  <2>4. n <= durable[t]
    BY <1>3, <1>4, <2>3 DEF Step, WalInv, ReleasedInv
  <2> QED
    BY <1>2, <1>7, <2>4
<1>10. n <= acked'[p] /\ acked[p] < acked'[p]
  BY <1>6, <1>8, <1>9
<1>11. acked'[p] \in FlushedByQuorum(p)'
  <2>1. AckedEffect(p)
    BY DEF Step, ReleaseEffect
  <2>2. acked'[p] # acked[p]
    BY <1>6, <1>10
  <2> QED
    BY <1>1, <1>3, <1>4, <2>1, <2>2 DEF AckedEffect
<1>12. rounds' = rounds
  BY <1>1, <1>3, <1>4, <1>10, <1>11, FlushedLocally
<1> QED
  BY <1>1, <1>2, <1>4, <1>5, <1>7, <1>10, <1>11, <1>12 DEF Grows

\* The number a round's rule has.
FirstOf(t) == [term |-> t, subterm |-> 0]

\* Once a commit of a round's term is durable, no round of a later term was
\* authored against an earlier rule and proposed.
DurableBelow(t, r) == t # FirstTerm => NotAbove(FirstOf(t), Outgoing(r))
LaterAuthoredAbove ==
    \A t \in Terms : \A r \in Rounds :
        durable[t] # 0 /\ Proposed(r) /\ t < TermOf(r) => DurableBelow(t, r)

\* The last of the rounds that have proposed.
LEMMA LastProposed ==
    ASSUME Ground, ElectionInv, NEW r \in Rounds, Proposed(r)
    PROVE  \E z \in Rounds : /\ Proposed(z)
                             /\ \A q \in Rounds : Proposed(q) => TermOf(q) <= TermOf(z)
<1> DEFINE T == {TermOf(q) : q \in {o \in Rounds : Proposed(o)}}
<1>1. PICK b : b = FirstTerm + NumRounds
  OBVIOUS
<1>2. b \in Nat
  BY <1>1, FirstTermType, ConstantsAssumption
<1>3. \A q \in Rounds : Proposed(q) => TermOf(q) \in Nat /\ TermOf(q) <= b
  <2> SUFFICES ASSUME NEW q \in Rounds, Proposed(q) PROVE TermOf(q) \in Nat /\ TermOf(q) <= b
    OBVIOUS
  <2>1. TermOf(q) \in Nat /\ TermOf(q) \in Terms
    BY ProposedParts
  <2> QED
    BY <1>1, <2>1 DEF Terms
<1>4. T \in SUBSET Nat /\ T # {} /\ \A x \in T : x <= b
  BY <1>3
<1>5. Max(T) \in T /\ \A x \in T : x <= Max(T)
  <2> HIDE DEF T
  <2> QED
    BY <1>2, <1>4, MaxOfBounded
<1> QED
  BY <1>5

\* Whoever has accepted the last proposed round follows no primary of an
\* earlier term.
LEMMA LastFollowsNone ==
    ASSUME Step, ConnInv, LaterAuthoredAbove, rounds' = rounds,
           NEW z \in Rounds, Proposed(z),
           \A q \in Rounds : Proposed(q) => TermOf(q) <= TermOf(z),
           NEW p \in Poolers, prim'[p] # 0, prim'[p] < TermOf(z),
           NEW s \in rounds[z].accepted
    PROVE  s # p /\ conn'[s] # p
<1>1. \A q \in Rounds : \A a \in rounds[q].accepted :
         prim'[a] = 0 \/ TermOf(q) <= prim'[a]
  <2> SUFFICES ASSUME NEW q \in Rounds, NEW a \in rounds[q].accepted
               PROVE  prim'[a] = 0 \/ TermOf(q) <= prim'[a]
    OBVIOUS
  <2>1. AcceptancesStand(q)'
    BY DEF Step, ElectionInv, ElectionOf
  <2> QED
    BY <2>1 DEF AcceptancesStand, TermOf
<1>2. TermOf(z) \in Nat /\ prim'[p] \in Nat
  <2>1. TermOf(z) \in Nat
    BY ProposedParts DEF Step, WalInv
  <2> QED
    BY <2>1 DEF Step, Ground, TypeOK
<1>3. s # p
  BY <1>1, <1>2
<1>4. ASSUME conn'[s] = p PROVE FALSE
  <2>1. p # None
    BY ConstantsAssumption
  <2>2. s \in rounds'[z].accepted
    OBVIOUS
  <2>3. JustifiedConn(z, p)
    BY <1>4, <2>1, <2>2, NextJustified
  <2>4. PICK pos : Legit(pos) /\ PossiblyUndecidedRule(pos).leader = p /\ Escapes(pos, z)
    BY <2>3 DEF JustifiedConn
  <2>5. Started(z)
    BY DEF Proposed, Started
  <2>6. LedLater(z, p) \/ ReplacedLater(z) \/ DecidedLater(z)
    BY <2>4, <2>5, EscapedLead DEF Step, WalInv
  <2>7. CASE LedLater(z, p)
    <3>1. PICK q \in Rounds : Proposed(q) /\ TermOf(z) <= TermOf(q) /\ Leader(q) = p
      BY <2>7 DEF LedLater
    <3>2. TermOf(q) \in Nat /\ p \in rounds[q].accepted
      BY <3>1, ProposedParts DEF Step, WalInv
    <3> QED
      BY <1>1, <1>2, <3>1, <3>2
  <2>8. CASE ReplacedLater(z)
    <3>1. PICK q \in Rounds : Proposed(q) /\ ~NotAbove(Outgoing(q), Outgoing(z))
      BY <2>8 DEF ReplacedLater
    <3>2. TermOf(q) \in Nat /\ TermOf(q) <= TermOf(z) /\ Outgoing(z) \in RuleNumber
      BY <3>1, ProposedParts DEF Step, WalInv
    <3>3. /\ TermOf(q) = TermOf(z) => q = z
          /\ TermOf(q) < TermOf(z) => NotAbove(Outgoing(q), Outgoing(z))
      BY <3>1, ProposalsOrdered DEF Step, Ground, WalInv, ElectionInv
    <3>4. NotAbove(Outgoing(z), Outgoing(z))
      BY <3>2, NumberOrder
    <3> QED
      BY <1>2, <3>1, <3>2, <3>3, <3>4
  <2>9. CASE DecidedLater(z)
    <3>1. PICK q \in Rounds :
             /\ Proposed(q) /\ durable[TermOf(q)] # 0 /\ TermOf(q) < TermOf(z)
             /\ ~NotAbove([term |-> TermOf(q), subterm |-> 0], Outgoing(z))
      BY <2>9 DEF DecidedLater
    <3>2. TermOf(q) \in Terms /\ FirstTerm < TermOf(q) /\ TermOf(q) \in Nat
      BY <3>1, ProposedParts DEF Step, WalInv
    <3>3. TermOf(q) # FirstTerm
      BY <3>2, FirstTermType
    <3>4. DurableBelow(TermOf(q), z)
      BY <3>1, <3>2 DEF LaterAuthoredAbove
    <3> QED
      BY <3>1, <3>3, <3>4 DEF DurableBelow, FirstOf
  <2> QED
    BY <2>6, <2>7, <2>8, <2>9
<1> QED
  BY <1>3, <1>4

\* No commit of a term becomes durable after a round of a later one proposed.
LEMMA Fenced ==
    ASSUME Step, ConnInv, LaterAuthoredAbove, NEW t \in Terms, NEW p \in Poolers, Grows(t, p),
           NEW r \in Rounds, Proposed(r), t < TermOf(r)
    PROVE  FALSE
<1>1. PICK z \in Rounds : /\ Proposed(z)
                          /\ \A q \in Rounds : Proposed(q) => TermOf(q) <= TermOf(z)
  BY LastProposed DEF Step, WalInv
<1>2. t \in Nat /\ t # 0 /\ TermOf(r) \in Nat /\ TermOf(z) \in Nat
  <2>1. TermOf(r) \in Nat /\ TermOf(z) \in Nat
    BY <1>1, ProposedParts DEF Step, WalInv
  <2> QED
    BY <2>1, FirstTermType, ConstantsAssumption DEF Terms
<1>3. t < TermOf(z)
  BY <1>1, <1>2
<1>4. prim'[p] = t /\ rounds' = rounds /\ acked'[p] \in FlushedByQuorum(p)'
  BY DEF Grows
<1>5. FlushCovered'
  BY FlushedCovered DEF Step, Ground
<1>6. PICK n : n = acked'[p]
  OBVIOUS
<1>7. FlushQuorum(p, n)'
  BY <1>2, <1>4, <1>5, <1>6 DEF FlushCovered
<1>8. PICK Q \in SUBSET InitialRule.cohort :
         /\ SatisfiedBy(InitialRule.policy, Q)
         /\ \A s \in Q : s = p \/ conn'[s] = p
  BY <1>7 DEF FlushQuorum
<1>9. \A s \in Q : s \notin rounds[z].accepted
  BY <1>1, <1>2, <1>3, <1>4, <1>8, LastFollowsNone
<1>10. PICK policy, cohort : policy = InitialRule.policy /\ cohort = InitialRule.cohort
  OBVIOUS
<1>11. policy \in Policies /\ cohort \in SUBSET Poolers
  BY <1>10, FirstTermType, RuleParts
<1>12. ~SatisfiedBy(policy, cohort \ (cohort \cap rounds[z].accepted))
  BY <1>1, <1>10 DEF Step, WalInv, ElectionInv, ElectionOf, ProposalBuilt,
                     CheckUnrecruitedCannotCommit
<1>13. PICK T : T = cohort \ (cohort \cap rounds[z].accepted)
  OBVIOUS
<1>14. T \in SUBSET Poolers /\ Q \in SUBSET T
  BY <1>8, <1>9, <1>10, <1>11, <1>13
<1> QED
  BY <1>8, <1>10, <1>11, <1>12, <1>13, <1>14, SatisfiedByMonotone

-----------------------------------------------------------------------------
(* The ledger: what becomes of the last commit of each term.               *)

\* A set of poolers that can commit.
Quorum(Q) == Q \in SUBSET InitialRule.cohort /\ SatisfiedBy(InitialRule.policy, Q)

\* The recruits of a round, however many more will come, cannot miss mark.
Covered(r, mark) ==
    \E Q : /\ Quorum(Q)
           /\ \A s \in Q : /\ Reached(s, mark)
                           /\ \A c \in rounds[r].recruits : c.id = s => Reaches(MarkOf(c), mark)

\* A round that can no longer propose: what it was authored against has been
\* replaced, by a rule its recruits cannot miss, or by another proposal.
Overtaken(r) ==
    \/ \E q \in Rounds :
         /\ Proposed(q) /\ durable[TermOf(q)] # 0 /\ TermOf(q) < TermOf(r)
         /\ ~NotAbove(FirstOf(TermOf(q)), Outgoing(r))
         /\ Covered(r, [pos |-> rounds[q].transition, lsn |-> 0])
    \/ \E q \in Rounds :
         Proposed(q) /\ TermOf(q) < TermOf(r) /\ ~NotAbove(Outgoing(q), Outgoing(r))

\* The last commit of term t is the n-th record of w; m marks it.
CommitOf(t, n, w, m) ==
    /\ n = durable[t] /\ n \in Nat /\ n # 0
    /\ w[n].by = t /\ m = [pos |-> w[n].pos, lsn |-> n]
    /\ \/ t = FirstTerm /\ w[n].pos = Decided(InitialRule)
       \/ \E r \in Rounds :
            /\ rounds[r].phase = "promoting" /\ TermOf(r) = t
            /\ w[n].pos \in {rounds[r].transition, Decided(rounds[r].transition.proposal)}
    /\ \A i, j \in 1..n : i <= j => PosNotAbove(w[i].pos, w[j].pos)

\* Whoever has a record of that term has the commit's past, as far as it goes;
\* the primary, and whoever has a record of a later term, has the commit.
LedgerWals(t, n, w) ==
    /\ \A q \in Poolers : \A i \in 1..Lsn(q) : wal[q][i].by = t =>
          \A j \in 1..i : j <= n => wal[q][j] = w[j]
    /\ \A q \in Poolers : prim[q] = t => n <= Lsn(q)
    /\ \A q \in Poolers : \A i \in 1..Lsn(q) : wal[q][i].by > t =>
          n <= i /\ \A j \in 1..n : wal[q][j] = w[j]

\* A quorum has reached the commit; a later round either cannot miss it or will
\* not propose; who has been proposed has reached it.
LedgerReached(m) == \E Q : Quorum(Q) /\ \A s \in Q : Reached(s, m)
LedgerRecruits(t, m) ==
    \A r \in Rounds : rounds[r].phase = "recruiting" /\ t < TermOf(r) =>
        Overtaken(r) \/ Covered(r, m)
LedgerProposed(t, m) ==
    \A r \in Rounds : Proposed(r) /\ t < TermOf(r) =>
        Reached(Leader(r), m) /\ DurableBelow(t, r)

\* All of it, with n the LSN of the last commit of term t, w a WAL that holds it,
\* and m the mark to reach.
Ledger(t, n, w, m) ==
    /\ CommitOf(t, n, w, m)
    /\ LedgerWals(t, n, w)
    /\ LedgerReached(m)
    /\ LedgerRecruits(t, m)
    /\ LedgerProposed(t, m)

\* Every term with a commit has its ledger.
LedgerInv ==
    \A t \in Terms : durable[t] # 0 => \E n, w, m : Ledger(t, n, w, m)

\* The ledger orders the rounds after a durable term.
LEMMA LedgerAbove ==
    ASSUME LedgerInv
    PROVE  LaterAuthoredAbove
<1> SUFFICES ASSUME NEW t \in Terms, NEW r \in Rounds, durable[t] # 0, Proposed(r), t < TermOf(r)
             PROVE  DurableBelow(t, r)
  BY DEF LaterAuthoredAbove
<1>1. PICK n, w, m : Ledger(t, n, w, m)
  BY DEF LedgerInv
<1> QED
  BY <1>1 DEF Ledger, LedgerProposed

\* Terms are naturals.
LEMMA TermTypes ==
    ASSUME NEW t \in Terms
    PROVE  t \in Nat /\ t # 0 /\ FirstTerm <= t
BY FirstTermType, ConstantsAssumption DEF Terms

\* The positions of a round are above those of the rounds before it.
LEMMA TransitionsOrdered ==
    ASSUME Ground, ElectionInv, LaterAuthoredAbove, NEW q \in Rounds, NEW r \in Rounds,
           Proposed(q), Proposed(r), TermOf(q) < TermOf(r)
    PROVE  /\ ~PosNotAbove(rounds[r].transition, rounds[q].transition)
           /\ durable[TermOf(q)] # 0 =>
                ~PosNotAbove(rounds[r].transition, Decided(rounds[q].transition.proposal))
<1>1. /\ rounds[q].transition \in PositionType
      /\ rounds[q].transition.decision.num = Outgoing(q)
      /\ rounds[q].transition.proposal.num = FirstOf(TermOf(q))
      /\ KnownRule(rounds[q].transition.proposal)
      /\ TermOf(q) \in Nat /\ TermOf(q) \in Terms /\ Outgoing(q) \in RuleNumber
      /\ FirstTerm < TermOf(q)
  BY ProposedParts DEF FirstOf
<1>2. /\ rounds[r].transition \in PositionType
      /\ rounds[r].transition.decision.num = Outgoing(r)
      /\ rounds[r].transition.proposal.num = FirstOf(TermOf(r))
      /\ TermOf(r) \in Nat /\ Outgoing(r) \in RuleNumber
  BY ProposedParts DEF FirstOf
<1>3. NotAbove(Outgoing(q), Outgoing(r))
  BY ProposalsOrdered DEF Ground, ElectionInv
<1>4. /\ FirstOf(TermOf(q)) \in RuleNumber /\ FirstOf(TermOf(r)) \in RuleNumber
      /\ FirstOf(TermOf(q)).term = TermOf(q) /\ FirstOf(TermOf(r)).term = TermOf(r)
  BY <1>1, <1>2 DEF FirstOf, RuleNumber
<1>5. ~NotAbove(FirstOf(TermOf(r)), FirstOf(TermOf(q)))
  BY <1>4, NumberOrder
<1>6. ~PosNotAbove(rounds[r].transition, rounds[q].transition)
  <2>1. PosNotAbove(rounds[r].transition, rounds[q].transition) <=>
          \/ ~NotAbove(Outgoing(q), Outgoing(r))
          \/ /\ Outgoing(r) = Outgoing(q)
             /\ NotAbove(FirstOf(TermOf(r)), FirstOf(TermOf(q)))
    BY <1>1, <1>2, PositionOrder
  <2> QED
    BY <1>3, <1>5, <2>1
<1>7. ASSUME durable[TermOf(q)] # 0
      PROVE  ~PosNotAbove(rounds[r].transition, Decided(rounds[q].transition.proposal))
  <2>1. PICK d : d = Decided(rounds[q].transition.proposal)
    OBVIOUS
  <2>2. d \in PositionType /\ d.decision.num = FirstOf(TermOf(q)) /\ d.proposal.num = NoNumber
    BY <1>1, <2>1, DecidedParts DEF Ground, AgreementInv
  <2>3. NotAbove(FirstOf(TermOf(q)), Outgoing(r))
    <3>1. DurableBelow(TermOf(q), r)
      BY <1>1, <1>7 DEF LaterAuthoredAbove
    <3> QED
      BY <1>1, <3>1, FirstTermType DEF DurableBelow
  <2>4. ~NotAbove(FirstOf(TermOf(r)), NoNumber)
    <3>1. NoNumber \in RuleNumber /\ NoNumber.term = 0
      BY AbsentTypes DEF NoNumber
    <3>2. 0 < TermOf(r)
      BY <1>1, <1>2, FirstTermType
    <3> QED
      BY <1>4, <3>1, <3>2, NumberOrder
  <2>5. PosNotAbove(rounds[r].transition, d) <=>
          \/ ~NotAbove(FirstOf(TermOf(q)), Outgoing(r))
          \/ Outgoing(r) = FirstOf(TermOf(q)) /\ NotAbove(FirstOf(TermOf(r)), NoNumber)
    BY <1>1, <1>2, <2>2, PositionOrder
  <2> QED
    BY <2>1, <2>3, <2>4, <2>5
<1> QED
  BY <1>6, <1>7

\* The first rule is below every proposal.
LEMMA InitialBelow ==
    ASSUME Ground, ElectionInv, NEW r \in Rounds, Proposed(r)
    PROVE  ~PosNotAbove(rounds[r].transition, Decided(InitialRule))
<1>1. /\ rounds[r].transition \in PositionType
      /\ rounds[r].transition.decision.num = Outgoing(r)
      /\ rounds[r].transition.proposal.num = FirstOf(TermOf(r))
      /\ TermOf(r) \in Nat /\ Outgoing(r) \in RuleNumber
      /\ FirstTerm < TermOf(r) /\ NotAbove(InitialRule.num, Outgoing(r))
  BY ProposedParts DEF FirstOf
<1>2. PICK d : d = Decided(InitialRule)
  OBVIOUS
<1>3. d \in PositionType /\ d.decision.num = InitialRule.num /\ d.proposal.num = NoNumber
  BY <1>2, DecidedParts DEF Ground, AgreementInv, KnownRule
<1>4. ~NotAbove(FirstOf(TermOf(r)), NoNumber)
  <2>1. NoNumber \in RuleNumber /\ NoNumber.term = 0
    BY AbsentTypes DEF NoNumber
  <2>2. FirstOf(TermOf(r)) \in RuleNumber /\ 0 < FirstOf(TermOf(r)).term
    BY <1>1, FirstTermType DEF FirstOf, RuleNumber
  <2> QED
    BY <2>1, <2>2, NumberOrder
<1>5. PosNotAbove(rounds[r].transition, d) <=>
        \/ ~NotAbove(InitialRule.num, Outgoing(r))
        \/ Outgoing(r) = InitialRule.num /\ NotAbove(FirstOf(TermOf(r)), NoNumber)
  BY <1>1, <1>3, PositionOrder
<1> QED
  BY <1>1, <1>2, <1>4, <1>5

\* What was written in earlier terms is below a round's proposal.
LEMMA EarlierBelow ==
    ASSUME Ground, ElectionInv, LaterAuthoredAbove, NEW r \in Rounds, Proposed(r),
           NEW x, Written(x), ProperPosition(x.pos), x.by < TermOf(r)
    PROVE  ~PosNotAbove(rounds[r].transition, x.pos)
<1>1. PICK pos : pos = x.pos
  OBVIOUS
<1>2. pos \in PositionType /\ rounds[r].transition \in PositionType
  BY <1>1, ProposedParts DEF ProperPosition
<1>3. CASE x.by = FirstTerm /\ x.pos = Decided(InitialRule)
  BY <1>3, InitialBelow
<1>4. ASSUME NEW q \in Rounds, WrittenIn(x, q)
      PROVE  ~PosNotAbove(rounds[r].transition, x.pos)
  <2>1. Proposed(q) /\ x.by = TermOf(q)
    BY <1>4 DEF WrittenIn, Proposed
  <2>2. /\ ~PosNotAbove(rounds[r].transition, rounds[q].transition)
        /\ durable[TermOf(q)] # 0 =>
             ~PosNotAbove(rounds[r].transition, Decided(rounds[q].transition.proposal))
    BY <2>1, TransitionsOrdered
  <2>3. CASE PossiblyUndecidedRule(x.pos) = rounds[q].transition.decision
    <3>1. PosNotAbove(pos, rounds[q].transition)
      BY <1>1, <2>1, <2>3, BelowProposal
    <3>2. rounds[q].transition \in PositionType
      BY <2>1, ProposedParts
    <3>3. ~PosNotAbove(rounds[r].transition, pos)
      BY <1>2, <2>2, <3>1, <3>2, PositionOrder
    <3> QED
      BY <1>1, <3>3
  <2>4. CASE x.pos = rounds[q].transition
    BY <2>2, <2>4
  <2>5. CASE x.pos = Decided(rounds[q].transition.proposal) /\ durable[TermOf(q)] # 0
    BY <2>2, <2>5
  <2> QED
    BY <1>4, <2>3, <2>4, <2>5 DEF WrittenIn
<1> QED
  BY <1>3, <1>4 DEF Written

\* The commit of a term is marked by a position of that term.
LEMMA CommitParts ==
    ASSUME Ground, ElectionInv, NEW t \in Terms, NEW n, NEW w, NEW m, CommitOf(t, n, w, m)
    PROVE  /\ m \in MarkType /\ m.lsn = n /\ m.pos = w[n].pos /\ n \in 1..n
           /\ KnownRule(m.pos.decision) /\ ProperPosition(m.pos)
           /\ t # FirstTerm =>
                \E r \in Rounds : /\ Proposed(r) /\ TermOf(r) = t
                                  /\ PosNotAbove(rounds[r].transition, m.pos)
           /\ \A r \in Rounds : Proposed(r) /\ TermOf(r) = t => rounds[r].phase = "promoting"
<1>1. n \in Nat /\ n # 0 /\ m = [pos |-> w[n].pos, lsn |-> n]
  BY DEF CommitOf
<1>2. PICK pos : pos = w[n].pos
  OBVIOUS
<1>3. CASE t = FirstTerm /\ pos = Decided(InitialRule)
  <2>1. KnownRule(InitialRule)
    BY DEF KnownRule
  <2>2. Legit(pos) /\ ProperPosition(pos)
    BY <1>3, LegitParts DEF Legit
  <2>3. pos.decision = InitialRule
    BY <1>3, <2>1, DecidedParts DEF Ground, AgreementInv
  <2>4. pos \in PositionType /\ m = [pos |-> pos, lsn |-> n]
    BY <1>1, <1>2, <2>2 DEF ProperPosition
  <2>5. m \in MarkType /\ m.lsn = n /\ m.pos = pos
    BY <1>1, <2>4 DEF MarkType, FloorType
  <2>6. \A r \in Rounds : Proposed(r) => TermOf(r) # t
    <3> SUFFICES ASSUME NEW r \in Rounds, Proposed(r) PROVE TermOf(r) # t
      OBVIOUS
    <3>1. TermOf(r) \in Nat /\ FirstTerm < TermOf(r)
      BY ProposedParts
    <3> QED
      BY <1>3, <3>1, FirstTermType
  <2> QED
    BY <1>1, <1>2, <1>3, <2>1, <2>2, <2>3, <2>5, <2>6
<1>4. ASSUME NEW r \in Rounds, rounds[r].phase = "promoting", TermOf(r) = t,
             pos \in {rounds[r].transition, Decided(rounds[r].transition.proposal)}
      PROVE  /\ m \in MarkType /\ m.lsn = n /\ m.pos = pos
             /\ KnownRule(m.pos.decision) /\ ProperPosition(m.pos)
             /\ Proposed(r) /\ TermOf(r) = t /\ PosNotAbove(rounds[r].transition, m.pos)
             /\ \A q \in Rounds : Proposed(q) /\ TermOf(q) = t => q = r
  <2>1. Proposed(r)
    BY <1>4 DEF Proposed
  <2>2. /\ rounds[r].transition \in PositionType
        /\ KnownRule(rounds[r].transition.decision)
        /\ KnownRule(rounds[r].transition.proposal)
        /\ rounds[r].transition.decision.num = Outgoing(r)
        /\ rounds[r].transition.proposal.num = [term |-> TermOf(r), subterm |-> 0]
        /\ Outgoing(r).term < TermOf(r) /\ TermOf(r) \in Nat /\ FirstTerm < TermOf(r)
    BY <2>1, ProposedParts
  <2>3. /\ ~IsRuleDecided(rounds[r].transition)
        /\ PossiblyUndecidedRule(rounds[r].transition) = rounds[r].transition.proposal
    BY <2>1, TransitionParts
  <2>4. /\ Decided(rounds[r].transition.proposal) \in PositionType
        /\ Decided(rounds[r].transition.proposal).decision = rounds[r].transition.proposal
        /\ IsRuleDecided(Decided(rounds[r].transition.proposal))
        /\ KnownPosition(Decided(rounds[r].transition.proposal))
        /\ PossiblyUndecidedRule(Decided(rounds[r].transition.proposal))
              = rounds[r].transition.proposal
    BY <2>2, DecidedParts DEF Ground, AgreementInv
  <2>5. ProperPosition(rounds[r].transition)
    <3>1. Legit(rounds[r].transition)
      BY <2>1 DEF Legit
    <3> QED
      BY <3>1, LegitParts
  <2>6. ProperPosition(Decided(rounds[r].transition.proposal))
    BY <2>2, <2>4 DEF ProperPosition
  <2>7. PosNotAbove(rounds[r].transition, rounds[r].transition)
    BY <2>2, PositionOrder
  <2>8. PosNotAbove(rounds[r].transition, Decided(rounds[r].transition.proposal))
    BY <2>1, <2>5, BelowProposal
  <2>9. /\ ProperPosition(pos) /\ KnownRule(pos.decision)
        /\ PosNotAbove(rounds[r].transition, pos)
    BY <1>4, <2>2, <2>4, <2>5, <2>6, <2>7, <2>8
  <2>10. pos \in PositionType /\ m = [pos |-> pos, lsn |-> n]
    BY <1>1, <1>2, <2>9 DEF ProperPosition
  <2>11. m \in MarkType /\ m.lsn = n /\ m.pos = pos
    BY <1>1, <2>10 DEF MarkType, FloorType
  <2>12. ASSUME NEW q \in Rounds, Proposed(q), TermOf(q) = t PROVE q = r
    BY <1>4, <2>1, <2>12, ProposalsOrdered DEF Ground, ElectionInv
  <2> QED
    BY <1>4, <2>1, <2>9, <2>11, <2>12
<1>5. CASE \E r \in Rounds :
             /\ rounds[r].phase = "promoting" /\ TermOf(r) = t
             /\ pos \in {rounds[r].transition, Decided(rounds[r].transition.proposal)}
  <2>1. PICK r \in Rounds :
             /\ rounds[r].phase = "promoting" /\ TermOf(r) = t
             /\ pos \in {rounds[r].transition, Decided(rounds[r].transition.proposal)}
    BY <1>5
  <2> QED
    BY <1>1, <1>2, <1>4, <2>1
<1> QED
  BY <1>2, <1>3, <1>5 DEF CommitOf

\* A pooler whose WAL reaches the mark of a commit has the commit.
LEMMA ReachesCommit ==
    ASSUME Ground, WalInv, LaterAuthoredAbove, NEW t \in Terms, NEW n, NEW w, NEW m,
           CommitOf(t, n, w, m), LedgerWals(t, n, w), NEW q \in Poolers,
           Reaches([pos |-> LastPos(q), lsn |-> Lsn(q)], m)
    PROVE  n <= Lsn(q) /\ \A j \in 1..n : wal[q][j] = w[j]
<1>1. PICK k : k = Lsn(q)
  OBVIOUS
<1>2. PICK x : x = wal[q][k]
  OBVIOUS
<1>3. k \in Nat \ {0} /\ k \in 1..Lsn(q) /\ x.pos = LastPos(q) /\ ProperPosition(x.pos)
  BY <1>1, <1>2, LastRecord
<1>4. /\ m \in MarkType /\ m.lsn = n /\ m.pos = w[n].pos
      /\ n \in Nat /\ n # 0 /\ ProperPosition(m.pos)
  BY CommitParts DEF WalInv, CommitOf
<1>5. x.by \in Nat /\ t \in Nat
  <2>1. wal[q][k] \in RecordType
    BY <1>3, WalTypes DEF Ground
  <2> QED
    BY <1>2, <2>1, TermTypes DEF RecordType
<1>6. Written(x)
  BY <1>2, <1>3 DEF WalInv, WalWritten
<1>7. x.pos \in PositionType /\ m.pos \in PositionType
  BY <1>3, <1>4 DEF ProperPosition
<1>8. \/ ~PosNotAbove(x.pos, m.pos)
      \/ PosNotAbove(m.pos, x.pos) /\ n <= k
  <2>1. PICK y : y = [pos |-> LastPos(q), lsn |-> Lsn(q)]
    OBVIOUS
  <2>2. y \in MarkType /\ y.pos = x.pos /\ y.lsn = k /\ Reaches(y, m)
    BY <1>1, <1>3, <1>7, <2>1 DEF MarkType, FloorType
  <2> QED
    BY <1>4, <2>2, MarkOrder
<1>9. CASE x.by > t
  BY <1>1, <1>2, <1>3, <1>4, <1>5, <1>9 DEF LedgerWals
<1>10. CASE x.by = t
  <2>1. \A j \in 1..k : j <= n => wal[q][j] = w[j]
    BY <1>2, <1>3, <1>10 DEF LedgerWals
  <2>2. n <= k
    <3> SUFFICES ASSUME ~(n <= k) PROVE FALSE
      OBVIOUS
    <3>1. k \in 1..n /\ n \in 1..n /\ k <= n
      BY <1>3, <1>4
    <3>2. w[k] = x
      BY <1>2, <1>3, <2>1, <3>1
    <3>3. PosNotAbove(w[k].pos, w[n].pos)
      BY <3>1 DEF CommitOf
    <3> QED
      BY <1>4, <1>8, <3>2, <3>3
  <2> QED
    BY <1>1, <1>3, <1>4, <2>1, <2>2
<1>11. CASE x.by < t
  <2>1. x.by >= FirstTerm
    BY <1>6, WrittenBy DEF WalInv
  <2>2. t # FirstTerm
    BY <1>5, <1>11, <2>1, FirstTermType
  <2>3. PICK r \in Rounds : /\ Proposed(r) /\ TermOf(r) = t
                            /\ PosNotAbove(rounds[r].transition, m.pos)
    BY <2>2, CommitParts DEF WalInv
  <2>4. ~PosNotAbove(rounds[r].transition, x.pos)
    BY <1>3, <1>6, <1>11, <2>3, EarlierBelow DEF WalInv
  <2>5. rounds[r].transition \in PositionType
    BY <2>3, ProposedParts DEF WalInv
  <2>6. ~PosNotAbove(m.pos, x.pos) /\ PosNotAbove(x.pos, m.pos)
    BY <1>7, <2>3, <2>4, <2>5, PositionOrder
  <2> QED
    BY <1>8, <2>6
<1> QED
  BY <1>5, <1>9, <1>10, <1>11

\* A position from a round's proposal on, of a term with a durable commit, names
\* a rule of that term or of a later one.
LEMMA OutgoingAbove ==
    ASSUME Ground, ElectionInv, LaterAuthoredAbove, NEW r \in Rounds, Proposed(r),
           durable[TermOf(r)] # 0, NEW pos, Legit(pos), PosNotAbove(rounds[r].transition, pos)
    PROVE  NotAbove(FirstOf(TermOf(r)), PossiblyUndecidedRule(pos).num)
<1>1. /\ TermOf(r) \in Nat /\ TermOf(r) \in Terms /\ Outgoing(r) \in RuleNumber
      /\ FirstTerm < TermOf(r)
      /\ rounds[r].transition \in PositionType
      /\ rounds[r].transition.decision.num = Outgoing(r)
      /\ rounds[r].transition.proposal.num = FirstOf(TermOf(r))
  BY ProposedParts DEF FirstOf
<1>2. CASE pos = Decided(InitialRule)
  BY <1>2, InitialBelow
<1>3. ASSUME NEW q \in Rounds, Proposed(q),
             \/ pos = rounds[q].transition
             \/ pos = Decided(rounds[q].transition.decision)
             \/ pos = Decided(rounds[q].transition.proposal) /\ durable[TermOf(q)] # 0
      PROVE  NotAbove(FirstOf(TermOf(r)), PossiblyUndecidedRule(pos).num)
  <2>1. /\ TermOf(q) \in Nat /\ Outgoing(q) \in RuleNumber
        /\ rounds[q].transition \in PositionType
        /\ rounds[q].transition.decision.num = Outgoing(q)
        /\ rounds[q].transition.proposal.num = FirstOf(TermOf(q))
        /\ KnownRule(rounds[q].transition.decision)
        /\ KnownRule(rounds[q].transition.proposal)
    BY <1>3, ProposedParts DEF FirstOf
  <2>2. /\ FirstOf(TermOf(q)) \in RuleNumber /\ FirstOf(TermOf(r)) \in RuleNumber
        /\ FirstOf(TermOf(q)).term = TermOf(q) /\ FirstOf(TermOf(r)).term = TermOf(r)
        /\ FirstOf(TermOf(q)).subterm = 0 /\ FirstOf(TermOf(r)).subterm = 0
    BY <1>1, <2>1 DEF FirstOf, RuleNumber
  <2>3. TermOf(r) <= TermOf(q) => NotAbove(FirstOf(TermOf(r)), FirstOf(TermOf(q)))
    BY <1>1, <2>1, <2>2, NumberOrder
  <2>4. TermOf(q) < TermOf(r) =>
          /\ ~PosNotAbove(rounds[r].transition, rounds[q].transition)
          /\ durable[TermOf(q)] # 0 =>
               ~PosNotAbove(rounds[r].transition, Decided(rounds[q].transition.proposal))
    BY <1>3, TransitionsOrdered
  <2>5. CASE pos = rounds[q].transition
    <3>1. PossiblyUndecidedRule(pos).num = FirstOf(TermOf(q))
      BY <1>3, <2>1, <2>5, TransitionParts
    <3>2. TermOf(r) <= TermOf(q)
      BY <1>1, <2>1, <2>4, <2>5
    <3> QED
      BY <2>3, <3>1, <3>2
  <2>6. CASE pos = Decided(rounds[q].transition.proposal) /\ durable[TermOf(q)] # 0
    <3>1. PossiblyUndecidedRule(pos).num = FirstOf(TermOf(q))
      BY <2>1, <2>6, DecidedParts DEF Ground, AgreementInv
    <3>2. TermOf(r) <= TermOf(q)
      BY <1>1, <2>1, <2>4, <2>6
    <3> QED
      BY <2>3, <3>1, <3>2
  <2>7. CASE pos = Decided(rounds[q].transition.decision)
    <3>1. /\ pos \in PositionType /\ pos.decision.num = Outgoing(q) /\ pos.proposal.num = NoNumber
          /\ PossiblyUndecidedRule(pos).num = Outgoing(q)
      BY <2>1, <2>7, DecidedParts DEF Ground, AgreementInv
    <3>2. ~NotAbove(FirstOf(TermOf(r)), NoNumber)
      <4>1. NoNumber \in RuleNumber /\ NoNumber.term = 0
        BY AbsentTypes DEF NoNumber
      <4>2. 0 < TermOf(r)
        BY <1>1, FirstTermType
      <4> QED
        BY <2>2, <4>1, <4>2, NumberOrder
    <3>3. ~NotAbove(Outgoing(q), Outgoing(r))
      <4>1. PosNotAbove(rounds[r].transition, pos) <=>
              \/ ~NotAbove(Outgoing(q), Outgoing(r))
              \/ Outgoing(r) = Outgoing(q) /\ NotAbove(FirstOf(TermOf(r)), NoNumber)
        BY <1>1, <3>1, PositionOrder
      <4> QED
        BY <3>2, <4>1
    <3>4. TermOf(r) < TermOf(q)
      <4>1. /\ TermOf(q) = TermOf(r) => q = r
            /\ TermOf(q) < TermOf(r) => NotAbove(Outgoing(q), Outgoing(r))
        BY <1>3, ProposalsOrdered DEF Ground, ElectionInv
      <4>2. NotAbove(Outgoing(r), Outgoing(r))
        BY <1>1, NumberOrder
      <4> QED
        BY <1>1, <2>1, <3>3, <4>1, <4>2
    <3>5. DurableBelow(TermOf(r), q)
      BY <1>1, <1>3, <3>4 DEF LaterAuthoredAbove
    <3> QED
      BY <1>1, <3>1, <3>5, FirstTermType DEF DurableBelow
  <2> QED
    BY <1>3, <2>5, <2>6, <2>7
<1> QED
  BY <1>2, <1>3 DEF Legit

-----------------------------------------------------------------------------
(* A step that makes no more of a term's commits durable keeps its ledger. *)

\* A quorum is a set of poolers.
LEMMA QuorumMembers ==
    ASSUME NEW Q, Quorum(Q)
    PROVE  Q \in SUBSET Poolers
BY FirstTermType, RuleParts DEF Quorum

\* Who has reached a mark has reached a lower one.
LEMMA ReachedBelow ==
    ASSUME TypeOK, NEW s \in Poolers, NEW a \in MarkType, NEW b \in MarkType,
           Reached(s, a), Reaches(a, b)
    PROVE  Reached(s, b)
<1>1. PICK y : y = [pos |-> Visible(s), lsn |-> Lsn(s)]
  OBVIOUS
<1>2. y \in MarkType
  BY <1>1, WalTypes DEF MarkType, FloorType
<1>3. floor[s] \in MarkType
  BY DEF TypeOK, MarkType
<1>4. Reaches(y, a) \/ Reaches(floor[s], a)
  BY <1>1 DEF Reached
<1>5. Reaches(y, b) \/ Reaches(floor[s], b)
  BY <1>2, <1>3, <1>4, MarkOrder
<1> QED
  BY <1>1, <1>5 DEF Reached

\* Who answers a round has all it ever reached in its WAL.
LEMMA AnswerReaches ==
    ASSUME Ground, WalInv, NEW r \in Rounds, NEW p \in Poolers, JoinStep(r, p),
           NEW m \in MarkType, Reached(p, m)
    PROVE  Reaches(MarkOf(Answer(p)), m)
<1>1. ~FloorOutstanding(p, LastPos(p))
  BY DEF JoinStep, ValidateRevocation
<1>2. Reaches([pos |-> LastPos(p), lsn |-> Lsn(p)], m)
  BY <1>1, ReachedHeld
<1> QED
  BY <1>2 DEF MarkOf, Answer

\* How the recruits of a recruiting round change.
LEMMA RecruitsAfter ==
    ASSUME Step, NEW r \in Rounds, rounds'[r].phase = "recruiting"
    PROVE  \/ StartStep(r)
           \/ /\ rounds[r].phase = "recruiting"
              /\ \/ rounds'[r].recruits = rounds[r].recruits
                 \/ \E p \in Poolers :
                      /\ JoinStep(r, p)
                      /\ rounds'[r].recruits = rounds[r].recruits \cup {Answer(p)}
<1>1. ASSUME NEW q \in Rounds, StartStep(q), q # r PROVE rounds'[r] = rounds[r]
  BY <1>1 DEF StartStep
<1>2. ASSUME NEW q \in Rounds, NEW p \in Poolers, JoinStep(q, p), q # r
      PROVE  rounds'[r] = rounds[r]
  BY <1>2 DEF JoinStep
<1>3. ASSUME NEW p \in Poolers, JoinStep(r, p)
      PROVE  /\ rounds[r].phase = "recruiting"
             /\ \/ rounds'[r].recruits = rounds[r].recruits
                \/ rounds'[r].recruits = rounds[r].recruits \cup {Answer(p)}
  BY <1>3 DEF JoinStep, AnswerStep
<1>4. ASSUME NEW q \in Rounds, PromoteStep(q) PROVE rounds'[r] = rounds[r]
  BY <1>4, PromoteRounds DEF Step
<1>5. ASSUME NEW p \in Poolers, LocalStep(p) PROVE rounds'[r] = rounds[r]
  BY <1>5 DEF LocalStep
<1>6. CASE \E q \in Rounds : StartStep(q)
  BY <1>1, <1>6
<1>7. CASE \E q \in Rounds, p \in Poolers : JoinStep(q, p)
  BY <1>2, <1>3, <1>7
<1>8. CASE (\E q \in Rounds : PromoteStep(q)) \/ \E p \in Poolers : LocalStep(p)
  BY <1>4, <1>5, <1>8
<1> QED
  BY <1>6, <1>7, <1>8 DEF Step, Shapes

\* What a round cannot miss it cannot miss later.
LEMMA CoveredKept ==
    ASSUME Step, NEW r \in Rounds, rounds[r].phase = "recruiting",
           rounds'[r].phase = "recruiting",
           NEW m \in MarkType, KnownRule(m.pos.decision), Covered(r, m)
    PROVE  Covered(r, m)'
<1>1. PICK Q : /\ Quorum(Q)
               /\ \A s \in Q : /\ Reached(s, m)
                               /\ \A c \in rounds[r].recruits : c.id = s => Reaches(MarkOf(c), m)
  BY DEF Covered
<1>2. WalMonotone'
  BY NextWalInv DEF WalInv
<1>3. ASSUME NEW s \in Q PROVE Reached(s, m)'
  BY <1>1, <1>2, <1>3, QuorumMembers, ReachedKept
<1>4. ASSUME NEW s \in Q, NEW c \in rounds'[r].recruits, c.id = s PROVE Reaches(MarkOf(c), m)
  <2>1. CASE c \in rounds[r].recruits
    BY <1>1, <1>4, <2>1
  <2>2. CASE c \notin rounds[r].recruits
    <3>1. ~StartStep(r)
      BY DEF StartStep, Started
    <3>2. PICK p \in Poolers :
             JoinStep(r, p) /\ rounds'[r].recruits = rounds[r].recruits \cup {Answer(p)}
      BY <1>4, <2>2, <3>1, RecruitsAfter
    <3>3. c = Answer(p)
      BY <1>4, <2>2, <3>2
    <3>4. Answer(p).id = p
      BY DEF Answer
    <3>5. Reached(p, m)
      BY <1>1, <1>4, <3>3, <3>4
    <3> QED
      BY <3>2, <3>3, <3>5, AnswerReaches DEF Step
  <2> QED
    BY <2>1, <2>2
<1> QED
  BY <1>1, <1>3, <1>4 DEF Covered

\* A proposal's mark.
LEMMA TransitionMark ==
    ASSUME Ground, ElectionInv, NEW q \in Rounds, Proposed(q), NEW m,
           m = [pos |-> rounds[q].transition, lsn |-> 0]
    PROVE  /\ m \in MarkType /\ m.pos = rounds[q].transition /\ m.lsn = 0
           /\ KnownRule(m.pos.decision)
<1>1. rounds[q].transition \in PositionType /\ KnownRule(rounds[q].transition.decision)
  BY ProposedParts
<1>2. m.pos = rounds[q].transition /\ m.lsn = 0
  OBVIOUS
<1>3. m \in MarkType
  BY <1>1 DEF MarkType, FloorType
<1> QED
  BY <1>1, <1>2, <1>3

\* A round that can no longer propose stays so.
LEMMA OvertakenKept ==
    ASSUME Step, NEW r \in Rounds, rounds[r].phase = "recruiting",
           rounds'[r].phase = "recruiting", Overtaken(r)
    PROVE  Overtaken(r)'
<1>1. TermOf(r)' = TermOf(r) /\ Outgoing(r)' = Outgoing(r)
  BY DEF Step, RoundsGrow, TermOf, Outgoing, Started
<1>2. ASSUME NEW q \in Rounds,
             Proposed(q), durable[TermOf(q)] # 0, TermOf(q) < TermOf(r),
             ~NotAbove(FirstOf(TermOf(q)), Outgoing(r)),
             Covered(r, [pos |-> rounds[q].transition, lsn |-> 0])
      PROVE  Overtaken(r)'
  <2>1. /\ Proposed(q)' /\ rounds'[q].transition = rounds[q].transition
        /\ TermOf(q)' = TermOf(q) /\ durable'[TermOf(q)] # 0
    BY <1>2, ProposedKept
  <2>2. PICK m : m = [pos |-> rounds[q].transition, lsn |-> 0]
    OBVIOUS
  <2>3. m \in MarkType /\ KnownRule(m.pos.decision)
    BY <1>2, <2>2, TransitionMark DEF Step, WalInv
  <2>4. Covered(r, m)'
    BY <1>2, <2>2, <2>3, CoveredKept
  <2>5. Covered(r, [pos |-> rounds[q].transition, lsn |-> 0])'
    BY <2>1, <2>2, <2>4
  <2>6. durable[TermOf(q)]' # 0
    BY <2>1
  <2>7. TermOf(q)' < TermOf(r)' /\ ~NotAbove(FirstOf(TermOf(q)'), Outgoing(r)')
    BY <1>1, <1>2, <2>1
  <2> QED
    BY <2>1, <2>5, <2>6, <2>7 DEF Overtaken
<1>3. ASSUME NEW q \in Rounds, Proposed(q), TermOf(q) < TermOf(r),
             ~NotAbove(Outgoing(q), Outgoing(r))
      PROVE  Overtaken(r)'
  <2>1. Proposed(q)' /\ TermOf(q)' = TermOf(q) /\ Outgoing(q)' = Outgoing(q)
    BY <1>3, ProposedKept
  <2>2. TermOf(q)' < TermOf(r)' /\ ~NotAbove(Outgoing(q)', Outgoing(r)')
    BY <1>1, <1>3, <2>1
  <2> QED
    BY <2>1, <2>2 DEF Overtaken
<1> QED
  BY <1>2, <1>3 DEF Overtaken

\* The last commit of a term stays where it is while no later one is made.
LEMMA CommitKept ==
    ASSUME Step, NEW t \in Terms, durable'[t] = durable[t],
           NEW n, NEW w, NEW m, CommitOf(t, n, w, m)
    PROVE  CommitOf(t, n, w, m)'
<1>1. CASE t = FirstTerm /\ w[n].pos = Decided(InitialRule)
  BY <1>1 DEF CommitOf
<1>2. ASSUME NEW r \in Rounds, rounds[r].phase = "promoting", TermOf(r) = t,
             w[n].pos \in {rounds[r].transition, Decided(rounds[r].transition.proposal)}
      PROVE  CommitOf(t, n, w, m)'
  <2>1. Proposed(r)
    BY <1>2 DEF Proposed
  <2>2. /\ rounds'[r].phase = "promoting" /\ rounds'[r].transition = rounds[r].transition
        /\ TermOf(r)' = t
    BY <1>2, <2>1, ProposedKept
  <2>3. w[n].pos \in {rounds'[r].transition, Decided(rounds'[r].transition.proposal)}
    BY <1>2, <2>2
  <2>4. \E q \in Rounds :
            /\ rounds'[q].phase = "promoting" /\ TermOf(q)' = t
            /\ w[n].pos \in {rounds'[q].transition, Decided(rounds'[q].transition.proposal)}
    BY <2>2, <2>3
  <2>5. /\ n = durable'[t] /\ n \in Nat /\ n # 0
        /\ w[n].by = t /\ m = [pos |-> w[n].pos, lsn |-> n]
        /\ \A i, j \in 1..n : i <= j => PosNotAbove(w[i].pos, w[j].pos)
    BY DEF CommitOf
  <2> QED
    BY <2>4, <2>5 DEF CommitOf
<1> QED
  BY <1>1, <1>2 DEF CommitOf

\* No term with a durable commit is promoted again.
LEMMA NoSwitchAgain ==
    ASSUME Step, NEW t \in Terms, NEW n, NEW w, NEW m, CommitOf(t, n, w, m),
           NEW r \in Rounds, NEW p \in Poolers, NEW x, Switches(r, p, x)
    PROVE  TermOf(r) # t
<1>1. Proposed(r) /\ rounds[r].phase = "proposed"
  BY DEF Switches, PromoteStep
<1>2. \A q \in Rounds : Proposed(q) /\ TermOf(q) = t => rounds[q].phase = "promoting"
  BY CommitParts DEF Step, WalInv
<1> QED
  BY <1>1, <1>2

\* The ledger of a term holds of every record a step writes.
LEMMA WalsKept ==
    ASSUME Step, LaterAuthoredAbove, NEW t \in Terms,
           NEW n, NEW w, NEW m, CommitOf(t, n, w, m), LedgerWals(t, n, w), LedgerProposed(t, m)
    PROVE  LedgerWals(t, n, w)'
<1>1. n \in Nat /\ n # 0 /\ t \in Nat /\ t # 0
  BY TermTypes DEF CommitOf
<1>2. \A q \in Poolers : Lsn(q) \in Nat \ {0} /\ Lsn(q)' \in Nat \ {0}
  BY WalTypesNext DEF Step, Ground, WalShapes, WalShape
<1>3. CASE Copies
  <2>1. ASSUME NEW q \in Poolers, NEW i \in 1..Lsn(q)', wal'[q][i].by = t
        PROVE  \A j \in 1..i : j <= n => wal'[q][j] = w[j]
    <3>1. PICK c \in Poolers : CopyOf(q, c)
      BY <1>3 DEF Copies
    <3>2. i \in 1..Lsn(c) /\ \A j \in 1..i : wal'[q][j] = wal[c][j]
      BY <1>2, <3>1 DEF CopyOf
    <3>3. wal[c][i].by = t
      BY <1>2, <2>1, <3>2
    <3> QED
      BY <3>2, <3>3 DEF LedgerWals
  <2>2. ASSUME NEW q \in Poolers, prim'[q] = t PROVE n <= Lsn(q)'
    <3>1. prim[q] = t /\ wal'[q] = wal[q]
      BY <1>1, <1>3, <2>2 DEF Copies
    <3> QED
      BY <3>1 DEF LedgerWals, Lsn
  <2>3. ASSUME NEW q \in Poolers, NEW i \in 1..Lsn(q)', wal'[q][i].by > t
        PROVE  n <= i /\ \A j \in 1..n : wal'[q][j] = w[j]
    <3>1. PICK c \in Poolers : CopyOf(q, c)
      BY <1>3 DEF Copies
    <3>2. i \in 1..Lsn(c) /\ \A j \in 1..i : wal'[q][j] = wal[c][j]
      BY <1>2, <3>1 DEF CopyOf
    <3>3. wal[c][i].by > t
      BY <1>2, <2>3, <3>2
    <3>4. n <= i /\ \A j \in 1..n : wal[c][j] = w[j]
      BY <3>2, <3>3 DEF LedgerWals
    <3> QED
      BY <1>1, <1>2, <3>2, <3>4
  <2> QED
    BY <2>1, <2>2, <2>3 DEF LedgerWals
<1>4. ASSUME NEW o \in Poolers, NEW x, Appends(o, x),
             x.by = t => prim[o] = t,
             x.by > t => n <= Lsn(o) /\ \A j \in 1..n : wal[o][j] = w[j]
      PROVE  LedgerWals(t, n, w)'
  <2>1. /\ Lsn(o)' = Lsn(o) + 1 /\ wal'[o][Lsn(o) + 1] = x /\ prim'[o] = x.by
        /\ \A i \in 1..Lsn(o) : wal'[o][i] = wal[o][i]
        /\ \A q \in Poolers : q # o => wal'[q] = wal[q] /\ Lsn(q)' = Lsn(q) /\ prim'[q] = prim[q]
    BY <1>4 DEF Appends, OthersIdle, Idle, Lsn
  <2>2. PICK k : k = Lsn(o)
    OBVIOUS
  <2>3. k \in Nat \ {0} /\ k \in 1..k
    BY <1>2, <2>2
  <2>4. ASSUME NEW i \in 1..(k + 1), wal'[o][i].by = t
        PROVE  \A j \in 1..i : j <= n => wal'[o][j] = w[j]
    <3>1. CASE i <= k
      <4>1. i \in 1..k /\ wal[o][i].by = t /\ \A j \in 1..i : wal'[o][j] = wal[o][j]
        BY <2>1, <2>2, <2>3, <2>4, <3>1
      <4> QED
        BY <2>2, <4>1 DEF LedgerWals
    <3>2. CASE i = k + 1
      <4>1. prim[o] = t /\ n <= k
        BY <1>4, <2>1, <2>2, <2>4, <3>2 DEF LedgerWals
      <4>2. wal[o][k].by = t
        BY <1>1, <2>2, <4>1 DEF Step, WalInv, Owners, Owner
      <4>3. \A j \in 1..k : j <= n => wal[o][j] = w[j]
        BY <2>2, <2>3, <4>2 DEF LedgerWals
      <4> SUFFICES ASSUME NEW j \in 1..i, j <= n PROVE wal'[o][j] = w[j]
        OBVIOUS
      <4>4. j \in 1..k
        BY <1>1, <2>3, <4>1
      <4> QED
        BY <2>1, <2>2, <4>3, <4>4
    <3> QED
      BY <2>3, <3>1, <3>2
  <2>5. ASSUME NEW i \in 1..(k + 1), wal'[o][i].by > t
        PROVE  n <= i /\ \A j \in 1..n : wal'[o][j] = w[j]
    <3>1. CASE i <= k
      <4>1. i \in 1..k /\ wal[o][i].by > t /\ \A j \in 1..i : wal'[o][j] = wal[o][j]
        BY <2>1, <2>2, <2>3, <2>5, <3>1
      <4>2. n <= i /\ \A j \in 1..n : wal[o][j] = w[j]
        BY <2>2, <4>1 DEF LedgerWals
      <4> QED
        BY <1>1, <4>1, <4>2
    <3>2. CASE i = k + 1
      <4>1. n <= k /\ \A j \in 1..n : wal[o][j] = w[j]
        BY <1>4, <2>1, <2>2, <2>5, <3>2
      <4>2. \A j \in 1..n : j \in 1..k
        BY <1>1, <2>3, <4>1
      <4> QED
        BY <1>1, <2>1, <2>2, <2>3, <3>2, <4>1, <4>2
    <3> QED
      BY <2>3, <3>1, <3>2
  <2>6. ASSUME prim'[o] = t PROVE n <= k + 1
    <3>1. prim[o] = t
      BY <1>4, <2>1, <2>6
    <3> QED
      BY <1>1, <2>2, <2>3, <3>1 DEF LedgerWals
  <2>7. ASSUME NEW q \in Poolers, NEW i \in 1..Lsn(q)', wal'[q][i].by = t
        PROVE  \A j \in 1..i : j <= n => wal'[q][j] = w[j]
    <3>1. CASE q = o
      BY <2>1, <2>2, <2>4, <2>7, <3>1
    <3>2. CASE q # o
      BY <2>1, <2>7, <3>2 DEF LedgerWals
    <3> QED
      BY <3>1, <3>2
  <2>8. ASSUME NEW q \in Poolers, NEW i \in 1..Lsn(q)', wal'[q][i].by > t
        PROVE  n <= i /\ \A j \in 1..n : wal'[q][j] = w[j]
    <3>1. CASE q = o
      BY <2>1, <2>2, <2>5, <2>8, <3>1
    <3>2. CASE q # o
      BY <2>1, <2>8, <3>2 DEF LedgerWals
    <3> QED
      BY <3>1, <3>2
  <2>9. ASSUME NEW q \in Poolers, prim'[q] = t PROVE n <= Lsn(q)'
    <3>1. CASE q = o
      BY <2>1, <2>2, <2>6, <2>9, <3>1
    <3>2. CASE q # o
      BY <2>1, <2>9, <3>2 DEF LedgerWals
    <3> QED
      BY <3>1, <3>2
  <2> QED
    BY <2>7, <2>8, <2>9 DEF LedgerWals
<1>5. ASSUME NEW r \in Rounds, NEW o \in Poolers, NEW x, Switches(r, o, x)
      PROVE  LedgerWals(t, n, w)'
  <2>1. Appends(o, x) /\ x.by = TermOf(r) /\ Proposed(r) /\ o = Leader(r)
    BY <1>5 DEF Switches
  <2>2. x.by # t
    BY <1>5, <2>1, NoSwitchAgain
  <2>3. ASSUME x.by > t PROVE n <= Lsn(o) /\ \A j \in 1..n : wal[o][j] = w[j]
    <3>1. TermOf(r) \in Nat
      BY <2>1, ProposedParts DEF Step, WalInv
    <3>2. Reached(o, m)
      BY <1>1, <2>1, <2>3, <3>1 DEF LedgerProposed
    <3>3. ~FloorOutstanding(o, LastPos(o))
      BY <1>5, <2>1 DEF Switches, PromoteStep, ValidateRevocation
    <3>4. m \in MarkType
      BY CommitParts DEF Step, WalInv
    <3>5. Reaches([pos |-> LastPos(o), lsn |-> Lsn(o)], m)
      BY <3>2, <3>3, <3>4, ReachedHeld DEF Step
    <3> QED
      BY <3>5, ReachesCommit DEF Step
  <2> QED
    BY <1>4, <2>1, <2>2, <2>3
<1>6. ASSUME NEW o \in Poolers, NEW x, Writes(o, x)
      PROVE  LedgerWals(t, n, w)'
  <2>1. Appends(o, x) /\ x.by = prim[o]
    BY <1>6 DEF Writes
  <2>2. ASSUME x.by > t PROVE n <= Lsn(o) /\ \A j \in 1..n : wal[o][j] = w[j]
    <3>1. prim[o] # 0
      BY <2>1 DEF Appends
    <3>2. wal[o][Lsn(o)].by = prim[o]
      BY <3>1 DEF Step, WalInv, Owners, Owner
    <3>3. Lsn(o) \in 1..Lsn(o)
      BY <1>2
    <3> QED
      BY <2>1, <2>2, <3>2, <3>3 DEF LedgerWals
  <2> QED
    BY <1>4, <2>1, <2>2
<1> QED
  BY <1>3, <1>5, <1>6, StepAppends

-----------------------------------------------------------------------------
(* What is proposed reaches the durable commits of earlier terms.          *)

\* Of two rounds with a proposal the later one replaces no older rule.
OutgoingsOrdered ==
    \A q, r \in Rounds :
        Proposed(q) /\ Proposed(r) /\ TermOf(q) < TermOf(r) => NotAbove(Outgoing(q), Outgoing(r))

\* They do, in both states of a step.
LEMMA OutgoingsInOrder ==
    /\ Ground /\ ElectionInv => OutgoingsOrdered
    /\ Ground' /\ ElectionInv' => OutgoingsOrdered'
<1>1. Ground /\ ElectionInv => OutgoingsOrdered
  BY ProposalsOrdered DEF Ground, ElectionInv, OutgoingsOrdered
<1> QED
  BY <1>1, PTL

\* The best of enough recruits reaches all that they cannot miss.
LEMMA BestReaches ==
    ASSUME Step, RecruitsInv, NEW r \in Rounds, NEW p \in Poolers, JoinStep(r, p),
           NEW m \in MarkType, Covered(r, m), NEW best \in rounds[r].recruits \cup {Answer(p)},
           NEW authored, NEW transition,
           BuiltFrom(transition, authored, rounds[r].recruits \cup {Answer(p)}, best)
    PROVE  Reaches(MarkOf(best), m)
<1>1. PICK Q : /\ Quorum(Q)
               /\ \A s \in Q : /\ Reached(s, m)
                               /\ \A c \in rounds[r].recruits : c.id = s => Reaches(MarkOf(c), m)
  BY DEF Covered
<1>2. PICK R : R = rounds[r].recruits \cup {Answer(p)}
  OBVIOUS
<1>3. /\ \A c \in R : Reaches(MarkOf(best), MarkOf(c))
      /\ CheckSufficientRecruitment(InitialRule.policy, InitialRule.cohort,
                                    Ids(R) \cap InitialRule.cohort)
  BY <1>2 DEF BuiltFrom
<1>4. PICK policy, cohort : policy = InitialRule.policy /\ cohort = InitialRule.cohort
  OBVIOUS
<1>5. policy \in Policies /\ cohort \in SUBSET Poolers
  BY <1>4, FirstTermType, RuleParts
<1>6. PICK recruited : recruited = Ids(R) \cap cohort
  OBVIOUS
<1>7. Q \cap recruited # {}
  BY <1>1, <1>3, <1>4, <1>5, <1>6, RecruitmentMeetsEveryQuorum DEF Quorum
<1>8. PICK c \in R : c.id \in Q
  BY <1>6, <1>7 DEF Ids
<1>9. Reaches(MarkOf(c), m)
  <2>1. CASE c \in rounds[r].recruits
    BY <1>1, <1>8, <2>1
  <2>2. CASE c = Answer(p)
    <3>1. c.id = p
      BY <2>2 DEF Answer
    <3>2. Reached(p, m)
      BY <1>1, <1>8, <3>1
    <3> QED
      BY <2>2, <3>2, AnswerReaches DEF Step
  <2> QED
    BY <1>2, <1>8, <2>1, <2>2
<1>10. \A d \in R : MarkOf(d) \in MarkType
  <2> SUFFICES ASSUME NEW d \in R PROVE MarkOf(d) \in MarkType
    OBVIOUS
  <2>1. d \in RecruitType
    BY <1>2, AnswerKnown, RoundTypes DEF Step, Ground
  <2> QED
    BY <2>1 DEF RecruitType, MarkOf, MarkType, FloorType
<1>11. Reaches(MarkOf(best), MarkOf(c)) /\ MarkOf(best) \in MarkType /\ MarkOf(c) \in MarkType
  BY <1>2, <1>3, <1>8, <1>10
<1> QED
  BY <1>9, <1>11, MarkOrder

\* The best recruit is at a legitimate position, which it has still reached once
\* it is the leader of the proposal.
LEMMA BestStands ==
    ASSUME Step, RecruitsInv, NEW r \in Rounds, NEW p \in Poolers, JoinStep(r, p),
           NEW best \in rounds[r].recruits \cup {Answer(p)},
           NEW m \in MarkType, KnownRule(m.pos.decision), Reaches(MarkOf(best), m)
    PROVE  /\ Legit(best.pos) /\ best \in RecruitType
           /\ Reached(best.id, m)'
<1>1. WalMonotone'
  BY NextWalInv DEF WalInv
<1>2. best \in RecruitType
  BY AnswerKnown, RoundTypes DEF Step, Ground
<1>3. MarkOf(best) \in MarkType /\ best.id \in Poolers
  BY <1>2 DEF RecruitType, MarkOf, MarkType, FloorType
<1>4. CASE best \in rounds[r].recruits
  <2>1. Legit(best.pos) /\ Reached(best.id, MarkOf(best))
    BY <1>4 DEF RecruitsInv
  <2>2. PICK s, mark : s = best.id /\ mark = MarkOf(best)
    OBVIOUS
  <2>3. Reached(s, m)
    BY <1>3, <2>1, <2>2, ReachedBelow DEF Step, Ground
  <2>4. Reached(s, m)'
    BY <1>1, <1>3, <2>2, <2>3, ReachedKept
  <2> QED
    BY <1>2, <2>1, <2>2, <2>4
<1>5. CASE best = Answer(p)
  <2>1. best.id = p /\ best.pos = LastPos(p)
    BY <1>5 DEF Answer
  <2>2. Legit(best.pos)
    BY <2>1, LastRecord DEF Step
  <2>3. wal'[p] = wal[p] /\ prim'[p] = 0
    BY DEF JoinStep
  <2>4. Visible(p)' = LastPos(p) /\ Lsn(p)' = Lsn(p)
    <3>1. Lsn(p)' = Lsn(p) /\ VisibleLsn(p)' = Lsn(p)
      BY <2>3 DEF VisibleLsn, Lsn
    <3>2. LastPos(p) = wal[p][Lsn(p)].pos
      BY LastRecord DEF Step
    <3> QED
      BY <2>3, <3>1, <3>2 DEF Visible
  <2>5. Reaches([pos |-> Visible(p)', lsn |-> Lsn(p)'], m)
    BY <1>5, <2>4 DEF MarkOf, Answer
  <2>6. Reached(p, m)'
    BY <2>5 DEF Reached
  <2> QED
    BY <1>2, <2>1, <2>2, <2>6
<1> QED
  BY <1>4, <1>5

\* A proposal reaches every durable commit of the terms before it, and replaces
\* a rule at least as high.
LEMMA ProposalReaches ==
    ASSUME Step, RecruitsInv, LaterAuthoredAbove, NEW r \in Rounds, NEW p \in Poolers,
           JoinStep(r, p), ~Proposed(r), Proposed(r)',
           NEW t \in Terms, NEW n, NEW w, NEW m, Ledger(t, n, w, m), t < TermOf(r)
    PROVE  Reached(Leader(r), m)' /\ DurableBelow(t, r)'
<1>1. rounds[r].phase = "recruiting"
  BY DEF JoinStep, AnswerStep, Proposed
<1>2. PICK best \in rounds[r].recruits \cup {Answer(p)} :
         BuiltFrom(rounds'[r].transition, rounds[r].rev, rounds[r].recruits \cup {Answer(p)}, best)
  BY JoinProposal DEF Step, WalInv
<1>3. /\ PossiblyUndecidedRule(best.pos).num = Outgoing(r)
      /\ Leader(r)' = best.id
  BY <1>2 DEF BuiltFrom, Outgoing, Leader
<1>4. TermOf(r)' = TermOf(r) /\ Outgoing(r)' = Outgoing(r)
  BY JoinRounds DEF Step
<1>5. CommitOf(t, n, w, m) /\ LedgerRecruits(t, m)
  BY DEF Ledger
<1>6. m \in MarkType /\ KnownRule(m.pos.decision) /\ m.pos \in PositionType
  BY <1>5, CommitParts DEF Step, WalInv, ProperPosition
<1>7. ASSUME NEW mark \in MarkType, KnownRule(mark.pos.decision), Covered(r, mark)
      PROVE  /\ Reached(best.id, mark)' /\ Legit(best.pos)
             /\ PosNotAbove(mark.pos, best.pos)
             /\ best.pos \in PositionType
  <2>1. Reaches(MarkOf(best), mark)
    BY <1>2, <1>7, BestReaches
  <2>2. Legit(best.pos) /\ best \in RecruitType /\ Reached(best.id, mark)'
    BY <1>7, <2>1, BestStands
  <2>3. MarkOf(best) \in MarkType /\ MarkOf(best).pos = best.pos /\ best.pos \in PositionType
    BY <2>2 DEF RecruitType, MarkOf, MarkType, FloorType
  <2> QED
    BY <1>7, <2>1, <2>2, <2>3, MarkOrder
<1>8. CASE Overtaken(r)
  <2>1. ASSUME NEW q \in Rounds,
               Proposed(q), durable[TermOf(q)] # 0, TermOf(q) < TermOf(r),
               ~NotAbove(FirstOf(TermOf(q)), Outgoing(r)),
               Covered(r, [pos |-> rounds[q].transition, lsn |-> 0])
        PROVE  FALSE
    <3>1. PICK mark : mark = [pos |-> rounds[q].transition, lsn |-> 0]
      OBVIOUS
    <3>2. /\ mark \in MarkType /\ mark.pos = rounds[q].transition
          /\ KnownRule(mark.pos.decision)
      BY <2>1, <3>1, TransitionMark DEF Step, WalInv
    <3>3. Covered(r, mark)
      BY <2>1, <3>1
    <3>4. Legit(best.pos) /\ PosNotAbove(rounds[q].transition, best.pos)
      BY <1>7, <3>2, <3>3
    <3>5. NotAbove(FirstOf(TermOf(q)), PossiblyUndecidedRule(best.pos).num)
      BY <2>1, <3>4, OutgoingAbove DEF Step, WalInv
    <3> QED
      BY <1>3, <2>1, <3>5
  <2>2. ASSUME NEW q \in Rounds, Proposed(q), TermOf(q) < TermOf(r),
               ~NotAbove(Outgoing(q), Outgoing(r))
        PROVE  FALSE
    <3>1. Proposed(q)' /\ TermOf(q)' = TermOf(q) /\ Outgoing(q)' = Outgoing(q)
      BY <2>2, ProposedKept
    <3>2. OutgoingsOrdered'
      BY OutgoingsInOrder DEF Step
    <3>3. NotAbove(Outgoing(q), Outgoing(r))'
      BY <1>4, <2>2, <3>1, <3>2 DEF OutgoingsOrdered
    <3> QED
      BY <1>4, <2>2, <3>1, <3>3 DEF NotAbove
  <2> QED
    BY <1>8, <2>1, <2>2 DEF Overtaken
<1>9. CASE Covered(r, m)
  <2>1. Reached(best.id, m)' /\ Legit(best.pos) /\ PosNotAbove(m.pos, best.pos)
        /\ best.pos \in PositionType
    BY <1>6, <1>7, <1>9
  <2>2. Reached(Leader(r), m)'
    BY <1>3, <2>1 DEF Reached, Visible, VisibleLsn, Lsn
  <2>3. ASSUME t # FirstTerm PROVE NotAbove(FirstOf(t), Outgoing(r))
    <3>1. PICK q \in Rounds : /\ Proposed(q) /\ TermOf(q) = t
                              /\ PosNotAbove(rounds[q].transition, m.pos)
      BY <1>5, <2>3, CommitParts DEF Step, WalInv
    <3>2. rounds[q].transition \in PositionType
      BY <3>1, ProposedParts DEF Step, WalInv
    <3>3. PosNotAbove(rounds[q].transition, best.pos)
      BY <1>6, <2>1, <3>1, <3>2, PositionOrder
    <3>4. durable[TermOf(q)] # 0
      BY <1>5, <3>1 DEF CommitOf
    <3>5. NotAbove(FirstOf(TermOf(q)), PossiblyUndecidedRule(best.pos).num)
      BY <2>1, <3>1, <3>3, <3>4, OutgoingAbove DEF Step, WalInv
    <3> QED
      BY <1>3, <3>1, <3>5
  <2>4. DurableBelow(t, r)'
    BY <1>4, <2>3 DEF DurableBelow
  <2> QED
    BY <2>2, <2>4
<1>10. Overtaken(r) \/ Covered(r, m)
  BY <1>1, <1>5 DEF LedgerRecruits
<1> QED
  BY <1>8, <1>9, <1>10

\* A round gets its proposal when a pooler joins it.
LEMMA NewlyProposed ==
    ASSUME Step, NEW r \in Rounds, ~Proposed(r), Proposed(r)'
    PROVE  \E p \in Poolers : JoinStep(r, p)
<1>1. ASSUME NEW q \in Rounds, StartStep(q) PROVE FALSE
  <2>1. q # r => rounds'[r] = rounds[r]
    BY <1>1 DEF StartStep
  <2>2. rounds'[q].phase = "recruiting"
    BY <1>1 DEF StartStep
  <2> QED
    BY <2>1, <2>2 DEF Proposed
<1>2. ASSUME NEW q \in Rounds, NEW p \in Poolers, JoinStep(q, p) PROVE q = r
  BY <1>2 DEF JoinStep, Proposed
<1>3. ASSUME NEW q \in Rounds, PromoteStep(q) PROVE FALSE
  BY <1>3, PromoteRounds DEF Step, SameRound
<1>4. ASSUME NEW p \in Poolers, LocalStep(p) PROVE FALSE
  BY <1>4 DEF LocalStep, Proposed
<1> QED
  BY <1>1, <1>2, <1>3, <1>4 DEF Step, Shapes

\* The ledger of a term of which no more becomes durable.
LEMMA SteadyLedger ==
    ASSUME Step, RecruitsInv, LaterAuthoredAbove, NEW t \in Terms, durable'[t] = durable[t],
           NEW n, NEW w, NEW m, Ledger(t, n, w, m)
    PROVE  Ledger(t, n, w, m)'
<1>1. /\ CommitOf(t, n, w, m) /\ LedgerWals(t, n, w)
      /\ LedgerReached(m) /\ LedgerRecruits(t, m) /\ LedgerProposed(t, m)
  BY DEF Ledger
<1>2. m \in MarkType /\ KnownRule(m.pos.decision)
  BY <1>1, CommitParts DEF Step, WalInv
<1>3. WalMonotone'
  BY NextWalInv DEF WalInv
<1>4. CommitOf(t, n, w, m)'
  BY <1>1, CommitKept
<1>5. LedgerWals(t, n, w)'
  BY <1>1, WalsKept
<1>6. PICK Q : Quorum(Q) /\ \A s \in Q : Reached(s, m)
  BY <1>1 DEF LedgerReached
<1>7. ASSUME NEW s \in Q PROVE Reached(s, m)'
  BY <1>2, <1>3, <1>6, <1>7, QuorumMembers, ReachedKept
<1>8. LedgerReached(m)'
  BY <1>6, <1>7 DEF LedgerReached
<1>9. ASSUME NEW r \in Rounds, rounds'[r].phase = "recruiting", t < TermOf(r)'
      PROVE  Overtaken(r)' \/ Covered(r, m)'
  <2>1. CASE StartStep(r)
    <3>1. rounds'[r].recruits = {}
      BY <2>1, StartElection DEF Step, WalInv, StartStep
    <3> QED
      BY <1>6, <1>7, <3>1 DEF Covered
  <2>2. CASE rounds[r].phase = "recruiting"
    <3>1. TermOf(r)' = TermOf(r)
      BY <2>2 DEF Step, RoundsGrow, TermOf, Started
    <3>2. Overtaken(r) \/ Covered(r, m)
      BY <1>1, <1>9, <2>2, <3>1 DEF LedgerRecruits
    <3> QED
      BY <1>2, <1>9, <2>2, <3>2, OvertakenKept, CoveredKept
  <2> QED
    BY <1>9, <2>1, <2>2, RecruitsAfter
<1>10. ASSUME NEW r \in Rounds, Proposed(r)', t < TermOf(r)'
       PROVE  Reached(Leader(r), m)' /\ DurableBelow(t, r)'
  <2>1. CASE Proposed(r)
    <3>1. Leader(r)' = Leader(r) /\ TermOf(r)' = TermOf(r) /\ Outgoing(r)' = Outgoing(r)
      BY <2>1, ProposedKept
    <3>2. PICK s : s = Leader(r)
      OBVIOUS
    <3>3. s \in Poolers
      BY <2>1, <3>2, ProposedParts DEF Step, WalInv
    <3>4. Reached(s, m) /\ DurableBelow(t, r)
      BY <1>1, <1>10, <2>1, <3>1, <3>2 DEF LedgerProposed
    <3>5. Reached(s, m)'
      BY <1>2, <1>3, <3>3, <3>4, ReachedKept
    <3>6. Reached(Leader(r), m)'
      BY <3>1, <3>2, <3>5 DEF Reached, Visible, VisibleLsn, Lsn
    <3>7. DurableBelow(t, r)'
      BY <3>1, <3>4 DEF DurableBelow
    <3> QED
      BY <3>6, <3>7
  <2>2. CASE ~Proposed(r)
    <3>1. PICK p \in Poolers : JoinStep(r, p)
      BY <1>10, <2>2, NewlyProposed
    <3>2. TermOf(r)' = TermOf(r)
      BY <3>1, JoinRounds DEF Step
    <3> QED
      BY <1>10, <2>2, <3>1, <3>2, ProposalReaches
  <2> QED
    BY <2>1, <2>2
<1>11. LedgerRecruits(t, m)'
  BY <1>9 DEF LedgerRecruits
<1>12. LedgerProposed(t, m)'
  BY <1>10 DEF LedgerProposed
<1> QED
  BY <1>4, <1>5, <1>8, <1>11, <1>12 DEF Ledger

-----------------------------------------------------------------------------
(* The ledger of a term of which more becomes durable.                     *)

\* The new commit, on the primary.
NewCommit(t, p, n, w, m) ==
    n = durable'[t] /\ w = wal'[p] /\ m = [pos |-> w[n].pos, lsn |-> n]

\* The record that has become durable is one of its primary, of its own term.
LEMMA NewCommitParts ==
    ASSUME Step, NEW t \in Terms, NEW p \in Poolers, Grows(t, p),
           NEW n, NEW w, NEW m, NewCommit(t, p, n, w, m)
    PROVE  /\ n \in Nat /\ n # 0 /\ n \in 1..Lsn(p)' /\ n <= acked'[p] /\ acked'[p] \in 1..Lsn(p)'
           /\ t \in Nat /\ t # 0 /\ prim'[p] = t /\ acked'[p] \in Nat /\ Lsn(p)' \in Nat
           /\ w[n].by = t
           /\ \/ w[n].kind = "data"
              \/ w[n].kind = "rule" /\ PossiblyUndecidedRule(w[n].pos).num.term = t
           /\ w[n].pos \in PositionType /\ m \in MarkType /\ m.pos = w[n].pos /\ m.lsn = n
<1>1. t \in Nat /\ t # 0
  BY TermTypes
<1>2. prim'[p] = t /\ n \in Committed(p)' /\ n <= acked'[p]
  BY DEF Grows, NewCommit
<1>3. /\ Lsn(p)' \in Nat /\ VisibleLsn(p)' \in 1..Lsn(p)'
      /\ \A i \in 1..Lsn(p)' : wal'[p][i].pos \in PositionType
  BY WalTypesNext DEF Step, Ground, WalShapes, WalShape
<1>4. VisibleLsn(p)' = acked'[p]
  BY <1>1, <1>2 DEF VisibleLsn
<1>5. /\ n \in 1..VisibleLsn(p)' /\ wal'[p][n].by = prim'[p]
      /\ \/ wal'[p][n].kind = "data"
         \/ /\ wal'[p][n].kind = "rule"
            /\ PossiblyUndecidedRule(wal'[p][n].pos).num.term = prim'[p]
  BY <1>2 DEF Committed
<1>6. acked'[p] \in 1..Lsn(p)'
  BY <1>3, <1>4
<1>7. n \in Nat /\ n # 0 /\ n \in 1..Lsn(p)' /\ acked'[p] \in Nat
  BY <1>2, <1>3, <1>4, <1>5, <1>6
<1>8. w[n].pos \in PositionType
  BY <1>3, <1>7 DEF NewCommit
<1>9. PICK pos : pos = w[n].pos
  OBVIOUS
<1>10. m = [pos |-> pos, lsn |-> n] /\ pos \in PositionType
  BY <1>8, <1>9 DEF NewCommit
<1>11. m \in MarkType /\ m.pos = pos /\ m.lsn = n
  BY <1>7, <1>10 DEF MarkType, FloorType
<1> QED
  BY <1>1, <1>2, <1>3, <1>5, <1>6, <1>7, <1>8, <1>9, <1>11 DEF NewCommit

\* It heads the ledger of its term.
LEMMA NewCommitOf ==
    ASSUME Step, NEW t \in Terms, NEW p \in Poolers, Grows(t, p),
           NEW n, NEW w, NEW m, NewCommit(t, p, n, w, m)
    PROVE  CommitOf(t, n, w, m)'
<1>1. /\ n \in Nat /\ n # 0 /\ n \in 1..Lsn(p)' /\ w[n].by = t /\ Lsn(p)' \in Nat
      /\ \/ w[n].kind = "data"
         \/ w[n].kind = "rule" /\ PossiblyUndecidedRule(w[n].pos).num.term = t
  BY NewCommitParts
<1>2. n = durable'[t] /\ w = wal'[p] /\ m = [pos |-> w[n].pos, lsn |-> n] /\ rounds' = rounds
  BY DEF NewCommit, Grows
<1>3. WalWritten' /\ WalMonotone'
  BY NextWalInv DEF WalInv
<1>4. \A i, j \in 1..n : i <= j => PosNotAbove(w[i].pos, w[j].pos)
  <2>1. \A i \in 1..n : i \in 1..Lsn(p)'
    BY <1>1
  <2>2. \A i, j \in 1..Lsn(p)' : i <= j => PosNotAbove(wal'[p][i].pos, wal'[p][j].pos)
    BY <1>3 DEF WalMonotone, PosNotAbove
  <2> QED
    BY <1>2, <2>1, <2>2
<1>5. PICK x : x = w[n]
  OBVIOUS
<1>6. Written(x)'
  <2>1. x = wal'[p][n]
    BY <1>2, <1>5
  <2> QED
    BY <1>1, <1>3, <2>1 DEF WalWritten, Written, WrittenIn
<1>7. CASE x.by = FirstTerm /\ x.pos = Decided(InitialRule)
  BY <1>1, <1>2, <1>4, <1>5, <1>7 DEF CommitOf
<1>8. ASSUME NEW r \in Rounds, WrittenIn(x, r)'
      PROVE  /\ rounds[r].phase = "promoting" /\ TermOf(r) = t
             /\ w[n].pos \in {rounds[r].transition, Decided(rounds[r].transition.proposal)}
  <2>1. /\ rounds[r].phase = "promoting" /\ x.by = TermOf(r)
        /\ \/ PossiblyUndecidedRule(x.pos) = rounds[r].transition.decision /\ x.kind # "data"
           \/ x.pos = rounds[r].transition
           \/ x.pos = Decided(rounds[r].transition.proposal)
    BY <1>2, <1>8 DEF WrittenIn, TermOf
  <2>2. /\ rounds[r].transition.decision.num = Outgoing(r)
        /\ Outgoing(r).term < TermOf(r) /\ TermOf(r) \in Nat /\ Outgoing(r).term \in Nat
    BY <2>1, ProposedParts DEF Proposed, Step, WalInv
  <2>3. ~(PossiblyUndecidedRule(x.pos) = rounds[r].transition.decision /\ x.kind # "data")
    BY <1>1, <1>5, <2>1, <2>2
  <2> QED
    BY <1>1, <1>5, <2>1, <2>3
<1>9. CASE \E r \in Rounds : WrittenIn(x, r)'
  <2>1. PICK r \in Rounds : WrittenIn(x, r)'
    BY <1>9
  <2>2. /\ rounds'[r].phase = "promoting" /\ TermOf(r)' = t
        /\ w[n].pos \in {rounds'[r].transition, Decided(rounds'[r].transition.proposal)}
    BY <1>2, <1>8, <2>1 DEF TermOf
  <2> QED
    BY <1>1, <1>2, <1>4, <2>2 DEF CommitOf
<1> QED
  BY <1>6, <1>7, <1>9 DEF Written

\* Every WAL with records of the term agrees with its primary up to it.
LEMMA NewCommitWals ==
    ASSUME Step, NEW t \in Terms, NEW p \in Poolers, Grows(t, p),
           \A r \in Rounds : Proposed(r) => ~(t < TermOf(r)),
           NEW n, NEW w, NEW m, NewCommit(t, p, n, w, m)
    PROVE  LedgerWals(t, n, w)'
<1>1. /\ n \in Nat /\ n # 0 /\ n \in 1..Lsn(p)' /\ w[n].by = t /\ Lsn(p)' \in Nat
      /\ t \in Nat /\ t # 0 /\ prim'[p] = t
  BY NewCommitParts
<1>2. w = wal'[p] /\ rounds' = rounds
  BY DEF NewCommit, Grows
<1>3. Owners' /\ WalWritten'
  BY NextWalInv DEF WalInv
<1>4. ASSUME NEW q \in Poolers, NEW i \in 1..Lsn(q)', wal'[q][i].by = t
      PROVE  \A j \in 1..i : j <= n => wal'[q][j] = w[j]
  <2>1. Owner(p)'
    BY <1>3 DEF Owners
  <2>2. \A j \in 1..i : wal'[q][j] = wal'[p][j]
    BY <1>1, <1>4, <2>1 DEF Owner
  <2> QED
    BY <1>2, <2>2
<1>5. ASSUME NEW q \in Poolers, prim'[q] = t PROVE n <= Lsn(q)'
  <2>1. Owner(q)'
    BY <1>3 DEF Owners
  <2>2. wal'[p][n].by = prim'[q] /\ prim'[q] # 0
    BY <1>1, <1>2, <1>5
  <2> QED
    BY <1>1, <2>1, <2>2 DEF Owner
<1>6. ASSUME NEW q \in Poolers, NEW i \in 1..Lsn(q)', wal'[q][i].by > t PROVE FALSE
  <2>1. PICK x : x = wal'[q][i]
    OBVIOUS
  <2>2. Written(x)'
    BY <1>3, <2>1 DEF WalWritten, Written, WrittenIn
  <2>3. x.by # FirstTerm
    BY <1>1, <1>6, <2>1, TermTypes, FirstTermType
  <2>4. PICK r \in Rounds : rounds[r].phase = "promoting" /\ x.by = TermOf(r)
    BY <1>2, <2>2, <2>3 DEF Written, WrittenIn, TermOf
  <2>5. Proposed(r)
    BY <2>4 DEF Proposed
  <2>6. TermOf(r) \in Nat
    BY <2>5, ProposedParts DEF Step, WalInv
  <2> QED
    BY <1>1, <1>6, <2>1, <2>4, <2>5, <2>6
<1> QED
  BY <1>4, <1>5, <1>6 DEF LedgerWals

\* Prefixes, of the WALs before and after a step.
PrefixesAgree ==
    \A s, p \in Poolers : IsPrefix(wal[s], wal[p]) =>
        Lsn(s) <= Lsn(p) /\ \A i \in 1..Lsn(s) : wal[s][i] = wal[p][i]

\* What IsPrefix says, record by record.
LEMMA PrefixesHold ==
    TypeOK' => PrefixesAgree'
<1>1. TypeOK => PrefixesAgree
  BY PrefixParts DEF PrefixesAgree
<1> QED
  BY <1>1, PTL

\* The quorum that flushed the commit has reached it.
LEMMA NewCommitReached ==
    ASSUME Step, NEW t \in Terms, NEW p \in Poolers, Grows(t, p),
           NEW n, NEW w, NEW m, NewCommit(t, p, n, w, m)
    PROVE  \E Q : Quorum(Q) /\ \A s \in Q : Reached(s, m)' /\ (s = p \/ conn'[s] = p)
<1>1. /\ n \in Nat /\ n # 0 /\ n \in 1..Lsn(p)' /\ n <= acked'[p] /\ acked'[p] \in 1..Lsn(p)'
      /\ t # 0 /\ prim'[p] = t /\ acked'[p] \in Nat /\ Lsn(p)' \in Nat
      /\ m \in MarkType /\ m.pos = w[n].pos /\ m.lsn = n
  BY NewCommitParts
<1>2. w = wal'[p] /\ acked'[p] \in FlushedByQuorum(p)'
  BY DEF NewCommit, Grows
<1>3. FlushCovered' /\ WalMonotone'
  BY FlushedCovered, NextWalInv DEF Step, Ground, WalInv
<1>4. PICK k : k = acked'[p]
  OBVIOUS
<1>5. FlushQuorum(p, k)'
  BY <1>1, <1>2, <1>3, <1>4 DEF FlushCovered
<1>6. PICK Q \in SUBSET InitialRule.cohort :
         /\ SatisfiedBy(InitialRule.policy, Q)
         /\ \A s \in Q : s = p \/ (conn'[s] = p /\ IsPrefix(wal'[s], wal'[p]) /\ k <= Lsn(s)')
  BY <1>5 DEF FlushQuorum, Lsn
<1>7. Quorum(Q)
  BY <1>6 DEF Quorum
<1>8. \A i \in 1..Lsn(p)' : n <= i => PosNotAbove(m.pos, wal'[p][i].pos)
  BY <1>1, <1>2, <1>3 DEF WalMonotone, PosNotAbove
<1>9. ASSUME NEW s \in Poolers, NEW i \in 1..Lsn(p)', n <= i,
             Visible(s)' = wal'[p][i].pos, n <= Lsn(s)'
      PROVE  Reached(s, m)'
  <2>1. PICK y : y = [pos |-> Visible(s)', lsn |-> Lsn(s)']
    OBVIOUS
  <2>2. Visible(s)' \in PositionType /\ Lsn(s)' \in Nat
    BY WalTypesNext DEF Step, Ground, WalShapes, WalShape
  <2>3. y \in MarkType /\ y.pos = wal'[p][i].pos /\ y.lsn = Lsn(s)'
    BY <1>9, <2>1, <2>2 DEF MarkType, FloorType
  <2>4. PosNotAbove(m.pos, y.pos) /\ m.lsn <= y.lsn
    BY <1>1, <1>8, <1>9, <2>3
  <2>5. Reaches(y, m)
    BY <1>1, <2>3, <2>4, MarkOrder
  <2> QED
    BY <2>1, <2>5 DEF Reached
<1>10. ASSUME NEW s \in Q PROVE Reached(s, m)' /\ (s = p \/ conn'[s] = p)
  <2>1. s \in Poolers
    BY <1>7, <1>10, QuorumMembers
  <2>2. CASE s = p
    <3>1. Visible(p)' = wal'[p][k].pos
      BY <1>1, <1>4 DEF Visible, VisibleLsn
    <3> QED
      BY <1>1, <1>4, <1>9, <2>2, <3>1
  <2>3. CASE s # p
    <3>1. conn'[s] = p /\ IsPrefix(wal'[s], wal'[p]) /\ k <= Lsn(s)'
      BY <1>6, <1>10, <2>3
    <3>2. prim'[s] = 0
      <4>1. conn'[s] # None
        BY <3>1, ConstantsAssumption
      <4> QED
        BY <2>1, <4>1 DEF Step, HistoryInv, HistoryOf, OperationOwnsWal
    <3>3. Visible(s)' = wal'[s][Lsn(s)'].pos /\ Lsn(s)' \in Nat
      <4>1. VisibleLsn(s)' = Lsn(s)'
        BY <3>2 DEF VisibleLsn
      <4>2. Lsn(s)' \in Nat
        BY <2>1, WalTypesNext DEF Step, Ground, WalShapes, WalShape
      <4> QED
        BY <4>1, <4>2 DEF Visible
    <3>4. Lsn(s)' <= Lsn(p)' /\ \A i \in 1..Lsn(s)' : wal'[s][i] = wal'[p][i]
      BY <2>1, <3>1, PrefixesHold DEF Step, Ground, PrefixesAgree, Lsn
    <3>5. Lsn(s)' \in 1..Lsn(p)' /\ Lsn(s)' \in 1..Lsn(s)' /\ n <= Lsn(s)'
      BY <1>1, <1>4, <3>1, <3>3, <3>4
    <3> QED
      BY <1>9, <2>1, <3>1, <3>3, <3>4, <3>5
  <2> QED
    BY <2>2, <2>3
<1> QED
  BY <1>7, <1>10

\* Recruits that cannot miss a mark cannot miss a lower one.
LEMMA CoveredBelow ==
    ASSUME TypeOK, NEW r \in Rounds, NEW a \in MarkType, NEW b \in MarkType,
           Covered(r, a), Reaches(a, b)
    PROVE  Covered(r, b)
<1>1. PICK Q : /\ Quorum(Q)
               /\ \A s \in Q : /\ Reached(s, a)
                               /\ \A c \in rounds[r].recruits : c.id = s => Reaches(MarkOf(c), a)
  BY DEF Covered
<1>2. ASSUME NEW s \in Q PROVE Reached(s, b)
  BY <1>1, <1>2, QuorumMembers, ReachedBelow
<1>3. ASSUME NEW c \in rounds[r].recruits, Reaches(MarkOf(c), a) PROVE Reaches(MarkOf(c), b)
  <2>1. c \in RecruitType
    BY <1>3, RoundTypes
  <2>2. MarkOf(c) \in MarkType
    BY <2>1 DEF RecruitType, MarkOf, MarkType, FloorType
  <2> QED
    BY <1>3, <2>2, MarkOrder
<1> QED
  BY <1>1, <1>2, <1>3 DEF Covered

\* A round whose recruit flushed a later write of the term was overtaken.
LEMMA FlushedByRecruit ==
    ASSUME Step, ConnInv, LedgerInv, NEW t \in Terms, NEW p \in Poolers, Grows(t, p),
           \A q \in Rounds : Proposed(q) => ~(t < TermOf(q)),
           NEW r \in Rounds, rounds[r].phase = "recruiting", t < TermOf(r),
           NEW s \in rounds[r].accepted, s = p \/ conn'[s] = p
    PROVE  Overtaken(r)
<1>1. t \in Nat /\ t # 0 /\ TermOf(r) \in Nat /\ prim'[p] = t /\ rounds' = rounds
  BY TermTypes, RoundTypes DEF Grows, Step, Ground
<1>2. s # p
  <2>1. AcceptancesStand(r)'
    BY DEF Step, ElectionInv, ElectionOf
  <2>2. prim'[s] = 0 \/ TermOf(r) <= prim'[s]
    BY <1>1, <2>1 DEF AcceptancesStand, TermOf
  <2> QED
    BY <1>1, <2>2
<1>3. conn'[s] = p /\ p # None /\ s \in rounds'[r].accepted
  BY <1>1, <1>2, ConstantsAssumption
<1>4. Started(r) /\ JustifiedConn(r, p)
  BY <1>3, NextJustified
<1>5. PICK pos : Legit(pos) /\ PossiblyUndecidedRule(pos).leader = p /\ Escapes(pos, r)
  BY <1>4 DEF JustifiedConn
<1>6. LedLater(r, p) \/ ReplacedLater(r) \/ DecidedLater(r)
  BY <1>4, <1>5, EscapedLead DEF Step, WalInv
<1>7. ASSUME NEW q \in Rounds, Proposed(q) PROVE TermOf(q) \in Nat /\ TermOf(q) < TermOf(r)
  <2>1. TermOf(q) \in Nat /\ ~(t < TermOf(q))
    BY <1>7, ProposedParts DEF Step, WalInv
  <2> QED
    BY <1>1, <2>1
<1>8. CASE LedLater(r, p)
  <2>1. PICK q \in Rounds : Proposed(q) /\ TermOf(r) <= TermOf(q)
    BY <1>8 DEF LedLater
  <2> QED
    BY <1>1, <1>7, <2>1
<1>9. CASE ReplacedLater(r)
  BY <1>7, <1>9 DEF ReplacedLater, Overtaken
<1>10. CASE DecidedLater(r)
  <2>1. PICK q \in Rounds :
           /\ Proposed(q) /\ durable[TermOf(q)] # 0 /\ TermOf(q) < TermOf(r)
           /\ ~NotAbove(FirstOf(TermOf(q)), Outgoing(r))
    BY <1>10 DEF DecidedLater, FirstOf
  <2>2. PICK u : u = TermOf(q)
    OBVIOUS
  <2>3. u \in Terms /\ FirstTerm < u /\ u \in Nat
    BY <2>1, <2>2, ProposedParts DEF Step, WalInv
  <2>4. PICK n, w, m : Ledger(u, n, w, m)
    BY <2>1, <2>2, <2>3 DEF LedgerInv
  <2>5. CommitOf(u, n, w, m) /\ LedgerRecruits(u, m)
    BY <2>4 DEF Ledger
  <2>6. Overtaken(r) \/ Covered(r, m)
    BY <2>1, <2>2, <2>5 DEF LedgerRecruits
  <2>7. ASSUME Covered(r, m) PROVE Overtaken(r)
    <3>1. m \in MarkType /\ m.pos \in PositionType
      BY <2>3, <2>5, CommitParts DEF Step, WalInv, ProperPosition
    <3>2. PICK o \in Rounds : Proposed(o) /\ TermOf(o) = u /\ PosNotAbove(rounds[o].transition, m.pos)
      BY <2>3, <2>5, FirstTermType, CommitParts DEF Step, WalInv
    <3>3. o = q
      BY <2>1, <2>2, <3>2, ProposalsOrdered DEF Step, Ground, WalInv, ElectionInv
    <3>4. PICK mark : mark = [pos |-> rounds[q].transition, lsn |-> 0]
      OBVIOUS
    <3>5. mark \in MarkType /\ mark.pos = rounds[q].transition /\ mark.lsn = 0
      BY <2>1, <3>4, TransitionMark DEF Step, WalInv
    <3>6. m.lsn \in Nat /\ mark.lsn <= m.lsn /\ PosNotAbove(mark.pos, m.pos)
      BY <3>1, <3>2, <3>3, <3>5 DEF MarkType, FloorType
    <3>7. Reaches(m, mark)
      BY <3>1, <3>5, <3>6, MarkOrder
    <3>8. Covered(r, mark)
      BY <2>7, <3>1, <3>5, <3>7, CoveredBelow DEF Step, Ground
    <3> QED
      BY <2>1, <3>4, <3>8 DEF Overtaken
  <2> QED
    BY <2>6, <2>7
<1> QED
  BY <1>6, <1>8, <1>9, <1>10

\* A commit that has become durable starts a ledger of its own: nothing of a later
\* term has been proposed, and whoever recruits has to recruit past it.
LEMMA GrownLedger ==
    ASSUME Step, ConnInv, RecruitsInv, LedgerInv, NEW t \in Terms, NEW p \in Poolers, Grows(t, p)
    PROVE  \E n, w, m : Ledger(t, n, w, m)'
<1>1. LaterAuthoredAbove
  BY LedgerAbove
<1>2. \A r \in Rounds : Proposed(r) => ~(t < TermOf(r))
  BY <1>1, Fenced
<1>3. PICK n, w : n = durable'[t] /\ w = wal'[p]
  OBVIOUS
<1>4. PICK m : m = [pos |-> w[n].pos, lsn |-> n]
  OBVIOUS
<1>5. NewCommit(t, p, n, w, m)
  BY <1>3, <1>4 DEF NewCommit
<1>6. CommitOf(t, n, w, m)' /\ LedgerWals(t, n, w)'
  BY <1>2, <1>5, NewCommitOf, NewCommitWals
<1>7. PICK Q : Quorum(Q) /\ \A s \in Q : Reached(s, m)' /\ (s = p \/ conn'[s] = p)
  BY <1>5, NewCommitReached
<1>8. LedgerReached(m)'
  BY <1>7 DEF LedgerReached
<1>9. rounds' = rounds
  BY DEF Grows
<1>10. ASSUME NEW r \in Rounds, rounds'[r].phase = "recruiting", t < TermOf(r)'
       PROVE  Overtaken(r)' \/ Covered(r, m)'
  <2>1. rounds[r].phase = "recruiting" /\ t < TermOf(r) /\ rounds'[r].recruits = rounds[r].recruits
    BY <1>9, <1>10 DEF TermOf
  <2>2. CASE \E s \in Q : \E c \in rounds[r].recruits : c.id = s
    <3>1. PICK s \in Q, c \in rounds[r].recruits : c.id = s
      BY <2>2
    <3>2. s \in rounds[r].accepted
      BY <3>1 DEF RecruitsInv
    <3>3. Overtaken(r)
      BY <1>2, <1>7, <2>1, <3>1, <3>2, FlushedByRecruit
    <3> QED
      BY <1>10, <2>1, <3>3, OvertakenKept
  <2>3. CASE ~\E s \in Q : \E c \in rounds[r].recruits : c.id = s
    BY <1>7, <2>1, <2>3 DEF Covered
  <2> QED
    BY <2>2, <2>3
<1>11. LedgerRecruits(t, m)'
  BY <1>10 DEF LedgerRecruits
<1>12. LedgerProposed(t, m)'
  BY <1>2, <1>9 DEF LedgerProposed, Proposed, TermOf
<1> QED
  BY <1>6, <1>8, <1>11, <1>12 DEF Ledger

\* Every step keeps the ledger of every term.
LEMMA NextLedger ==
    ASSUME Step, ConnInv, RecruitsInv, LedgerInv
    PROVE  LedgerInv'
<1>1. LaterAuthoredAbove
  BY LedgerAbove
<1>2. ASSUME NEW t \in Terms, durable'[t] # 0 PROVE \E n, w, m : Ledger(t, n, w, m)'
  <2>1. CASE durable'[t] = durable[t]
    <3>1. PICK n, w, m : Ledger(t, n, w, m)
      BY <1>2, <2>1 DEF LedgerInv
    <3> QED
      BY <1>1, <2>1, <3>1, SteadyLedger
  <2>2. CASE durable'[t] # durable[t]
    <3>1. PICK p \in Poolers : Grows(t, p)
      BY <2>2, GrowthSource
    <3> QED
      BY <3>1, GrownLedger
  <2> QED
    BY <2>1, <2>2
<1> QED
  BY <1>2 DEF LedgerInv

-----------------------------------------------------------------------------
(* The initial state.                                                      *)

\* The record every WAL starts with.
FirstRecord == [by |-> FirstTerm, kind |-> "rule", pos |-> Decided(InitialRule)]

\* The first cohort as a whole can commit.
LEMMA FirstPolicySatisfied == Quorum(InitialRule.cohort)
<1>1. PICK policy, cohort, leader :
         policy = InitialRule.policy /\ cohort = InitialRule.cohort /\ leader = InitialRule.leader
  OBVIOUS
<1>2. policy \in Policies /\ cohort \in SUBSET Poolers /\ leader \in cohort
  BY <1>1, FirstTermType, RuleParts, ConstantsAssumption
<1>3. CanBuildSyncReplicationConfig([policy |-> policy, cohort |-> cohort], leader)
  BY <1>1, ConstantsAssumption DEF PolicyWithCohort
<1>4. PICK S : S = BuildSyncReplicationConfig([policy |-> policy, cohort |-> cohort], leader).standbys
  OBVIOUS
<1>5. IsFiniteSet(cohort)
  BY <1>2, PoolersAssumption, FS_Subset
<1>6. Cardinality(S) >= BuildSyncReplicationConfig([policy |-> policy, cohort |-> cohort], leader).numSync
  <2>1. CASE policy.kind = "AT_LEAST_N" /\ policy.n = 1
    BY <1>4, <2>1, FS_EmptySet DEF BuildSyncReplicationConfig
  <2>2. CASE policy.kind = "AT_LEAST_N" /\ policy.n # 1
    <3>1. Cardinality(cohort \ {leader}) = Cardinality(cohort) - 1
      BY <1>2, <1>5, FS_RemoveElement
    <3>2. /\ S = cohort \ {leader}
          /\ BuildSyncReplicationConfig([policy |-> policy, cohort |-> cohort], leader).numSync
               = policy.n - 1
      BY <1>4, <2>2 DEF BuildSyncReplicationConfig
    <3>3. policy.n - 1 <= Cardinality(cohort) - 1
      BY <1>3, <2>2 DEF CanBuildSyncReplicationConfig
    <3>4. policy.n \in Nat /\ Cardinality(cohort) \in Nat
      BY <1>2, <1>5, FS_CardinalityType DEF Policies, MultiCell
    <3> QED
      BY <3>1, <3>2, <3>3, <3>4
  <2>3. CASE policy.kind # "AT_LEAST_N"
    <3>1. /\ S = {s \in cohort : CellOf[s] # CellOf[leader]}
          /\ BuildSyncReplicationConfig([policy |-> policy, cohort |-> cohort], leader).numSync = 1
      BY <1>4, <2>3 DEF BuildSyncReplicationConfig
    <3>2. S # {} /\ S \subseteq cohort
      BY <1>3, <2>3, <3>1 DEF CanBuildSyncReplicationConfig
    <3>3. Cardinality(S) \in Nat /\ Cardinality(S) # 0
      BY <1>5, <3>2, FS_Subset, FS_CardinalityType, FS_EmptySet
    <3> QED
      BY <3>1, <3>3
  <2> QED
    BY <2>1, <2>2, <2>3
<1>7. S \cup {leader} \subseteq cohort /\ SatisfiedBy(policy, S \cup {leader})
  BY <1>2, <1>3, <1>4, <1>6, CommitQuorumSatisfiesPolicy
<1>8. PICK T : T = S \cup {leader}
  OBVIOUS
<1>9. SatisfiedBy(policy, cohort)
  <2>1. T \in SUBSET cohort /\ SatisfiedBy(policy, T)
    BY <1>7, <1>8
  <2> QED
    BY <1>2, <2>1, SatisfiedByMonotone
<1> QED
  BY <1>1, <1>2, <1>9 DEF Quorum

\* The shard starts from the first rule: one record everywhere, one primary, no
\* round.
LEMMA InitFacts ==
    ASSUME Init
    PROVE  /\ \A p \in Poolers : /\ wal[p] = <<FirstRecord>> /\ Lsn(p) = 1
                                 /\ wal[p][1] = FirstRecord /\ op[p].phase = "none"
                                 /\ rp[p].pos = Decided(InitialRule)
                                 /\ rp[p].primary = InitialRule.leader
                                 /\ prim[p] # 0 => /\ p = InitialRule.leader
                                                   /\ prim[p] = FirstTerm /\ acked[p] = 1
           /\ \A r \in Rounds : /\ ~Started(r) /\ ~Proposed(r)
                                /\ rounds[r].phase = "idle"
                                /\ rounds[r].accepted = {} /\ rounds[r].recruits = {}
                                /\ rounds[r].transition = NoPosition
           /\ FirstTerm \in Terms /\ durable[FirstTerm] = 1
           /\ \A t \in Terms : t # FirstTerm => durable[t] = 0
<1>1. ASSUME NEW p \in Poolers
      PROVE  /\ wal[p] = <<FirstRecord>> /\ Lsn(p) = 1
             /\ wal[p][1] = FirstRecord /\ op[p].phase = "none"
             /\ rp[p].pos = Decided(InitialRule)
             /\ rp[p].primary = InitialRule.leader
  <2>1. wal[p] = <<FirstRecord>>
    BY DEF Init, FirstRecord
  <2>2. Lsn(p) = 1 /\ wal[p][1] = FirstRecord
    BY <2>1 DEF Lsn
  <2> QED
    BY <2>1, <2>2 DEF Init, NoOp
<1>2. ASSUME NEW p \in Poolers, prim[p] # 0
      PROVE  p = InitialRule.leader /\ prim[p] = FirstTerm /\ acked[p] = 1
  BY <1>2 DEF Init
<1>3. ASSUME NEW r \in Rounds
      PROVE  /\ ~Started(r) /\ ~Proposed(r) /\ rounds[r].phase = "idle"
             /\ rounds[r].accepted = {} /\ rounds[r].recruits = {}
             /\ rounds[r].transition = NoPosition
  BY DEF Init, IdleRound, Started, Proposed
<1>4. FirstTerm \in Terms
  BY FirstTermType, ConstantsAssumption DEF Terms
<1>5. durable[FirstTerm] = 1 /\ \A t \in Terms : t # FirstTerm => durable[t] = 0
  BY <1>4 DEF Init
<1> QED
  BY <1>1, <1>2, <1>3, <1>4, <1>5

\* The invariant of WALs and elections holds at the start.
LEMMA InitWalInv ==
    ASSUME Init
    PROVE  WalInv
<1>1. TypeOK /\ AgreementInv
  BY InitTypes, InitAgreement
<1>2. Legit(Decided(InitialRule))
  BY DEF Legit
<1>3. KnownRule(InitialRule)
  BY DEF KnownRule
<1>4. /\ Decided(InitialRule) \in PositionType
      /\ PossiblyUndecidedRule(Decided(InitialRule)) = InitialRule
  BY <1>1, <1>3, DecidedParts DEF AgreementInv
<1>5. ElectionInv
  <2>1. RoundsInOrder
    BY InitFacts DEF RoundsInOrder
  <2>2. AcceptancesOrdered
    BY InitFacts DEF AcceptancesOrdered
  <2>3. ASSUME NEW r \in Rounds PROVE ElectionOf(r)
    BY InitFacts DEF ElectionOf, RoundBounded, AcceptancesStand, ProposalBuilt, NoProposalYet
  <2> QED
    BY <2>1, <2>2, <2>3 DEF ElectionInv
<1>6. \A p \in Poolers : \A i \in 1..Lsn(p) : i = 1 /\ wal[p][i] = FirstRecord
  BY InitFacts
<1>7. FirstRecord.pos = Decided(InitialRule) /\ FirstRecord.by = FirstTerm
  BY DEF FirstRecord
<1>8. WalLegit /\ WalWritten
  BY <1>2, <1>6, <1>7 DEF WalLegit, WalWritten, Written
<1>9. ToldInv
  BY <1>2, <1>4, InitFacts DEF ToldInv, Told
<1>10. OpInvs
  BY InitFacts DEF OpInvs, OpInv
<1>11. WalMonotone
  <2>1. PosNotAbove(Decided(InitialRule), Decided(InitialRule))
    BY <1>4, PositionOrder
  <2> QED
    BY <1>6, <1>7, <2>1 DEF WalMonotone
<1>12. PrimInvs
  BY InitFacts DEF PrimInvs, PrimInv
<1>13. Owners
  <2> SUFFICES ASSUME NEW p \in Poolers, prim[p] # 0 PROVE Owner(p)
    BY DEF Owners, Owner
  <2>1. Lsn(p) = 1 /\ prim[p] = FirstTerm /\ wal[p][1] = FirstRecord
    BY InitFacts
  <2>2. ASSUME NEW q \in Poolers, NEW i \in 1..Lsn(q)
        PROVE  i <= Lsn(p) /\ \A j \in 1..i : wal[q][j] = wal[p][j]
    <3>1. wal[q] = wal[p] /\ Lsn(q) = 1
      BY InitFacts
    <3> QED
      BY <2>1, <3>1
  <2> QED
    BY <1>7, <2>1, <2>2 DEF Owner
<1>14. ReleasedInv
  <2> SUFFICES ASSUME NEW p \in Poolers, prim[p] # 0
               PROVE  /\ prim[p] \in Terms
                      /\ \A n \in FlushedByQuorum(p) : n <= acked[p]
                      /\ \A n \in Committed(p) : n <= durable[prim[p]]
    BY DEF ReleasedInv
  <2>1. /\ prim[p] = FirstTerm /\ acked[p] = 1 /\ Lsn(p) = 1
        /\ FirstTerm \in Terms /\ durable[FirstTerm] = 1
    BY InitFacts
  <2>2. \A n \in FlushedByQuorum(p) : n \in 1..1
    BY <2>1 DEF FlushedByQuorum
  <2>3. \A n \in Committed(p) : n \in 1..1
    BY <2>1 DEF Committed, VisibleLsn
  <2> QED
    BY <2>1, <2>2, <2>3
<1> QED
  BY <1>5, <1>8, <1>9, <1>10, <1>11, <1>12, <1>13, <1>14 DEF WalInv

\* So do those of connections, recruits and commits.
LEMMA InitLedger ==
    ASSUME Init
    PROVE  ConnInv /\ RecruitsInv /\ LedgerInv
<1>1. ConnInv /\ RecruitsInv
  BY InitFacts DEF ConnInv, RecruitsInv
<1>2. PICK w, m : w = <<FirstRecord>> /\ m = [pos |-> FirstRecord.pos, lsn |-> 1]
  OBVIOUS
<1>3. /\ w[1] = FirstRecord /\ FirstRecord.by = FirstTerm
      /\ FirstRecord.pos = Decided(InitialRule) /\ m = [pos |-> w[1].pos, lsn |-> 1]
  BY <1>2 DEF FirstRecord
<1>4. Decided(InitialRule) \in PositionType
  <2>1. KnownRule(InitialRule)
    BY DEF KnownRule
  <2> QED
    BY <2>1, InitTypes, InitAgreement, DecidedParts DEF AgreementInv
<1>5. CommitOf(FirstTerm, 1, w, m)
  <2>1. PosNotAbove(w[1].pos, w[1].pos)
    BY <1>3, <1>4, PositionOrder
  <2>2. \A i, j \in 1..1 : i <= j => PosNotAbove(w[i].pos, w[j].pos)
    BY <2>1
  <2> QED
    BY <1>3, <2>2, InitFacts DEF CommitOf
<1>6. LedgerWals(FirstTerm, 1, w)
  <2>1. \A q \in Poolers : wal[q] = w /\ Lsn(q) = 1
    BY <1>2, InitFacts
  <2>2. \A q \in Poolers : \A i \in 1..Lsn(q) : ~(wal[q][i].by > FirstTerm)
    BY <1>3, <2>1, FirstTermType
  <2> QED
    BY <2>1, <2>2 DEF LedgerWals
<1>7. \A s \in Poolers : Reached(s, m)
  <2> SUFFICES ASSUME NEW s \in Poolers PROVE Reached(s, m)
    OBVIOUS
  <2>1. Lsn(s) = 1 /\ wal[s][1] = FirstRecord /\ VisibleLsn(s) = 1
    BY InitFacts DEF VisibleLsn
  <2>2. m = [pos |-> Visible(s), lsn |-> Lsn(s)]
    BY <1>2, <2>1 DEF Visible
  <2>3. m \in MarkType
    BY <1>3, <1>4 DEF MarkType, FloorType
  <2>4. Reaches(m, m)
    BY <2>3, MarkOrder
  <2> QED
    BY <2>2, <2>4 DEF Reached
<1>8. LedgerReached(m)
  BY <1>7, FirstPolicySatisfied, QuorumMembers DEF LedgerReached
<1>9. LedgerRecruits(FirstTerm, m) /\ LedgerProposed(FirstTerm, m)
  BY InitFacts DEF LedgerRecruits, LedgerProposed
<1>10. Ledger(FirstTerm, 1, w, m)
  BY <1>5, <1>6, <1>8, <1>9 DEF Ledger
<1>11. LedgerInv
  BY <1>10, InitFacts DEF LedgerInv
<1> QED
  BY <1>1, <1>11

-----------------------------------------------------------------------------
(* The theorems.                                                           *)

\* What is known already, and the invariant that is inductive relative to it.
Basis == Ground /\ HistoryInv
SafeInv == WalInv /\ ConnInv /\ RecruitsInv /\ LedgerInv

\* The invariants of ShardConsensusProofs.
LEMMA BasisHolds == MaxCohortChanges = 0 => (Spec => []Basis)
<1>1. Spec => []HistoryInv
  <2>1. Init => TypeOK /\ HistoryInv
    BY InitTypes, InitHistory
  <2>2. TypeOK /\ HistoryInv /\ [Next]_vars => TypeOK' /\ HistoryInv'
    BY NextTypes, NextHistory
  <2> QED
    BY <2>1, <2>2, PTL DEF Spec
<1>2. TypeOK /\ AgreementInv /\ PromiseInv /\ OneWinner /\ HistoryInv => Basis
  BY DEF Basis, Ground
<1> QED
  BY <1>1, <1>2, AgreementHolds, PromisesAuthored, OneWinnerPerTerm, PTL

\* A step from a state in which all that is known holds.
LEMMA StepHolds ==
    ASSUME MaxCohortChanges = 0, Basis, Basis', SafeInv, [Next]_vars
    PROVE  Step
<1>1. Ground /\ HistoryInv /\ WalInv /\ Ground' /\ HistoryInv' /\ TypeOK'
  BY DEF Basis, SafeInv, Ground
<1>2. ElectionInv /\ WalLegit /\ ToldInv /\ OpInvs /\ ReleasedInv
  BY <1>1 DEF WalInv
<1>3. Shapes /\ ReleaseEffect
  BY <1>1, <1>2, NextShapes
<1>4. ElectionInv' /\ ProposalsKept
  BY <1>1, <1>2, <1>3, NextElection
<1>5. RoundsGrow
  BY <1>1, <1>2, <1>3, NextRoundsGrow
<1> QED
  BY <1>1, <1>3, <1>4, <1>5 DEF Step

\* The inductive invariant.
LEMMA SafeInvHolds == MaxCohortChanges = 0 => (Spec => [](Basis /\ SafeInv))
<1> SUFFICES ASSUME MaxCohortChanges = 0 PROVE Spec => [](Basis /\ SafeInv)
  OBVIOUS
<1>1. Init => SafeInv
  BY InitWalInv, InitLedger DEF SafeInv
<1>2. Basis /\ Basis' /\ SafeInv /\ [Next]_vars => SafeInv'
  <2> SUFFICES ASSUME Basis, Basis', SafeInv, [Next]_vars PROVE SafeInv'
    OBVIOUS
  <2>1. Step /\ ConnInv /\ RecruitsInv /\ LedgerInv
    BY StepHolds DEF SafeInv
  <2>2. WalInv'
    BY <2>1, NextWalInv
  <2>3. WalMonotone'
    BY <2>2 DEF WalInv
  <2>4. ConnInv' /\ RecruitsInv' /\ LedgerInv'
    BY <2>1, <2>3, NextConnInv, NextRecruitsInv, NextLedger
  <2> QED
    BY <2>2, <2>4 DEF SafeInv
<1> QED
  BY <1>1, <1>2, BasisHolds, PTL DEF Spec

\* No two poolers run as primaries of one term.
OnePrimaryPerTerm ==
    \A p, q \in Poolers : prim[p] # 0 /\ prim[p] = prim[q] => p = q

\* One pooler at a time runs as the primary of a term, and whoever holds a record
\* of that term has the primary's WAL up to there: what Promote makes of a round's
\* proposal is one history.
THEOREM FixedCohortOnePrimary == MaxCohortChanges = 0 => (Spec => [](OnePrimaryPerTerm /\ Owners))
<1>1. Basis /\ SafeInv => OnePrimaryPerTerm /\ Owners
  BY PrimUnique DEF Basis, SafeInv, OnePrimaryPerTerm, WalInv
<1> QED
  BY <1>1, SafeInvHolds, PTL

\* A pooler that runs as the primary of a term holds every rule and every client
\* write that the primary of an earlier term reported as committed.
THEOREM FixedCohortLeaderCompleteness ==
    MaxCohortChanges = 0 => (Spec => []LeaderCompleteness)
<1>1. ASSUME Basis, SafeInv PROVE LeaderCompleteness
  <2> SUFFICES ASSUME NEW p \in Poolers, NEW t \in Terms, prim[p] > t, durable[t] # 0
               PROVE  durable[t] <= Lsn(p) /\ wal[p][durable[t]].by = t
    BY DEF LeaderCompleteness
  <2>1. PICK n, w, m : Ledger(t, n, w, m)
    BY <1>1 DEF SafeInv, LedgerInv
  <2>2. n = durable[t] /\ n \in Nat /\ n # 0 /\ w[n].by = t
    BY <2>1 DEF Ledger, CommitOf
  <2>3. t \in Nat /\ prim[p] \in Nat
    BY <1>1, TermTypes DEF Basis, Ground, TypeOK
  <2>4. prim[p] # 0
    BY <2>3
  <2>5. wal[p][Lsn(p)].by = prim[p]
    BY <1>1, <2>4 DEF SafeInv, WalInv, Owners, Owner
  <2>6. Lsn(p) \in 1..Lsn(p)
    BY <1>1, LastRecord DEF Basis, SafeInv
  <2>7. n <= Lsn(p) /\ \A j \in 1..n : wal[p][j] = w[j]
    BY <2>1, <2>5, <2>6 DEF Ledger, LedgerWals
  <2>8. n \in 1..n
    BY <2>2
  <2> QED
    BY <2>2, <2>7, <2>8
<1>2. Basis /\ SafeInv => LeaderCompleteness
  BY <1>1
<1> QED
  BY <1>2, SafeInvHolds, PTL

\* A WAL that goes on past a term, on a primary or a standby, has all of what was
\* committed in it, and WALs with records of that term or later ones are the same
\* up to there as far as they go.
CommitsShared ==
    \A t \in Terms : durable[t] # 0 => \A p \in Poolers : \A i \in 1..Lsn(p) :
        /\ wal[p][i].by > t => durable[t] <= i
        /\ wal[p][i].by >= t =>
              \A q \in Poolers : \A k \in 1..Lsn(q) : wal[q][k].by >= t =>
                  \A j \in 1..durable[t] : j <= i /\ j <= k => wal[p][j] = wal[q][j]

\* LeaderCompleteness says where a commit is.  The ledger says more, that all that
\* was written before it is there too: whomever BuildSafeProposal lets lead, the
\* WALs of the shard share one history up to the last commit.
THEOREM FixedCohortCommitsShared == MaxCohortChanges = 0 => (Spec => []CommitsShared)
<1>1. ASSUME Basis, SafeInv PROVE CommitsShared
  <2> SUFFICES ASSUME NEW t \in Terms, durable[t] # 0, NEW p \in Poolers, NEW i \in 1..Lsn(p)
               PROVE  /\ wal[p][i].by > t => durable[t] <= i
                      /\ wal[p][i].by >= t =>
                            \A q \in Poolers : \A k \in 1..Lsn(q) : wal[q][k].by >= t =>
                                \A j \in 1..durable[t] :
                                    j <= i /\ j <= k => wal[p][j] = wal[q][j]
    BY DEF CommitsShared
  <2>1. PICK n, w, m : Ledger(t, n, w, m)
    BY <1>1 DEF SafeInv, LedgerInv
  <2>2. n = durable[t] /\ n \in Nat /\ LedgerWals(t, n, w)
    BY <2>1 DEF Ledger, CommitOf
  <2>3. t \in Nat
    BY TermTypes
  <2>4. ASSUME NEW q \in Poolers, NEW k \in 1..Lsn(q), wal[q][k].by >= t
        PROVE  /\ \A j \in 1..n : j <= k => wal[q][j] = w[j]
               /\ wal[q][k].by > t => n <= k
    <3>1. wal[q][k] \in RecordType /\ Lsn(q) \in Nat
      BY <1>1, WalTypesNext DEF Basis, Ground, WalShapes, WalShape
    <3>2. wal[q][k].by \in Nat
      BY <3>1, TermTypes DEF RecordType
    <3>3. CASE wal[q][k].by = t
      BY <2>2, <2>3, <3>1, <3>2, <3>3 DEF LedgerWals
    <3>4. CASE wal[q][k].by > t
      BY <2>2, <3>4 DEF LedgerWals
    <3> QED
      BY <2>3, <2>4, <3>2, <3>3, <3>4
  <2>5. wal[p][i].by > t => wal[p][i].by >= t
    <3>1. wal[p][i] \in RecordType
      BY <1>1, WalTypesNext DEF Basis, Ground, WalShapes, WalShape
    <3>2. wal[p][i].by \in Nat
      BY <3>1, TermTypes DEF RecordType
    <3> QED
      BY <2>3, <3>2
  <2> QED
    BY <2>2, <2>4, <2>5
<1>2. Basis /\ SafeInv => CommitsShared
  BY <1>1
<1> QED
  BY <1>2, SafeInvHolds, PTL

\* Once a round has a proposal, Postgres never again finds the standbys for a
\* commit of a primary of an earlier term.
THEOREM FixedCohortFencing == MaxCohortChanges = 0 => (Spec => RevokedTermsFenced)
<1> SUFFICES ASSUME MaxCohortChanges = 0 PROVE Spec => RevokedTermsFenced
  OBVIOUS
<1>1. Basis /\ Basis' /\ SafeInv /\ [Next]_vars =>
        [\A r \in Rounds : rounds[r].phase \in {"proposed", "promoting"} =>
           \A t \in Terms : t < rounds[r].rev.term => durable'[t] = durable[t]]_vars
  <2> SUFFICES ASSUME Basis, Basis', SafeInv, [Next]_vars,
                      NEW r \in Rounds, rounds[r].phase \in {"proposed", "promoting"},
                      NEW t \in Terms, t < rounds[r].rev.term, durable'[t] # durable[t]
               PROVE  FALSE
    OBVIOUS
  <2>1. Step /\ ConnInv /\ LaterAuthoredAbove
    BY StepHolds, LedgerAbove DEF SafeInv
  <2>2. PICK p \in Poolers : Grows(t, p)
    BY <2>1, GrowthSource
  <2>3. Proposed(r) /\ t < TermOf(r)
    BY DEF Proposed, TermOf
  <2> QED
    BY <2>1, <2>2, <2>3, Fenced
<1> QED
  BY <1>1, SafeInvHolds, BasisHolds, PTL DEF Spec, RevokedTermsFenced

==============================================================================
