----------------------------- MODULE Proposals -----------------------------
(***************************************************************************)
(* What a coordinator may propose from the recruits that answered it:      *)
(* go/common/consensus/proposals.go and outgoing_rule.go, with the         *)
(* failover builder of go/services/multiorch/consensus.                    *)
(*                                                                         *)
(* A rule is [num, leader, cohort, policy].  A recruit is the status a     *)
(* pooler returned, [id, pos, lsn].  The operators take the set R of the   *)
(* recruits that accepted the revocation rev; filterByRevocation and the   *)
(* deduplication by pooler are how that set is formed.                     *)
(***************************************************************************)
EXTENDS RulePositions, Durability

PolicyWithCohort(rule) == [policy |-> rule.policy, cohort |-> rule.cohort]

\* Recruits with no recorded decision are treated as an outage of the node.
FilterByValidPosition(R) == {s \in R : ~RuleNumberIsUnset(s.pos.decision.num)}

Ids(R) == {s.id : s \in R}

\* The recruits recording the highest position, the outgoing one.
RecruitsRecordingRule(R, outgoing) ==
    {s \in R : CompareRulePosition(s.pos, outgoing) = 0}

\* The recruits agree on the content of that position, and its rule is the one
\* the revocation was authored to transition from.
DiscoverOutgoingRule(rev, R, outgoing) ==
    /\ \A s \in RecruitsRecordingRule(R, outgoing) : s.pos = outgoing
    /\ CompareRuleNumbers(PossiblyUndecidedRule(outgoing).num, rev.outgoing) = 0

\* The cohort of the outgoing decision is sufficiently recruited.
RevokeByRecruitment(R, decision) ==
    CheckSufficientRecruitment(decision.policy, decision.cohort,
                               Ids(R) \cap decision.cohort)

\* Promote will have to decide a stuck proposal first: the recruits must be
\* able to satisfy the policy that write is made under.
CheckRecruitsCanFinalizeProposal(R, outgoing) ==
    LET out == PolicyWithCohort(outgoing.decision)
        in  == PolicyWithCohort(outgoing.proposal)
    IN  \/ IsRuleDecided(outgoing)
        \/ /\ HasPolicyTransition(out, in)
           /\ LET both == BothPolicy(out, in)
              IN  SatisfiedBy(both.policy, Ids(R) \cap both.cohort)

\* Mutant: any recruit recording the outgoing rule may lead.
EligibleLeadersAnyLsn(R, outgoing) == RecruitsRecordingRule(R, outgoing)

\* The recruits recording the outgoing rule that are tied at the highest LSN.
EligibleLeaders(R, outgoing) ==
    LET recording == RecruitsRecordingRule(R, outgoing)
    IN  {s \in recording : \A t \in recording : t.lsn <= s.lsn}

\* A failover appoints an eligible leader of the outgoing cohort, and keeps the
\* cohort and the policy of the outgoing rule.
FailoverCandidates(R, outgoing) ==
    Ids(EligibleLeaders(R, outgoing)) \cap PossiblyUndecidedRule(outgoing).cohort

BuildFailoverProposal(rev, rule, leader) ==
    [decision |-> rule,
     proposal |-> [rule EXCEPT !.num = [term |-> rev.term, subterm |-> 0],
                               !.leader = leader]]

\* The recruits can make the write of the proposed rule durable; its leader, its
\* number and, after a stuck proposal, its cohort and policy are right as built.
ValidateProposal(R, transition) ==
    SatisfiedBy(transition.proposal.policy, Ids(R) \cap transition.proposal.cohort)

\* The proposals buildProposalCore can return for the recruits: none when it
\* fails.  Which candidate is fittest is left open.
BuildSafeProposal(rev, recruits) ==
    LET R == FilterByValidPosition(recruits)
        Outgoing == {out \in MostAdvanced({s.pos : s \in R}) :
                        /\ DiscoverOutgoingRule(rev, R, out)
                        /\ RevokeByRecruitment(R, out.decision)
                        /\ CheckRecruitsCanFinalizeProposal(R, out)}
        Proposed(out) ==
            {BuildFailoverProposal(rev, PossiblyUndecidedRule(out), leader) :
                leader \in FailoverCandidates(R, out)}
    IN  {transition \in UNION {Proposed(out) : out \in Outgoing} :
            ValidateProposal(R, transition)}

\* The pre-vote: would the poolers that could still accept rev be enough?  A
\* status here is [id, pos, lsn, floorOutstanding, rev].
CheckProposalPossible(rev, statuses) ==
    BuildSafeProposal(rev,
        {[id |-> s.id, pos |-> s.pos, lsn |-> s.lsn] :
            s \in {t \in statuses :
                    ValidateRevocation(t.pos, t.floorOutstanding, t.rev, rev)}}) # {}

============================================================================
