------------------------- MODULE AbandonedRecruits --------------------------
(***************************************************************************)
(* A round that recruits a follower and then dies leaves the follower with *)
(* a promise that revokes the rule still in force: it stops streaming and  *)
(* refuses the leader's SetPrimary.  multiorch notices (RecruitAbandoned)  *)
(* and has the leader rewrite its own rule at the next subterm, which the  *)
(* promise no longer revokes.  Here that advance is the only leader-led    *)
(* rule change, and nothing crashes (a crash in the middle of the advance  *)
(* leaves a proposal for the next failover to settle); everything else is  *)
(* the shard of ShardConsensus.                                            *)
(***************************************************************************)
EXTENDS ShardConsensus

\* The highest position any pooler reports, and the leader it names.
HighestIntendedRule(pos) ==
    /\ \E p \in Poolers : pos = HighestKnownRule(p)
    /\ \A p \in Poolers : CompareRulePosition(HighestKnownRule(p), pos) <= 0

LeaderWritesProgressing(leader, pos) == prim[leader] # 0 /\ IsRuleDecided(pos)

\* Mutant: the analyzer asks whether the follower's own position is behind the
\* leader's instead of what its promise revokes.
StrandedBehind(p, pos) == CompareRulePosition(Visible(p), pos) < 0

\* analyzePooler: a follower whose promise revokes both the rule it vouches for
\* and the rule multiorch would relay to it.
Stranded(p, pos) ==
    /\ ~SelfIsLeader(p)
    /\ IsSelfRevoked(Visible(p), rp[p].pos, rev[p])
    /\ IsRuleRevoked(pos, rev[p])

\* ReconnectRecruitAbandonedAction: UpdateConsensusRule(ADVANCE) on the leader,
\* which compares its own rule with the one multiorch expects.  The SetPrimary
\* that follows is the one multiorch keeps sending (Propagate).
ReconnectRecruitAbandoned(p) ==
    \E pos \in {HighestKnownRule(q) : q \in Poolers} :
        LET leader == PossiblyUndecidedRule(pos).leader
        IN  /\ HighestIntendedRule(pos)
            /\ LeaderWritesProgressing(leader, pos)
            /\ Stranded(p, pos)
            /\ Visible(leader).decision.num = pos.decision.num
            /\ UpdateConsensusRule(leader, pos.decision.cohort)

\* A later round has a proposal: what p writes from now on can only be abandoned.
Superseded(p) ==
    \E r \in Rounds : /\ rounds[r].phase \in {"proposed", "promoting"}
                      /\ prim[p] < rounds[r].rev.term

\* The advance of a leader whose standbys a round has meanwhile recruited away
\* waits for them until the deadline of its context.
AdvanceTimesOut(p) == Superseded(p) /\ op[p].round = 0 /\ AbortOperation(p)

\* Clients write where it hurts: on the primary that has been passed over.
LateWrite(p) == Superseded(p) /\ spent.changes = 0 /\ ClientWrite(p)

AdvanceNext ==
    /\ \/ Coordination
       \/ \E p \in Poolers :
            \/ RuleStep(p) \/ MonitorStep(p) \/ Stream(p)
            \/ LateWrite(p) \/ ReconnectRecruitAbandoned(p) \/ AdvanceTimesOut(p)
    /\ ReleaseCommits

\* Fairness as in ShardConsensus, a recovery loop that keeps looking for stranded
\* followers, and deadlines that pass.
AdvanceSpec ==
    /\ Init /\ [][AdvanceNext]_vars
    /\ Fairness
    /\ \A p \in Poolers : /\ WF_vars(ReconnectRecruitAbandoned(p) /\ ReleaseCommits)
                          /\ WF_vars(AdvanceTimesOut(p) /\ ReleaseCommits)

-----------------------------------------------------------------------------
\* A follower recruited by a round that reaches nobody else comes back: it ends
\* up with all of the leader's WAL and a promise that no longer revokes the rule
\* in force, unless the round gathers another recruit after all (RecruitAbandonedAnalyzer, ReconnectRecruitAbandonedAction, SetPrimary).
Rejoined(p) ==
    \E leader \in Poolers \ {p} :
        /\ prim[leader] # 0 /\ conn[p] = leader /\ wal[p] = wal[leader]
        /\ ~IsRuleRevoked(LastPos(leader), rev[p])

AbandonedRecruitRejoins ==
    \A r \in Rounds, p \in Poolers :
        rounds[r].accepted = {p} /\ prim[p] = 0 /\ LastPos(p).decision.leader # p
            ~> (Rejoined(p) \/ rounds[r].accepted # {p})

=============================================================================
