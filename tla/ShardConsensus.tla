--------------------------- MODULE ShardConsensus ---------------------------
(***************************************************************************)
(* One shard: its poolers, each with its Postgres, and the failover rounds *)
(* coordinators (multiorch) run against them.                              *)
(*                                                                         *)
(* Code: go/services/multiorch/consensus (a round: author a revocation,    *)
(* recruit, propose, promote) and go/services/multipooler/internal/manager *)
(* (Recruit, Promote, SetPrimary, UpdateConsensusRule, the rule store and  *)
(* the Postgres monitor).  Postgres itself (streaming, synchronous commit, *)
(* pg_promote, pg_rewind) is external and modelled by what the code uses.  *)
(*                                                                         *)
(* A WAL is a sequence of records [by, kind, pos]: the term of the primary *)
(* that wrote the record, what it is (the timeline switch of pg_promote, a *)
(* no-op write that probes for a quorum, a rule write or a client write)   *)
(* and the rule position the WAL holds from there on.  An LSN is an index  *)
(* into the WAL.                                                           *)
(***************************************************************************)
EXTENDS Proposals, SequencesExt

CONSTANTS
    None,             \* no pooler
    Coordinators,     \* the multiorch instances
    CoordinatorOf,    \* [Rounds -> Coordinators]: who runs each round
    NumRounds,        \* bound: failover rounds
    InitialRule,      \* the decided rule the shard starts under
    MaxWrites,        \* bound: client writes
    MaxCrashes,       \* bound: Postgres or pooler crashes
    MaxCohortChanges, \* bound: leader-led rule changes
    MaxAborts,        \* bound: rule changes that time out half way
    MaxRewindLoss     \* bound: common records one pg_rewind throws away

Rounds == 1..NumRounds

\* A round raises the highest term it saw by one.
FirstTerm == InitialRule.num.term
Terms == FirstTerm..(FirstTerm + NumRounds)

NoRule == [num |-> NoNumber, leader |-> None, cohort |-> {}, policy |-> AtLeastN(1)]
NoPosition == [decision |-> NoRule, proposal |-> NoRule]
Decided(rule) == [decision |-> rule, proposal |-> NoRule]

RuleType == [num : RuleNumber, leader : Poolers \cup {None},
             cohort : SUBSET Poolers, policy : Policies]
PositionType == [decision : RuleType, proposal : RuleType]
RecordType == [by : Nat, kind : {"switch", "probe", "rule", "data"}, pos : PositionType]
RevocationType == [term : Nat, coord : Coordinators \cup {None}, at : 0..NumRounds,
                   outgoing : RuleNumber]
RecruitType == [id : Poolers, pos : PositionType, lsn : Nat]
FloorType == [pos : PositionType, lsn : Nat]
SyncType == [numSync : Nat, standbys : SUBSET Poolers]
PrimaryType == [pos : PositionType, primary : Poolers \cup {None}, rewindReady : BOOLEAN]
OpType == [phase : {"none", "confirm", "finalize", "propose", "decide", "settle"},
           round : 0..NumRounds, rule : RuleType, await : Nat]
RoundType == [phase : {"idle", "recruiting", "proposed", "promoting"},
              rev : RevocationType, recruits : SUBSET RecruitType,
              accepted : SUBSET Poolers, transition : PositionType]
SpentType == [writes : Nat, crashes : Nat, changes : Nat, aborts : Nat]

ASSUME ConstantsAssumption ==
    /\ None \notin Poolers
    /\ NumRounds \in Nat
    /\ CoordinatorOf \in [Rounds -> Coordinators]
    /\ {MaxWrites, MaxCrashes, MaxCohortChanges, MaxAborts, MaxRewindLoss} \subseteq Nat
    /\ InitialRule \in RuleType
    /\ FirstTerm # 0
    /\ InitialRule.leader \in InitialRule.cohort
    /\ CanBuildSyncReplicationConfig(PolicyWithCohort(InitialRule), InitialRule.leader)

NoRevocation == [term |-> 0, coord |-> None, at |-> 0, outgoing |-> NoNumber]
NoFloor == [pos |-> NoPosition, lsn |-> 0]
NoPrimary == [pos |-> NoPosition, primary |-> None, rewindReady |-> FALSE]
NoSync == [numSync |-> 0, standbys |-> {}]
NoOp == [phase |-> "none", round |-> 0, rule |-> NoRule, await |-> 0]
IdleRound == [phase |-> "idle", rev |-> NoRevocation, recruits |-> {},
              accepted |-> {}, transition |-> NoPosition]

VARIABLES
    wal,      \* [Poolers -> Seq(records)]: the WAL Postgres has flushed
    prim,     \* [Poolers -> term the Postgres was promoted in, 0 for a standby]
    conn,     \* [Poolers -> primary_conninfo: the pooler it streams from, or None]
    guc,      \* [Poolers -> synchronous_standby_names]
    op,       \* [Poolers -> the rule change or recruitment holding the action lock]
    rev,      \* [Poolers -> the persisted term revocation]
    floor,    \* [Poolers -> the persisted recruit_blocked_until]
    suspect,  \* [Poolers -> suspectedDivergence, in memory]
    rp,       \* [Poolers -> the replication primary it was told of, in memory]
    rounds,   \* [Rounds -> the coordinator's state of each failover round]
    acked,    \* [Poolers -> the LSN up to which a primary's commits are released]
    durable,  \* [Terms -> the last of its rules and client writes to be committed]
    spent     \* what has been used up of the bounds

pgVars == <<wal, prim, conn, guc>>
promiseVars == <<rev, floor>>
memVars == <<suspect, rp>>
vars == <<wal, prim, conn, guc, op, rev, floor, suspect, rp, rounds, acked, durable, spent>>

-----------------------------------------------------------------------------
\* What a pooler sees of its own WAL.  A commit that waits for synchronous
\* standbys is not visible on the primary; a standby sees all it replayed.
Lsn(p) == Len(wal[p])
LastPos(p) == Last(wal[p]).pos

VisibleLsn(p) == IF prim[p] = 0 THEN Lsn(p) ELSE acked[p]

Visible(p) == wal[p][VisibleLsn(p)].pos

\* No rule write is still waiting for its standbys (FOR UPDATE NOWAIT works).
RuleWritesDrained(p) == Visible(p) = LastPos(p)

FloorOutstanding(p, pos) ==
    ComparePoolerPosition([pos |-> pos, lsn |-> Lsn(p)], floor[p]) < 0

Status(p) == [id |-> p, pos |-> Visible(p), lsn |-> Lsn(p), rev |-> rev[p],
              floorOutstanding |-> FloorOutstanding(p, Visible(p))]

HighestKnownRule(p) ==
    IF CompareRulePosition(rp[p].pos, Visible(p)) > 0 THEN rp[p].pos ELSE Visible(p)

SelfIsLeader(p) == PossiblyUndecidedRule(HighestKnownRule(p)).leader = p

IsActiveLeader(p) ==
    /\ Visible(p).decision.leader = p
    /\ IsRuleDecided(Visible(p)) \/ Visible(p).proposal.leader = p
    /\ ~IsRuleRevoked(Visible(p), rev[p])
    /\ SelfIsLeader(p)

-----------------------------------------------------------------------------
\* Postgres: a standby counts for synchronous commit while it streams from p
\* and its WAL is a prefix of p's; a commit is released when enough count.
Streaming(s, p) == conn[s] = p /\ IsPrefix(wal[s], wal[p])

FlushedByQuorum(p) ==
    LET followers == {s \in guc[p].standbys : Streaming(s, p)}
    IN  {lsn \in 1..Lsn(p) :
            Cardinality({s \in followers : Lsn(s) >= lsn}) >= guc[p].numSync}

\* What p has reported as committed in its term: the client writes, and the
\* records of the rules of that term.
Committed(p) ==
    {lsn \in 1..VisibleLsn(p) :
        /\ wal[p][lsn].by = prim[p]
        /\ \/ wal[p][lsn].kind = "data"
           \/ /\ wal[p][lsn].kind = "rule"
              /\ PossiblyUndecidedRule(wal[p][lsn].pos).num.term = prim[p]}

\* Mutant: a promotion does not count its own timeline switch as released.
ReleaseCommitsNoSwitch ==
    /\ acked' = [p \in Poolers |-> IF prim'[p] = 0 THEN 0
                                   ELSE Max({acked[p]} \cup FlushedByQuorum(p)')]
    /\ UNCHANGED durable

\* Every commit whose standbys have flushed it is released, once and for all.
\* A promotion starts from its timeline switch.
ReleaseCommits ==
    LET Released(p) == CASE prim'[p] = 0       -> 0
                         [] prim'[p] # prim[p] -> Len(wal'[p])
                         [] OTHER              -> Max({acked[p]} \cup FlushedByQuorum(p)')
        Primaries(t) == {p \in Poolers : prim'[p] = t}
    IN  /\ acked' = [p \in Poolers |-> Released(p)]
        /\ durable' = [t \in Terms |->
                Max({durable[t]} \cup UNION {Committed(p)' : p \in Primaries(t)})]

AppendRecord(p, term, kind, pos) ==
    wal' = [wal EXCEPT ![p] = Append(@, [by |-> term, kind |-> kind, pos |-> pos])]

-----------------------------------------------------------------------------
\* The coordinator.  It authors a revocation from the statuses of the poolers it
\* has heard from and, if the pre-vote finds a proposal possible, asks every
\* pooler of the shard to accept it.
StartRound(r, heard) ==
    /\ rounds[r].phase = "idle"
    /\ \A q \in Rounds : q < r => rounds[q].phase # "idle"
    /\ LET statuses == {Status(p) : p \in heard}
       IN  \E authored \in NewTermRevocations(statuses, CoordinatorOf[r], r) :
             /\ CheckProposalPossible(authored, statuses)
             /\ rounds' = [rounds EXCEPT ![r].phase = "recruiting", ![r].rev = authored]
    /\ UNCHANGED <<pgVars, op, promiseVars, memVars, spent>>

\* A recruit's status reaches the coordinator, which proposes at the first set
\* of recruits a safe proposal can be built from; later recruits are ignored.
CollectRecruit(r, status) ==
    LET recruits == rounds[r].recruits \cup {status}
        proposals == BuildSafeProposal(rounds[r].rev, recruits)
        joined == [rounds[r] EXCEPT !.accepted = @ \cup {status.id}]
    IN  IF rounds[r].phase # "recruiting"
        THEN rounds' = [rounds EXCEPT ![r] = joined]
        ELSE IF proposals = {}
        THEN rounds' = [rounds EXCEPT ![r] = [joined EXCEPT !.recruits = recruits]]
        ELSE \E transition \in proposals :
                rounds' = [rounds EXCEPT ![r] =
                    [joined EXCEPT !.phase = "proposed", !.recruits = {},
                                   !.transition = transition]]

-----------------------------------------------------------------------------
\* demoteToStandbyLocked on a primary, a cleared primary_conninfo on a standby.
StopReplication(p, connAfter) ==
    /\ prim' = [prim EXCEPT ![p] = 0]
    /\ guc' = [guc EXCEPT ![p] = NoSync]
    /\ suspect' = [suspect EXCEPT ![p] = @ \/ prim[p] # 0]
    /\ conn' = [conn EXCEPT ![p] = connAfter]

\* Recruit.  The revocation is checked against the position the pooler sees,
\* replication is stopped, and the revocation is checked again, against a WAL
\* that no longer moves and is all visible, before it is persisted; the answer
\* may be lost.  If the second check fails, a standby gets its primary_conninfo
\* back and a primary stays demoted.
Recruit(r, p) ==
    LET authored == rounds[r].rev
        Acceptable(pos) == ValidateRevocation(pos, FloorOutstanding(p, pos), rev[p], authored)
    IN  /\ rounds[r].phase # "idle"
        /\ p \notin rounds[r].accepted
        /\ op[p] = NoOp
        /\ Acceptable(Visible(p))
        /\ IF Acceptable(LastPos(p))
           THEN /\ StopReplication(p, None)
                /\ rev' = [rev EXCEPT ![p] = authored]
                /\ \/ CollectRecruit(r, [id |-> p, pos |-> LastPos(p), lsn |-> Lsn(p)])
                   \/ rounds' = [rounds EXCEPT ![r].accepted = @ \cup {p}]
           ELSE /\ StopReplication(p, IF prim[p] # 0 THEN None ELSE conn[p])
                /\ UNCHANGED <<rev, rounds>>
        /\ UNCHANGED <<wal, op, floor, rp, spent>>

-----------------------------------------------------------------------------
\* The policy rule writes wait for while the position is pos (a stuck proposal
\* counts), and while rule replaces the rule in force.
ExpectedSyncStandbyPolicy(pos) ==
    IF IsRuleDecided(pos) THEN PolicyWithCohort(pos.decision)
    ELSE BothPolicy(PolicyWithCohort(pos.decision), PolicyWithCohort(pos.proposal))

\* Mutant: a rule is written under its own policy only.
TransitionPolicyIncoming(current, rule) == PolicyWithCohort(rule)

TransitionPolicy(current, rule) ==
    BothPolicy(PolicyWithCohort(current), PolicyWithCohort(rule))

SetPolicy(p, pc) ==
    /\ CanBuildSyncReplicationConfig(pc, p)
    /\ guc' = [guc EXCEPT ![p] = BuildSyncReplicationConfig(pc, p)]

\* Promote reaches the designated leader.  The replication primary is recorded
\* first.  The rule change starts only if the rule in force is still the one the
\* revocation was authored against: the synchronous policy is set while Postgres
\* is a standby, then pg_promote switches the timeline.
Promote(r) ==
    LET transition == rounds[r].transition
        rule == transition.proposal
        p == rule.leader
        stuck == ~IsRuleDecided(LastPos(p))
        policy == IF stuck THEN ExpectedSyncStandbyPolicy(LastPos(p))
                  ELSE TransitionPolicy(LastPos(p).decision, rule)
        unmoved == CompareRuleNumbers(PossiblyUndecidedRule(LastPos(p)).num,
                                      rounds[r].rev.outgoing) = 0
    IN  /\ rounds[r].phase = "proposed"
        /\ op[p] = NoOp
        /\ ValidateRevocation(LastPos(p), FloorOutstanding(p, LastPos(p)), rev[p], rounds[r].rev)
        /\ rev[p].term = rounds[r].rev.term
        /\ rule.num.term = rounds[r].rev.term
        /\ prim[p] = 0 /\ conn[p] = None
        /\ rounds' = [rounds EXCEPT ![r].phase = "promoting"]
        /\ rp' = [rp EXCEPT ![p] = MergeReplicationPrimary(@,
                     [pos |-> transition, primary |-> p, rewindReady |-> FALSE])]
        /\ IF unmoved /\ CanBuildSyncReplicationConfig(policy, p)
           THEN /\ SetPolicy(p, policy)
                /\ prim' = [prim EXCEPT ![p] = rule.num.term]
                /\ AppendRecord(p, rule.num.term, "switch", LastPos(p))
                /\ op' = [op EXCEPT ![p] = [phase |-> IF stuck THEN "confirm" ELSE "propose",
                                            round |-> r, rule |-> rule, await |-> 0]]
           ELSE UNCHANGED <<wal, prim, guc, op>>
        /\ UNCHANGED <<conn, promiseVars, suspect, spent>>

\* The write the operation waits for has been acknowledged.
Acknowledged(p) == acked[p] >= op[p].await

\* A rule write: it commits locally and waits for the standbys; phase is what
\* the operation does once it is acknowledged.
WriteRule(p, kind, pos, phase) ==
    /\ AppendRecord(p, prim[p], kind, pos)
    /\ op' = [op EXCEPT ![p].phase = phase, ![p].await = Lsn(p) + 1]
    /\ UNCHANGED <<prim, conn, promiseVars, memVars, rounds, spent>>

\* A stuck proposal is first confirmed by a write of its own, then decided.
ConfirmProposalQuorum(p) ==
    /\ op[p].phase = "confirm"
    /\ WriteRule(p, "probe", LastPos(p), "finalize")
    /\ UNCHANGED guc

\* Mutant: the stuck proposal is left behind once a quorum has been heard from.
SkipStuckProposal(p) ==
    /\ op[p].phase = "finalize"
    /\ Acknowledged(p)
    /\ op' = [op EXCEPT ![p].phase = "propose"]
    /\ UNCHANGED <<pgVars, promiseVars, memVars, rounds, spent>>

FinalizeStuckProposal(p) ==
    /\ op[p].phase = "finalize"
    /\ Acknowledged(p)
    /\ WriteRule(p, "rule", Decided(LastPos(p).proposal), "propose")
    /\ UNCHANGED guc

WriteRuleProposal(p) ==
    LET current == LastPos(p).decision
    IN  /\ op[p].phase = "propose"
        /\ Acknowledged(p)
        /\ SetPolicy(p, TransitionPolicy(current, op[p].rule))
        /\ WriteRule(p, "rule", [decision |-> current, proposal |-> op[p].rule], "decide")

MarkProposalAsDecision(p) ==
    /\ op[p].phase = "decide"
    /\ Acknowledged(p)
    /\ WriteRule(p, "rule", Decided(op[p].rule), "settle")
    /\ UNCHANGED guc

\* The decision is durable: the incoming policy takes over, and a promotion
\* records itself as the decided primary.
SettleRule(p) ==
    /\ op[p].phase = "settle"
    /\ Acknowledged(p)
    /\ SetPolicy(p, PolicyWithCohort(op[p].rule))
    /\ rp' = IF op[p].round = 0 THEN rp
             ELSE [rp EXCEPT ![p] = MergeReplicationPrimary(@,
                     [pos |-> Decided(op[p].rule), primary |-> p, rewindReady |-> FALSE])]
    /\ op' = [op EXCEPT ![p] = NoOp]
    /\ UNCHANGED <<wal, prim, conn, promiseVars, suspect, rounds, spent>>

\* The context of the operation ends: the lock is released, what was written
\* stays written and keeps waiting for its standbys.
AbortOperation(p) ==
    /\ op[p].phase # "none"
    /\ spent.aborts < MaxAborts
    /\ op' = [op EXCEPT ![p] = NoOp]
    /\ spent' = [spent EXCEPT !.aborts = @ + 1]
    /\ UNCHANGED <<pgVars, promiseVars, memVars, rounds>>

\* A leader-led rule change: same leader, policy and term, the next subterm.
UpdateConsensusRule(p, cohort) ==
    LET current == Visible(p).decision
        rule == [current EXCEPT !.num.subterm = @ + 1, !.cohort = cohort]
    IN  /\ spent.changes < MaxCohortChanges
        /\ op[p] = NoOp
        /\ prim[p] # 0
        /\ ~IsSelfRevoked(Visible(p), rp[p].pos, rev[p])
        /\ RuleWritesDrained(p)
        /\ IsRuleDecided(Visible(p))
        /\ current.cohort # {} /\ cohort # {}
        /\ current.leader = p
        /\ SatisfiedBy(current.policy, cohort)
        /\ HasPolicyTransition(PolicyWithCohort(current), PolicyWithCohort(rule))
        /\ op' = [op EXCEPT ![p] = [phase |-> "propose", round |-> 0, rule |-> rule, await |-> 0]]
        /\ spent' = [spent EXCEPT !.changes = @ + 1]
        /\ UNCHANGED <<pgVars, promiseVars, memVars, rounds>>

-----------------------------------------------------------------------------
\* Mutant: a promoted primary never reports that it can be rewound to.
NeverRewindReady(t) == FALSE

\* Has the primary of term t switched timelines (and so can be rewound to)?
HasPromoted(t) == \E q \in Poolers : \E i \in 1..Lsn(q) : wal[q][i].by = t

\* What SetPrimary calls may be in flight: a round tells the poolers of its
\* transition, multiorch relays any position some pooler has reported.  The
\* leader is the one the position names; it is rewind-ready once promoted.
Announced ==
    {rounds[r].transition : r \in {q \in Rounds : rounds[q].transition # NoPosition}}
        \cup UNION {{wal[q][i].pos : i \in 1..VisibleLsn(q)} : q \in Poolers}

Announcements ==
    {[pos         |-> pos,
      primary     |-> PossiblyUndecidedRule(pos).leader,
      rewindReady |-> HasPromoted(PossiblyUndecidedRule(pos).num.term)] : pos \in Announced}

\* restartAsStandbyLocked on a suspect node: the position before the rewind is
\* persisted as the floor below which it may not be recruited, then pg_rewind
\* takes a diverged WAL back to a point it has in common with the leader's.
RewindPoints(p, leader) ==
    LET common == Max({n \in 0..Lsn(p) : n <= Lsn(leader)
                        /\ SubSeq(wal[p], 1, n) = SubSeq(wal[leader], 1, n)})
    IN  IF common = Lsn(p) \/ common = Lsn(leader) THEN {Lsn(p)}
        ELSE {n \in 1..common : common - n <= MaxRewindLoss}

RestartAsStandby(p, leader) ==
    /\ floor[p] = NoFloor      \* bound: one rewind of each pooler
    /\ floor' = [floor EXCEPT ![p] = [pos |-> Visible(p), lsn |-> Lsn(p)]]
    /\ \E n \in RewindPoints(p, leader) : wal' = [wal EXCEPT ![p] = SubSeq(@, 1, n)]
    /\ prim' = [prim EXCEPT ![p] = 0]
    /\ guc' = [guc EXCEPT ![p] = NoSync]
    /\ conn' = [conn EXCEPT ![p] = leader]
    /\ suspect' = [suspect EXCEPT ![p] = FALSE]

\* Mutant: the promise is not consulted.
ConnInfoReconcileAlways(p, recorded) == recorded.primary \notin {None, p}

\* May primary_conninfo be pointed at the recorded replication primary?
ConnInfoReconcileAllowed(p, recorded) ==
    /\ recorded.primary \notin {None, p}
    /\ ~IsRuleRevoked(recorded.pos, rev[p])

SetPrimary(p, m) ==
    LET merged == MergeReplicationPrimary(rp[p], m)
        higher == CompareRulePosition(m.pos, Visible(p)) > 0
        diverged == \/ suspect[p]
                    \/ prim[p] # 0
                    \/ PossiblyUndecidedRule(Visible(p)).leader = p
        follow == IF prim[p] = 0 /\ ConnInfoReconcileAllowed(p, merged)
                  THEN merged.primary ELSE conn[p]
    IN  /\ op[p] = NoOp
        /\ m.primary \notin {None, p}
        /\ ~IsRuleRevoked(m.pos, rev[p])
        /\ rp' = [rp EXCEPT ![p] = merged]
        /\ \/ /\ ~higher
              /\ conn' = [conn EXCEPT ![p] = follow]
              /\ UNCHANGED <<wal, prim, guc, floor, suspect>>
           \/ /\ higher /\ ~diverged
              /\ conn' = [conn EXCEPT ![p] = m.primary]
              /\ UNCHANGED <<wal, prim, guc, floor, suspect>>
           \/ /\ higher /\ diverged /\ ~m.rewindReady
              /\ suspect' = [suspect EXCEPT ![p] = TRUE]
              /\ UNCHANGED <<pgVars, floor>>
           \/ /\ higher /\ diverged /\ m.rewindReady
              /\ RestartAsStandby(p, m.primary)
        /\ UNCHANGED <<op, rev, rounds, spent>>

-----------------------------------------------------------------------------
\* The Postgres monitor, one remedial action at a time under the action lock.
FixPrimaryConnInfo(p) ==
    /\ op[p] = NoOp
    /\ prim[p] = 0 /\ ~suspect[p]
    /\ ConnInfoReconcileAllowed(p, rp[p])
    /\ conn[p] # rp[p].primary
    /\ conn' = [conn EXCEPT ![p] = rp[p].primary]
    /\ UNCHANGED <<wal, prim, guc, op, promiseVars, memVars, rounds, spent>>

\* A standby that points at a live leader it cannot stream from has diverged.
MarkStandbyDiverged(p) ==
    /\ op[p] = NoOp
    /\ prim[p] = 0 /\ ~suspect[p]
    /\ ConnInfoReconcileAllowed(p, rp[p])
    /\ conn[p] = rp[p].primary
    /\ ~IsPrefix(wal[p], wal[conn[p]])
    /\ suspect' = [suspect EXCEPT ![p] = TRUE]
    /\ UNCHANGED <<pgVars, op, promiseVars, rp, rounds, spent>>

RewindToLeader(p) ==
    /\ op[p] = NoOp
    /\ prim[p] = 0 /\ suspect[p]
    /\ ConnInfoReconcileAllowed(p, rp[p])
    /\ rp[p].rewindReady
    /\ RestartAsStandby(p, rp[p].primary)
    /\ UNCHANGED <<op, rev, rp, rounds, spent>>

DemoteStalePrimary(p) ==
    /\ op[p] = NoOp
    /\ prim[p] # 0 /\ ~SelfIsLeader(p)
    /\ ConnInfoReconcileAllowed(p, rp[p])
    /\ rp[p].rewindReady
    /\ CompareRulePosition(rp[p].pos, Visible(p)) > 0
    /\ RestartAsStandby(p, rp[p].primary)
    /\ UNCHANGED <<op, rev, rp, rounds, spent>>

\* The synchronous policy is brought back to the one the visible rule asks for.
ReconcileGUC(p) ==
    /\ op[p] = NoOp
    /\ prim[p] # 0
    /\ RuleWritesDrained(p)
    /\ SetPolicy(p, ExpectedSyncStandbyPolicy(Visible(p)))
    /\ UNCHANGED <<wal, prim, conn, op, promiseVars, memVars, rounds, spent>>

-----------------------------------------------------------------------------
\* Postgres and its clients.
Stream(s) ==
    /\ conn[s] # None
    /\ IsStrictPrefix(wal[s], wal[conn[s]])
    /\ wal' = [wal EXCEPT ![s] = Append(@, wal[conn[s]][Lsn(s) + 1])]
    /\ UNCHANGED <<prim, conn, guc, op, promiseVars, memVars, rounds, spent>>

ClientWrite(p) ==
    /\ prim[p] # 0 /\ IsActiveLeader(p)
    /\ spent.writes < MaxWrites
    /\ AppendRecord(p, prim[p], "data", LastPos(p))
    /\ spent' = [spent EXCEPT !.writes = @ + 1]
    /\ UNCHANGED <<prim, conn, guc, op, promiseVars, memVars, rounds>>

\* Postgres dies and the monitor starts it again, always as a standby.  If a
\* different leader is known, the recovered WAL is suspect; a node already
\* suspect comes back held, without a primary_conninfo.
PostgresCrash(p) ==
    /\ spent.crashes < MaxCrashes
    /\ prim' = [prim EXCEPT ![p] = 0]
    /\ guc' = [guc EXCEPT ![p] = NoSync]
    /\ conn' = [conn EXCEPT ![p] = IF suspect[p] THEN None ELSE @]
    /\ suspect' = [suspect EXCEPT ![p] =
                     @ \/ PossiblyUndecidedRule(rp[p].pos).leader \notin {None, p}]
    /\ op' = [op EXCEPT ![p] = NoOp]
    /\ spent' = [spent EXCEPT !.crashes = @ + 1]
    /\ UNCHANGED <<wal, promiseVars, rp, rounds>>

\* The pooler process dies and comes back; Postgres keeps running, and what was
\* only in memory is gone.
PoolerCrash(p) ==
    /\ spent.crashes < MaxCrashes
    /\ op' = [op EXCEPT ![p] = NoOp]
    /\ suspect' = [suspect EXCEPT ![p] = FALSE]
    /\ rp' = [rp EXCEPT ![p] = NoPrimary]
    /\ spent' = [spent EXCEPT !.crashes = @ + 1]
    /\ UNCHANGED <<pgVars, promiseVars, rounds>>

-----------------------------------------------------------------------------
Init ==
    LET first == <<[by |-> FirstTerm, kind |-> "rule", pos |-> Decided(InitialRule)]>>
        leader == InitialRule.leader
    IN  /\ wal = [p \in Poolers |-> first]
        /\ prim = [p \in Poolers |-> IF p = leader THEN FirstTerm ELSE 0]
        /\ conn = [p \in Poolers |-> IF p = leader THEN None ELSE leader]
        /\ guc = [p \in Poolers |->
                    IF p = leader
                    THEN BuildSyncReplicationConfig(PolicyWithCohort(InitialRule), p)
                    ELSE NoSync]
        /\ op = [p \in Poolers |-> NoOp]
        /\ rev = [p \in Poolers |-> NoRevocation]
        /\ floor = [p \in Poolers |-> NoFloor]
        /\ suspect = [p \in Poolers |-> FALSE]
        /\ rp = [p \in Poolers |-> [pos |-> Decided(InitialRule), primary |-> leader,
                                     rewindReady |-> TRUE]]
        /\ rounds = [r \in Rounds |-> IdleRound]
        /\ acked = [p \in Poolers |-> IF p = leader THEN 1 ELSE 0]
        /\ durable = [t \in Terms |-> IF t = FirstTerm THEN 1 ELSE 0]
        /\ spent = [writes |-> 0, crashes |-> 0, changes |-> 0, aborts |-> 0]

RuleStep(p) ==
    \/ ConfirmProposalQuorum(p)
    \/ FinalizeStuckProposal(p)
    \/ WriteRuleProposal(p)
    \/ MarkProposalAsDecision(p)
    \/ SettleRule(p)

MonitorStep(p) ==
    \/ FixPrimaryConnInfo(p)
    \/ MarkStandbyDiverged(p)
    \/ RewindToLeader(p)
    \/ DemoteStalePrimary(p)
    \/ ReconcileGUC(p)

Coordination ==
    \/ \E r \in Rounds : \E heard \in SUBSET Poolers \ {{}} : StartRound(r, heard)
    \/ \E r \in Rounds, p \in Poolers : Recruit(r, p)
    \/ \E r \in Rounds : Promote(r)
    \/ \E m \in Announcements : \E p \in Poolers : SetPrimary(p, m)

Local(p) ==
    \/ RuleStep(p)
    \/ AbortOperation(p)
    \/ \E cohort \in SUBSET Poolers : UpdateConsensusRule(p, cohort)
    \/ MonitorStep(p)
    \/ Stream(p)
    \/ ClientWrite(p)
    \/ PostgresCrash(p)
    \/ PoolerCrash(p)

\* Whatever happens, Postgres releases the commits that have become durable.
Next == (Coordination \/ \E p \in Poolers : Local(p)) /\ ReleaseCommits

Spec == Init /\ [][Next]_vars

\* A proposed round is carried through, running rule changes proceed, the
\* monitor ticks, Postgres streams, and multiorch keeps telling every pooler of
\* the highest position it knows of.  Nothing obliges a round to start, a recruit
\* to be reached, or a client, a crash or a leader-led rule change to happen.
Propagate(p) ==
    \E m \in Announcements :
        /\ \A n \in Announcements : CompareRulePosition(n.pos, m.pos) <= 0
        /\ SetPrimary(p, m)

Fairness ==
    /\ \A r \in Rounds : WF_vars(Promote(r) /\ ReleaseCommits)
    /\ \A p \in Poolers :
        /\ WF_vars(RuleStep(p) /\ ReleaseCommits)
        /\ WF_vars(MonitorStep(p) /\ ReleaseCommits)
        /\ WF_vars(Stream(p) /\ ReleaseCommits)
        /\ WF_vars(Propagate(p) /\ ReleaseCommits)

FairSpec == Spec /\ Fairness

-----------------------------------------------------------------------------
\* Types; a primary has released a part of the WAL it has, a standby nothing.
TypeOK ==
    /\ wal \in [Poolers -> Seq(RecordType)]
    /\ prim \in [Poolers -> Nat]
    /\ conn \in [Poolers -> Poolers \cup {None}]
    /\ guc \in [Poolers -> SyncType]
    /\ op \in [Poolers -> OpType]
    /\ rev \in [Poolers -> RevocationType]
    /\ floor \in [Poolers -> FloorType]
    /\ suspect \in [Poolers -> BOOLEAN]
    /\ rp \in [Poolers -> PrimaryType]
    /\ rounds \in [Rounds -> RoundType]
    /\ acked \in [Poolers -> Nat]
    /\ durable \in [Terms -> Nat]
    /\ spent \in SpentType
    /\ \A p \in Poolers : /\ Lsn(p) > 0
                          /\ acked[p] <= Lsn(p)
                          /\ prim[p] # 0 => acked[p] > 0

\* The promises the poolers persist and the rounds collect are those of
\* TermPromises: a revocation is authored once, and a pooler that has accepted it
\* accepts no earlier one and no other of the same term, whatever it is asked by
\* whom, before or after a crash.
Promises == INSTANCE TermPromises WITH
    Attempts <- Rounds,
    Terms    <- Nat \ {0},
    term     <- [r \in Rounds |-> rounds[r].rev.term],
    promise  <- [p \in Poolers |-> rev[p].at],
    accepted <- [r \in Rounds |-> rounds[r].accepted]

PromisesKept ==
    /\ Promises!Init
    /\ [][\E r \in Rounds :
            \/ Promises!Author(r, rounds'[r].rev.term)
            \/ \E p \in Poolers : Promises!Accept(r, p)]_(Promises!promises)

\* Of two rounds at one term, whichever coordinators run them and however often
\* either is retried, no pooler joins both, and so at most one gathers a majority.
OneWinner == Promises!OneWinner

\* A pooler that runs as the primary of a term holds every rule and every client
\* write that the primary of an earlier term reported as committed: recruitment,
\* the choice of the leader by LSN, stuck proposals and the floor after a rewind
\* together lose nothing.
LeaderCompleteness ==
    \A p \in Poolers : \A t \in Terms :
        (prim[p] > t /\ durable[t] # 0) =>
            durable[t] <= Lsn(p) /\ wal[p][durable[t]].by = t

\* Once a round has a proposal, the primaries of all earlier terms are fenced:
\* however SetPrimary, the monitor and late recruits interleave, Postgres never
\* again finds the standbys for a commit of theirs.
RevokedTermsFenced ==
    [][\A r \in Rounds : rounds[r].phase \in {"proposed", "promoting"} =>
         \A t \in Terms : t < rounds[r].rev.term => durable'[t] = durable[t]]_vars

\* Two rules with the same number, proposed or decided on any pooler, are the
\* same rule: no two coordinators win a term, and no leader-led change shares a
\* number with a failover's.
RulesOf(pos) == {pos.decision, pos.proposal} \ {NoRule}

RuleAgreement ==
    LET written == UNION {UNION {RulesOf(wal[p][i].pos) : i \in 1..Lsn(p)} : p \in Poolers}
    IN  \A a, b \in written : a.num = b.num => a = b

\* In every WAL the rule position only moves forward, and a proposal is decided
\* before another one is written, whoever wrote them.
RuleHistoryOrdered ==
    \A p \in Poolers : \A i \in 1..(Lsn(p) - 1) :
        LET before == wal[p][i].pos
            after == wal[p][i + 1].pos
        IN  \/ after = before
            \/ /\ IsRuleDecided(before)
               /\ after.decision = before.decision
               /\ CompareRuleNumbers(after.proposal.num, before.decision.num) > 0
            \/ ~IsRuleDecided(before) /\ after = Decided(before.proposal)

\* Any set of standbys that lets a primary's commit through satisfies, with the
\* primary, the durability policy of the decision its WAL ends in and of the one
\* its clients see: the synchronous_standby_names are never behind the rule, nor
\* ahead of it, while a rule change runs, times out or is reconciled.
CommitQuorumCoversRule ==
    \A p \in Poolers : prim[p] # 0 =>
        \A S \in SUBSET guc[p].standbys : Cardinality(S) = guc[p].numSync =>
            \A rule \in {LastPos(p).decision, Visible(p).decision} :
                SatisfiedBy(rule.policy, (S \cup {p}) \cap rule.cohort)

\* A round that has made its proposal ends with that rule decided and committed,
\* and with every pooler's WAL the same as the new leader's: the recruits, the
\* pooler the round never reached and the old primary, rewound if it diverged.
Settled(r) ==
    LET rule == rounds[r].transition.proposal
    IN  /\ rounds[r].phase = "promoting"
        /\ prim[rule.leader] = rule.num.term
        /\ Visible(rule.leader) = Decided(rule)
        /\ \A p \in Poolers : wal[p] = wal[rule.leader]

ProposedRoundSettles ==
    \A r \in Rounds : rounds[r].phase = "proposed" ~> Settled(r)

=============================================================================
