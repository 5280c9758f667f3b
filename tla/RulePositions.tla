--------------------------- MODULE RulePositions ---------------------------
(***************************************************************************)
(* Rule numbers, rule positions, pooler positions and term revocations, as *)
(* go/common/consensus/compare.go and revocation.go order and judge them.  *)
(*                                                                         *)
(* A rule number is [term, subterm]; {0,0} is the "no rule" sentinel.      *)
(* A rule is a record with a field num (the cohort, leader and policy of a *)
(* rule are the business of other modules).  A rule position is            *)
(* [decision, proposal], NoRule standing for an absent proposal.  A pooler *)
(* position is [pos, lsn].  A revocation is [term, coord, at, outgoing]:   *)
(* revoked_below_term, accepted_coordinator_id, coordinator_initiated_at   *)
(* and outgoing_rule; term 0 stands for "no revocation".                   *)
(***************************************************************************)
EXTENDS Integers

RuleNumber == [term : Nat, subterm : Nat]

NoNumber == [term |-> 0, subterm |-> 0]

CompareRuleNumbers(a, b) ==
    IF a.term # b.term
    THEN IF a.term < b.term THEN -1 ELSE 1
    ELSE IF a.subterm # b.subterm
         THEN IF a.subterm < b.subterm THEN -1 ELSE 1
         ELSE 0

RuleNumberIsUnset(n) == n.term = 0 /\ n.subterm = 0

IsRuleDecided(pos) == RuleNumberIsUnset(pos.proposal.num)

\* The outstanding proposal if there is one, the decision otherwise.
PossiblyUndecidedRule(pos) ==
    IF IsRuleDecided(pos) THEN pos.decision ELSE pos.proposal

\* The decision dominates; the proposals only break a tie between decisions.
CompareRulePosition(a, b) ==
    LET byDecision == CompareRuleNumbers(a.decision.num, b.decision.num)
    IN  IF byDecision # 0 THEN byDecision
        ELSE CompareRuleNumbers(a.proposal.num, b.proposal.num)

\* The LSN orders pooler positions that record the same rule position.
ComparePoolerPosition(a, b) ==
    LET byRule == CompareRulePosition(a.pos, b.pos)
    IN  IF byRule # 0 THEN byRule
        ELSE IF a.lsn < b.lsn THEN -1
        ELSE IF a.lsn > b.lsn THEN 1 ELSE 0

\* The positions of a non-empty set that no other member outranks.
MostAdvanced(positions) ==
    {p \in positions : \A q \in positions : CompareRulePosition(q, p) <= 0}

\* The greatest element of a set of terms, as a singleton.
Highest(terms) == {t \in terms : \A u \in terms : u <= t}

----------------------------------------------------------------------------
\* Does the promise rev forbid working under position pos?
IsRuleRevoked(pos, rev) ==
    /\ rev.term # 0
    /\ ~RuleNumberIsUnset(rev.outgoing)
    /\ pos.decision.num.term < rev.term
    /\ LET cmp == CompareRuleNumbers(pos.decision.num, rev.outgoing)
       IN  \/ cmp < 0
           \/ cmp = 0 /\ rev.term > pos.proposal.num.term

\* The rule a node vouches for is the more advanced of its own WAL position and
\* of the position it learned with its replication primary.
IsSelfRevoked(pos, known, rev) ==
    IsRuleRevoked(IF CompareRulePosition(known, pos) > 0 THEN known ELSE pos, rev)

\* Mutants of ValidateRevocation: another coordinator's attempt at the stored
\* term is accepted too; an earlier term is.
ValidateRevocationAnyCoordinator(pos, floorOutstanding, stored, rev) ==
    /\ ~RuleNumberIsUnset(rev.outgoing)
    /\ rev.outgoing.term < rev.term
    /\ IsRuleRevoked(pos, rev)
    /\ ~floorOutstanding
    /\ stored.term <= rev.term
    /\ CompareRuleNumbers(rev.outgoing, stored.outgoing) >= 0

ValidateRevocationAnyTerm(pos, floorOutstanding, stored, rev) ==
    /\ ~RuleNumberIsUnset(rev.outgoing)
    /\ rev.outgoing.term < rev.term
    /\ IsRuleRevoked(pos, rev)
    /\ ~floorOutstanding

\* May a node whose WAL is at pos, whose recruit position floor is outstanding
\* or not, and whose recorded promise is stored, honour the revocation rev?
ValidateRevocation(pos, floorOutstanding, stored, rev) ==
    /\ ~RuleNumberIsUnset(rev.outgoing)
    /\ rev.outgoing.term < rev.term
    /\ IsRuleRevoked(pos, rev)
    /\ ~floorOutstanding
    /\ \/ stored.term = 0
       \/ /\ stored.term <= rev.term
          /\ CompareRuleNumbers(rev.outgoing, stored.outgoing) >= 0
          /\ stored.term = rev.term => /\ stored.coord = rev.coord
                                       /\ stored.at = rev.at

\* The revocations a coordinator may author at time at from the positions and
\* the promises it has observed (a non-empty set of [pos, rev]).  All of them
\* revoke the same rule number and have the same term.
NewTermRevocations(observed, coord, at) ==
    LET Authored(outgoing) ==
            {[term |-> highest + 1, coord |-> coord, at |-> at, outgoing |-> outgoing] :
                highest \in Highest({outgoing.term} \cup {o.rev.term : o \in observed})}
    IN  UNION {Authored(PossiblyUndecidedRule(best).num) :
                best \in MostAdvanced({o.pos : o \in observed})}

----------------------------------------------------------------------------
\* Folding a newly observed replication primary into the recorded one.  An
\* entry is [pos, primary, rewindReady]; the recorded entry before anything was
\* learned is at the unset position.
MergeReplicationPrimary(current, candidate) ==
    LET cmp == CompareRulePosition(candidate.pos, current.pos)
        sameTerm == PossiblyUndecidedRule(candidate.pos).num.term =
                    PossiblyUndecidedRule(current.pos).num.term
    IN  IF cmp < 0 THEN current
        ELSE [pos         |-> IF cmp > 0 THEN candidate.pos ELSE current.pos,
              primary     |-> candidate.primary,
              rewindReady |-> candidate.rewindReady
                                \/ (sameTerm /\ current.rewindReady)]

============================================================================
