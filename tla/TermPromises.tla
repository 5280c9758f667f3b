---------------------------- MODULE TermPromises ----------------------------
(***************************************************************************)
(* What the revocations of a shard promise, and nothing else: the abstract *)
(* specification of the promise book every pooler keeps on disk            *)
(* (consensus_promises.go) as it is used by the failover attempts of any   *)
(* number of coordinators.  ShardConsensus implements it.                  *)
(*                                                                         *)
(* An attempt authors a revocation of one term; a pooler accepts it if it  *)
(* has accepted no later term, and no other attempt at the same term.      *)
(***************************************************************************)
EXTENDS Integers, FiniteSets

CONSTANTS
    Poolers,   \* the poolers of the shard
    Attempts,  \* the failover attempts: positive integers; 0 is no attempt
    Terms      \* the terms an attempt may ask for: positive integers

\* What the proofs need to know of the constants, for whoever instantiates them.
PromisesAssumption ==
    /\ IsFiniteSet(Poolers)
    /\ 0 \notin Attempts
    /\ Terms \subseteq Nat \ {0}

VARIABLES
    term,      \* [Attempts -> the term of its revocation, 0 before it has one]
    promise,   \* [Poolers -> the attempt it has last accepted, 0 for none]
    accepted   \* [Attempts -> the poolers that have accepted it]

promises == <<term, promise, accepted>>

Init ==
    /\ term = [a \in Attempts |-> 0]
    /\ promise = [p \in Poolers |-> 0]
    /\ accepted = [a \in Attempts |-> {}]

Author(a, t) ==
    /\ t \in Terms
    /\ term[a] = 0
    /\ term' = [term EXCEPT ![a] = t]
    /\ UNCHANGED <<promise, accepted>>

\* The pooler's promise admits the attempt.  A second acceptance of the same
\* attempt is the answer to a repeated request.
MayAccept(a, p) == promise[p] \notin {0, a} => term[promise[p]] < term[a]

Accept(a, p) ==
    /\ term[a] # 0
    /\ MayAccept(a, p)
    /\ promise' = [promise EXCEPT ![p] = a]
    /\ accepted' = [accepted EXCEPT ![a] = @ \cup {p}]
    /\ UNCHANGED term

Next == \E a \in Attempts : (\E t \in Terms : Author(a, t)) \/ (\E p \in Poolers : Accept(a, p))

Spec == Init /\ [][Next]_promises

-----------------------------------------------------------------------------
TypeOK ==
    /\ term \in [Attempts -> Terms \cup {0}]
    /\ promise \in [Poolers -> Attempts \cup {0}]
    /\ accepted \in [Attempts -> SUBSET Poolers]

\* An acceptance is never taken back but for a later term: AcceptRevocation
\* compares the new revocation with the stored one.
AcceptanceHolds ==
    \A a \in Attempts : \A p \in accepted[a] :
        /\ term[a] # 0
        /\ promise[p] # 0
        /\ promise[p] = a \/ term[a] < term[promise[p]]

\* Two attempts at one term never share a pooler.
AcceptancesDisjoint ==
    \A a, b \in Attempts : a # b /\ term[a] = term[b] => accepted[a] \cap accepted[b] = {}

\* Two attempts at one term never share a pooler, so whatever the cohort at most
\* one of them gathers the majority CheckSufficientRecruitment asks for: of two
\* coordinators that pick the same term only one can promote a leader.
Majority(cohort, S) == 2 * Cardinality(cohort \cap S) > Cardinality(cohort)

OneWinner ==
    \A a, b \in Attempts : a # b /\ term[a] = term[b] =>
        /\ accepted[a] \cap accepted[b] = {}
        /\ \A cohort \in SUBSET Poolers :
             ~(Majority(cohort, accepted[a]) /\ Majority(cohort, accepted[b]))

=============================================================================
