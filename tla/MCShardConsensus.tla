-------------------------- MODULE MCShardConsensus --------------------------
(***************************************************************************)
(* Instances of ShardConsensus for TLC: a shard of three poolers or of two,*)
(* in one cell, led by p1 under AT_LEAST_N(2).  The poolers other than the *)
(* first leader are interchangeable.                                       *)
(***************************************************************************)
EXTENDS ShardConsensus

CONSTANTS p1, p2, p3

Trio == {p1, p2, p3}
Pair == {p1, p2}
Followers == Permutations({p2, p3})
OneCell == [p \in Trio |-> "zone1"]

TrioRule == [num |-> [term |-> 1, subterm |-> 0], leader |-> p1,
             cohort |-> Trio, policy |-> AtLeastN(2)]
PairRule == [TrioRule EXCEPT !.cohort = Pair]

\* Who runs each round.
Orchs1 == <<"orch1">>
Orchs2 == <<"orch1", "orch2">>

\* Either two rounds race each other, or one round meets a write and a crash.
Budget ==
    \/ rounds[2].phase = "idle"
    \/ spent.writes = 0 /\ spent.crashes = 0

\* A rival round starts before the first one has promoted anybody.
Rivals == rounds[2].phase = "idle" /\ rounds'[2].phase # "idle" => rounds[1].phase # "promoting"

BudgetSpec == Init /\ [][Next /\ Budget' /\ Rivals]_vars

=============================================================================
