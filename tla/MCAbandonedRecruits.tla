------------------------ MODULE MCAbandonedRecruits -------------------------
(***************************************************************************)
(* A shard of three poolers in one cell, led by p1 under AT_LEAST_N(2).    *)
(***************************************************************************)
EXTENDS AbandonedRecruits

CONSTANTS p1, p2, p3

Trio == {p1, p2, p3}
OneCell == [p \in Trio |-> "zone1"]
TrioRule == [num |-> [term |-> 1, subterm |-> 0], leader |-> p1,
             cohort |-> Trio, policy |-> AtLeastN(2)]
Orchs1 == <<"orch1">>

=============================================================================
