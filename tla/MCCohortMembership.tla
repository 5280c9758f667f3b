------------------------- MODULE MCCohortMembership -------------------------
(***************************************************************************)
(* Instances of CohortMembership for TLC: five poolers in one cell under   *)
(* AT_LEAST_N(2), and three poolers in two cells under                     *)
(* MULTI_CELL_AT_LEAST_N(2).                                               *)
(***************************************************************************)
EXTENDS CohortMembership, TLC

CONSTANTS p1, p2, p3, p4, p5

Five == {p1, p2, p3, p4, p5}
Interchangeable == Permutations(Five)
OneCell == [p \in Five |-> "zone1"]
AtLeastTwo == AtLeastN(2)

Three == {p1, p2, p3}
TwoCells == [p \in Three |-> IF p = p3 THEN "zone2" ELSE "zone1"]

=============================================================================
