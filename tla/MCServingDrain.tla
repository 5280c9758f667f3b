--------------------------- MODULE MCServingDrain ---------------------------
(***************************************************************************)
(* Scenarios of ServingDrain for TLC.                                      *)
(***************************************************************************)
EXTENDS ServingDrain

CONSTANTS n1, n2

\* One drain that waits as long as it takes, with two transactions.
Patient == [conns |-> {n1, n2}, timeouts |-> TRUE, graceBounded |-> FALSE,
            reservations |-> 2, changes |-> 1, reopens |-> 0]

\* One drain that gives up on two transactions that are in use.
Rushed == [Patient EXCEPT !.graceBounded = TRUE, !.timeouts = FALSE]

\* A second change right after the first, and both killers.
Repeated == [Patient EXCEPT !.conns = {n1}, !.graceBounded = TRUE,
                            !.reservations = 1, !.changes = 2]

\* The pools are replaced before, after or without a drain.
Reopening == [Repeated EXCEPT !.changes = 1, !.reopens = 1]

\* A forced drain catches a reservation that is being made; two more changes follow.
Undercounted == [Rushed EXCEPT !.conns = {n1}, !.changes = 3]

AllScenarios == {Patient, Rushed, Repeated, Reopening, Undercounted}

=============================================================================
