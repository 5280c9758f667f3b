----------------------------- MODULE MCConnPool -----------------------------
(***************************************************************************)
(* Scenarios of ConnPool for TLC.                                          *)
(***************************************************************************)
EXTENDS ConnPool

CONSTANTS c1, c2, c3, s1

\* Three clients share one connection.
Sharing == [wants |-> [c \in Clients |-> {Clean}], maxCapacity |-> 1,
            capacities |-> {}, maxChanges |-> 0, workers |-> {"expire"}, dialsFail |-> FALSE]

\* One of them wants other settings than the others.
Skipping == [Sharing EXCEPT !.wants[c3] = {s1}, !.workers = {}]

\* Two clients with different settings, which may fail to apply.
Mixed == [Skipping EXCEPT !.wants[c2] = {}, !.workers = {"expire"}, !.dialsFail = TRUE]

\* The capacity changes from n to m while two clients use the pool and dials fail.
Resizing(n, m, worker) ==
  [wants |-> [c \in Clients |-> IF c = c3 THEN {} ELSE {Clean}], maxCapacity |-> n,
   capacities |-> {m}, maxChanges |-> 1, workers |-> {worker}, dialsFail |-> TRUE]

AllScenarios == {Sharing, Skipping, Mixed, Resizing(2, 1, "idle"), Resizing(2, 1, "scrub"),
                 Resizing(1, 2, "expire")}
=============================================================================
