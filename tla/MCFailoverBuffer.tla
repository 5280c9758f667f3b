-------------------------- MODULE MCFailoverBuffer --------------------------
(* Scenarios of FailoverBuffer for TLC.                                    *)
EXTENDS FailoverBuffer

CONSTANTS r1, r2, s1

OneShard == [r \in Requests |-> s1]

\* One request meets two failovers, and the timer of the first.
Recurring == [size |-> 1, arrive |-> {r2}, failovers |-> 2,
              cancel |-> {}, shutdown |-> FALSE]

\* Two requests compete for one slot; the client of one of them may leave.
Full == [size |-> 1, arrive |-> {r1, r2}, failovers |-> 1,
         cancel |-> {r1}, shutdown |-> FALSE]

\* Both are buffered, and drained one at a time.
Roomy == [Full EXCEPT !.size = 2, !.cancel = {}]

\* Shutdown at any moment.
Closing == [Recurring EXCEPT !.failovers = 1, !.cancel = {r2}, !.shutdown = TRUE]

AllScenarios == {Recurring, Full, Roomy, Closing}
============================================================================
