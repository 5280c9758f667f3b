-------------------------- MODULE MCPubSubListener --------------------------
(***************************************************************************)
(* Scenarios of PubSubListener for TLC.                                    *)
(***************************************************************************)
EXTENDS PubSubListener

CONSTANTS s1, s2

\* Two streams with one request each while the listener is restarted.
Sharing == [streams |-> {s1, s2}, answers |-> TRUE, starts |-> 2, breaks |-> 1, requests |-> 1]

\* One stream that comes back with a second request.
Returning == [Sharing EXCEPT !.streams = {s1}, !.requests = 2]

\* Two streams that come back, over one event loop with a sound connection.
Steady == [Sharing EXCEPT !.starts = 1, !.breaks = 0, !.requests = 2]

\* A backend that may never answer.
Hanging == [Sharing EXCEPT !.streams = {s1}, !.answers = FALSE]

AllScenarios == {Sharing, Returning, Steady, Hanging}

=============================================================================
