--------------------------- MODULE PubSubListener ---------------------------
(***************************************************************************)
(* LISTEN/NOTIFY on a pooler: one listener with one Postgres connection    *)
(* for all notification streams.  Stream handlers submit requests to the   *)
(* event loop and wait for each; the loop counts subscribers per channel,  *)
(* sends LISTEN and UNLISTEN, and reconnects.  State changes stop the loop *)
(* (closing every subscriber's channel) and start a new one.  Closing, or  *)
(* sending on, a closed channel is a Go panic: it ends the pooler.         *)
(***************************************************************************)
EXTENDS Integers, Sequences, FiniteSets

CONSTANTS
    Streams,        \* NotificationStream handlers
    Channels,       \* names clients LISTEN on
    None,
    Scenarios       \* the environments and bounds to explore

\* A scenario says which stream handlers there are and whether the backend answers
\* every command or may hang for ever; it bounds the event loops started, the
\* connections that break or cannot be made, and the requests per handler.
ScenarioType ==
    [streams : SUBSET Streams, answers : BOOLEAN, starts : Nat, breaks : Nat, requests : Nat]

Requests == [s : Streams, op : {"subscribe", "unsubscribe"}, ch : Channels]

ASSUME ScenarioAssumption ==
    Scenarios \subseteq ScenarioType /\ Scenarios # {} /\ None \notin Requests

VARIABLES
    lst,        \* lifecycle: running, being stopped, number of the loop
    subs,       \* <<stream, channel>>: subscribers of the current loop
    conn,       \* its connection and what the backend listens to
    timer,      \* reconnectTimer is armed
    queue,      \* requests of the current loop
    cur,        \* the request whose command waits for the backend
    breaks,     \* connections broken so far
    stream,     \* the handlers
    panicked,   \* the process died
    scenario    \* the scenario of this behaviour, which never changes

vars == <<lst, subs, conn, timer, queue, cur, breaks, stream, panicked>>
loopVars == <<subs, conn, timer, cur, breaks, panicked>>

NoConn == [up |-> FALSE, alive |-> FALSE, listening |-> {}]

\* A handler: where it is, what it believes subscribed, whether its notifCh is
\* closed, the rest of the request, and the submit it waits for.
NewStream == [pc |-> "none", subscribed |-> {}, closed |-> FALSE, unsub |-> {}, sub |-> {},
              wait |-> None, gen |-> 0, done |-> FALSE, ending |-> FALSE, requests |-> 0]

Wanted(rel) == {pair[2] : pair \in rel}
Subscribers(rel) == {pair[1] : pair \in rel}

Init ==
    /\ scenario \in Scenarios
    /\ lst = [up |-> FALSE, stopping |-> FALSE, gen |-> 0]
    /\ subs = {} /\ conn = NoConn /\ timer = FALSE /\ queue = <<>> /\ cur = None /\ breaks = 0
    /\ stream = [s \in Streams |-> NewStream]
    /\ panicked = FALSE

-----------------------------------------------------------------------------
(* Lifecycle: Start, Stop, and the end of the loop.                        *)

Start ==
    /\ ~lst.up /\ lst.gen < scenario.starts
    /\ lst' = [lst EXCEPT !.up = TRUE, !.gen = @ + 1]
    /\ UNCHANGED <<queue, stream>> /\ UNCHANGED loopVars

\* Stop keeps the mutex until the loop is gone.
Stop ==
    /\ lst.up /\ ~lst.stopping
    /\ lst' = [lst EXCEPT !.stopping = TRUE]
    /\ UNCHANGED <<queue, stream>> /\ UNCHANGED loopVars

\* Mutant: the loop leaves without closing its subscribers' channels.
LoopExitSilent ==
    /\ lst.stopping /\ cur = None
    /\ lst' = [lst EXCEPT !.up = FALSE, !.stopping = FALSE]
    /\ subs' = {} /\ conn' = NoConn /\ timer' = FALSE /\ queue' = <<>>
    /\ UNCHANGED <<cur, breaks, stream, panicked>>

\* ctx.Done in the event loop: every subscriber's channel is closed.  What is
\* still queued is never read.
LoopExit ==
    /\ lst.stopping /\ cur = None
    /\ panicked' = (\E s \in Subscribers(subs) : stream[s].closed)
    /\ lst' = [lst EXCEPT !.up = FALSE, !.stopping = FALSE]
    /\ stream' = [s \in Streams |->
                    [stream[s] EXCEPT !.closed = @ \/ s \in Subscribers(subs)]]
    /\ subs' = {} /\ conn' = NoConn /\ timer' = FALSE /\ queue' = <<>>
    /\ UNCHANGED <<cur, breaks>>

-----------------------------------------------------------------------------
(* The event loop.                                                         *)

\* releaseConn, and the timer that brings a connection back.
LostConn == conn' = NoConn /\ timer' = TRUE

\* connect: a reserved connection that listens to every channel of rel.
Connected(rel) == conn' = [up |-> TRUE, alive |-> TRUE, listening |-> Wanted(rel)]
CannotConnect == breaks < scenario.breaks /\ breaks' = breaks + 1 /\ LostConn

Done(s) == cur' = None /\ stream' = [stream EXCEPT ![s].done = TRUE]

\* SendQuery went out: the backend answers before the caller hears of it.
SendQuery(req) ==
    \/ cur' = req /\ UNCHANGED <<conn, timer, breaks, stream>>
    \/ ~conn.alive /\ LostConn /\ Done(req.s) /\ UNCHANGED breaks

\* Mutant: LISTEN is sent for a subscriber's first channel only.
ReqSubscribeOnce(req) ==
    LET first == req.ch \notin Wanted(subs) /\ req.s \notin Subscribers(subs)
    IN  /\ subs' = subs \union {<<req.s, req.ch>>}
        /\ \/ first /\ conn.up /\ SendQuery(req)
           \/ first /\ ~conn.up /\ Connected(subs') /\ Done(req.s) /\ UNCHANGED <<timer, breaks>>
           \/ first /\ ~conn.up /\ CannotConnect /\ Done(req.s)
           \/ ~first /\ Done(req.s) /\ UNCHANGED <<conn, timer, breaks>>

\* Only a channel's first subscriber needs LISTEN.
ReqSubscribe(req) ==
    LET first == req.ch \notin Wanted(subs)
    IN  /\ subs' = subs \union {<<req.s, req.ch>>}
        /\ \/ first /\ conn.up /\ SendQuery(req)
           \/ first /\ ~conn.up /\ Connected(subs') /\ Done(req.s) /\ UNCHANGED <<timer, breaks>>
           \/ first /\ ~conn.up /\ CannotConnect /\ Done(req.s)
           \/ ~first /\ Done(req.s) /\ UNCHANGED <<conn, timer, breaks>>

\* removeSub; a stream that is not subscribed changes nothing.
ReqUnsubscribe(req) ==
    LET rest == subs \ {<<req.s, req.ch>>}
        needsUnlisten == <<req.s, req.ch>> \in subs /\ req.ch \notin Wanted(rest)
    IN  /\ subs' = rest
        /\ \/ needsUnlisten /\ conn.up /\ SendQuery(req)
           \/ ~(needsUnlisten /\ conn.up) /\ Done(req.s) /\ UNCHANGED <<conn, timer, breaks>>

TakeRequest ==
    /\ lst.up /\ cur = None /\ queue # <<>>
    /\ queue' = Tail(queue)
    /\ \/ Head(queue).op = "subscribe" /\ ReqSubscribe(Head(queue))
       \/ Head(queue).op = "unsubscribe" /\ ReqUnsubscribe(Head(queue))
    /\ UNCHANGED <<lst, panicked>>

\* drainCommands saw ReadyForQuery; without channels the connection goes back.
CommandDone ==
    /\ cur # None /\ conn.alive
    /\ conn' = IF subs = {} THEN NoConn
               ELSE [conn EXCEPT !.listening = IF cur.op = "subscribe" THEN @ \union {cur.ch}
                                               ELSE @ \ {cur.ch}]
    /\ Done(cur.s)
    /\ UNCHANGED <<lst, subs, timer, queue, breaks, panicked>>

\* drainCommands saw a reader error.
CommandFails ==
    /\ cur # None /\ ~conn.alive
    /\ LostConn /\ Done(cur.s)
    /\ UNCHANGED <<lst, subs, queue, breaks, panicked>>

\* Mutant: drainCommands waits for the backend whatever the context says.
CommandNotCancelled ==
    /\ cur # None /\ lst.stopping /\ ~conn.up
    /\ Done(cur.s)
    /\ conn' = IF subs = {} THEN NoConn ELSE conn
    /\ UNCHANGED <<lst, subs, timer, queue, breaks, panicked>>

\* drainCommands saw the cancelled context.
CommandCancelled ==
    /\ cur # None /\ lst.stopping
    /\ Done(cur.s)
    /\ conn' = IF subs = {} THEN NoConn ELSE conn
    /\ UNCHANGED <<lst, subs, timer, queue, breaks, panicked>>

\* A reader error while the loop waits for work.
ReaderError ==
    /\ lst.up /\ cur = None /\ conn.up /\ ~conn.alive
    /\ LostConn
    /\ UNCHANGED <<lst, subs, queue, cur, breaks, stream, panicked>>

\* Mutant: a lost connection is only ever cleaned up.
ReconnectTimerCleans ==
    /\ lst.up /\ cur = None /\ timer
    /\ LET needed == ~conn.up /\ subs # {}
       IN  \/ needed /\ CannotConnect
           \/ ~needed /\ timer' = FALSE /\ UNCHANGED <<conn, breaks>>
    /\ UNCHANGED <<lst, subs, queue, cur, stream, panicked>>

\* Only reconnect if there are channels to listen on.
ReconnectTimer ==
    /\ lst.up /\ cur = None /\ timer
    /\ LET needed == ~conn.up /\ subs # {}
       IN  \/ needed /\ CannotConnect
           \/ needed /\ Connected(subs) /\ timer' = FALSE /\ UNCHANGED breaks
           \/ ~needed /\ timer' = FALSE /\ UNCHANGED <<conn, breaks>>
    /\ UNCHANGED <<lst, subs, queue, cur, stream, panicked>>

\* A notification for a subscriber whose channel is closed: the send panics.
\* Other deliveries change nothing modelled here.
NotifyClosed(ch) ==
    /\ lst.up /\ conn.alive /\ ch \in conn.listening
    /\ \E s \in Streams : <<s, ch>> \in subs /\ stream[s].closed
    /\ panicked' = TRUE
    /\ UNCHANGED <<lst, subs, conn, timer, queue, cur, breaks, stream>>

\* The backend goes away, or answers a command with an error.
ConnBreaks ==
    /\ conn.alive /\ breaks < scenario.breaks
    /\ conn' = [conn EXCEPT !.alive = FALSE] /\ breaks' = breaks + 1
    /\ UNCHANGED <<lst, subs, timer, queue, cur, stream, panicked>>

-----------------------------------------------------------------------------
(* NotificationStream.                                                     *)

\* A handler starts only while the listener runs.
OpenStream(s) ==
    /\ s \in scenario.streams /\ stream[s].pc = "none" /\ lst.up /\ ~lst.stopping /\ stream[s].requests = 0
    /\ stream' = [stream EXCEPT ![s].pc = "select"]
    /\ UNCHANGED <<lst, queue>> /\ UNCHANGED loopVars

\* A request of the client: channels to leave (unsubscribe_all: every one) and
\* channels to join.  The select may take it although notifCh is closed.
ReceiveRequest(s, leave, join) ==
    /\ stream[s].pc = "select" /\ stream[s].requests < scenario.requests
    /\ stream' = [stream EXCEPT ![s] =
         [@ EXCEPT !.pc = "request", !.unsub = leave \intersect stream[s].subscribed, !.sub = join,
                   !.requests = stream[s].requests + 1]]
    /\ UNCHANGED <<lst, queue>> /\ UNCHANGED loopVars

\* submit takes the mutex, the current queue and its stopped channel; a queue
\* whose loop is gone is never read.
Submit(s, op, ch) ==
    /\ ~lst.stopping
    /\ queue' = IF lst.up THEN Append(queue, [s |-> s, op |-> op, ch |-> ch]) ELSE queue
    /\ stream' = [stream EXCEPT ![s] =
         [@ EXCEPT !.pc = "wait", !.wait = [op |-> op, ch |-> ch], !.gen = lst.gen, !.done = FALSE]]
    /\ UNCHANGED lst /\ UNCHANGED loopVars

\* The channels of the request one by one, those to leave first; a channel
\* that is subscribed already is skipped.
HandleRequest(s) ==
    /\ stream[s].pc = "request"
    /\ \/ \E ch \in stream[s].unsub : Submit(s, "unsubscribe", ch)
       \/ /\ stream[s].unsub = {}
          /\ \E ch \in stream[s].sub \ stream[s].subscribed : Submit(s, "subscribe", ch)

\* The ready response went out.
RequestDone(s) ==
    /\ stream[s].pc = "request" /\ stream[s].unsub = {}
    /\ stream[s].sub \subseteq stream[s].subscribed
    /\ stream' = [stream EXCEPT ![s].pc = "select", ![s].sub = {}]
    /\ UNCHANGED <<lst, queue>> /\ UNCHANGED loopVars

\* The stopped channel that submit holds is closed.
LoopGone(s) == ~lst.up \/ lst.gen # stream[s].gen

\* Mutant: submit waits for done alone.
SubmitReturnsDone(s) ==
    /\ stream[s].pc = "wait" /\ stream[s].done
    /\ LET op == stream[s].wait.op
           ch == stream[s].wait.ch
           back == [stream[s] EXCEPT !.wait = None, !.done = FALSE,
                                     !.pc = IF stream[s].ending THEN "closing" ELSE "request"]
       IN  stream' = [stream EXCEPT ![s] =
             IF op = "unsubscribe" THEN [back EXCEPT !.unsub = @ \ {ch}, !.subscribed = @ \ {ch}]
             ELSE [back EXCEPT !.subscribed = @ \union {ch}, !.sub = @ \ {ch}]]
    /\ UNCHANGED <<lst, queue>> /\ UNCHANGED loopVars

\* submit returns: done or stopped, either when both are.  Unsubscribe ignores
\* which; a refused SubscribeCh ends the stream.
SubmitReturns(s) ==
    /\ stream[s].pc = "wait"
    /\ LET op == stream[s].wait.op
           ch == stream[s].wait.ch
           back == [stream[s] EXCEPT !.wait = None, !.done = FALSE,
                                     !.pc = IF stream[s].ending THEN "closing" ELSE "request"]
       IN  \/ /\ op = "unsubscribe" /\ (stream[s].done \/ LoopGone(s))
              /\ stream' = [stream EXCEPT ![s] =
                   [back EXCEPT !.unsub = @ \ {ch}, !.subscribed = @ \ {ch}]]
           \/ /\ op = "subscribe" /\ stream[s].done
              /\ stream' = [stream EXCEPT ![s] =
                   [back EXCEPT !.subscribed = @ \union {ch}, !.sub = @ \ {ch}]]
           \/ /\ op = "subscribe" /\ LoopGone(s)
              /\ stream' = [stream EXCEPT ![s] =
                   [back EXCEPT !.pc = "closing", !.ending = TRUE, !.sub = {}]]
    /\ UNCHANGED <<lst, queue>> /\ UNCHANGED loopVars

\* The handler returns: the client is gone, or notifCh yields its end.
LeaveSelect(s) ==
    /\ stream[s].pc = "select"
    /\ stream' = [stream EXCEPT ![s].pc = "closing", ![s].ending = TRUE]
    /\ UNCHANGED <<lst, queue>> /\ UNCHANGED loopVars

\* Its deferred Unsubscribe of everything it had subscribed to.
CloseStream(s) ==
    /\ stream[s].pc = "closing"
    /\ \/ \E ch \in stream[s].subscribed : Submit(s, "unsubscribe", ch)
       \/ /\ stream[s].subscribed = {}
          /\ stream' = [stream EXCEPT ![s].pc = "ended"]
          /\ UNCHANGED <<lst, queue>> /\ UNCHANGED loopVars

-----------------------------------------------------------------------------

\* Steps of the event loop that need nothing from the backend.
OwnStep ==
    \/ TakeRequest \/ CommandFails \/ CommandCancelled
    \/ ReaderError \/ ReconnectTimer \/ LoopExit

LoopStep == OwnStep \/ CommandDone

StreamStep(s) ==
    \/ HandleRequest(s) \/ RequestDone(s) \/ SubmitReturns(s) \/ CloseStream(s)

Next ==
    /\ ~panicked
    /\ \/ Start \/ Stop \/ LoopStep \/ ConnBreaks
       \/ \E ch \in Channels : NotifyClosed(ch)
       \/ \E s \in Streams :
             \/ OpenStream(s) \/ LeaveSelect(s) \/ StreamStep(s)
             \/ \E leave, join \in SUBSET Channels : ReceiveRequest(s, leave, join)

Spec == Init /\ [][Next /\ UNCHANGED scenario]_<<vars, scenario>>

\* Goroutines that can run do; a closed notifCh is noticed; the backend answers
\* where the scenario says so; clients and state changes are free.
FairSpec ==
    /\ Spec
    /\ WF_vars(~panicked /\ (OwnStep \/ (scenario.answers /\ CommandDone)))
    /\ \A s \in Streams :
          /\ WF_vars(~panicked /\ StreamStep(s))
          /\ WF_vars(~panicked /\ stream[s].closed /\ LeaveSelect(s))

-----------------------------------------------------------------------------
(* Properties.                                                             *)

\* The type invariant; the queue never holds more than one request per handler,
\* well below the 64 places of the channel.
PubSubTypeOK ==
    /\ lst \in [up : BOOLEAN, stopping : BOOLEAN, gen : 0..scenario.starts]
    /\ subs \subseteq Streams \X Channels
    /\ conn \in [up : BOOLEAN, alive : BOOLEAN, listening : SUBSET Channels]
    /\ timer \in BOOLEAN /\ breaks \in 0..scenario.breaks /\ panicked \in BOOLEAN
    /\ queue \in Seq(Requests) /\ Len(queue) <= Cardinality(Streams)
    /\ cur \in Requests \union {None}
    /\ \A s \in Streams :
          /\ stream[s].pc \in {"none", "select", "request", "wait", "closing", "ended"}
          /\ stream[s].subscribed \subseteq Channels /\ stream[s].gen \in 0..scenario.starts

\* Whenever the loop is between requests, its backend listens to exactly the
\* channels that have subscribers, or, with the connection lost, a reconnect is
\* scheduled; and no connection is held without subscribers (run in
\* listener.go keeps this through refcounts, releaseConn and reconnectTimer).
ListensMatch ==
    lst.up /\ ~lst.stopping /\ cur = None
       => IF conn.up THEN subs # {} /\ conn.listening = Wanted(subs)
          ELSE subs # {} => timer

\* A stream whose client was told it is subscribed is registered with the
\* running loop, or its channel was closed so that it ends: it is never left
\* waiting for notifications that cannot come (SubscribeCh's result and the
\* closing of all subscribers in run).
StreamNotStranded ==
    \A s \in Streams :
       stream[s].pc = "select" =>
          \A ch \in stream[s].subscribed : <<s, ch>> \in subs \/ stream[s].closed

\* While the backend answers, every submitted request returns to its handler, also
\* when the loop stops or is replaced while the request is queued (submit's select
\* on stopped).
EveryRequestReturns ==
    \A s \in Streams :
        scenario.answers /\ stream[s].pc = "wait" ~> stream[s].pc # "wait" \/ panicked

\* Stop, which holds the mutex that submit and Running need, returns: the loop it
\* waits for exits even when it is waiting for the answer of a backend that
\* hangs (drainCommands watches the context).
StopCompletes == lst.stopping ~> ~lst.stopping \/ panicked

\* A lost connection comes back while there are subscribers: if the backend
\* answers, it eventually listens to what they asked for, or they or the loop are
\* gone (connect and reconnectTimer in run).
SubscribedIsListened ==
    \A ch \in Channels :
       scenario.answers /\ ch \in Wanted(subs)
          ~> ch \in conn.listening \/ ch \notin Wanted(subs) \/ panicked

-----------------------------------------------------------------------------
(* What comments and docs say and the code does not do.  None of these     *)
(* holds: see "Observations" in the README.                               *)

\* No process ever closes or sends on a closed subscriber channel.  The comment
\* on Listener.mu claims the fresh queue of every Start prevents it.
NoPanic == ~panicked
=============================================================================
