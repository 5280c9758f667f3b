------------------------ MODULE PubSubListenerProofs ------------------------
(***************************************************************************)
(* The LISTEN/NOTIFY listener, for any number of streams, channels, loops  *)
(* and lost connections.                                                   *)
(*                                                                         *)
(* ListensMatch speaks only of the moments between requests: ListenInv     *)
(* adds by which channel the backend is behind while a command is under    *)
(* way.  StreamNotStranded speaks only of handlers that wait for           *)
(* notifications: StrandInv adds what a handler is about to believe or to  *)
(* give up, and QueueInv that a request still with the loop belongs to a   *)
(* handler that waits for this loop, so that no request is carried out     *)
(* behind the back of a handler that has moved on.                         *)
(***************************************************************************)
EXTENDS PubSubListener, SequenceTheorems, TLAPS

WaitType == [op : {"subscribe", "unsubscribe"}, ch : Channels]

StreamType ==
    [pc : {"none", "select", "request", "wait", "closing", "ended"},
     subscribed : SUBSET Channels, closed : BOOLEAN, unsub : SUBSET Channels, sub : SUBSET Channels,
     wait : WaitType \cup {None}, gen : Nat, done : BOOLEAN, ending : BOOLEAN, requests : Nat]

ConnType == [up : BOOLEAN, alive : BOOLEAN, listening : SUBSET Channels]

TypeInv ==
    /\ lst \in [up : BOOLEAN, stopping : BOOLEAN, gen : Nat]
    /\ subs \in SUBSET (Streams \X Channels)
    /\ conn \in ConnType
    /\ timer \in BOOLEAN
    /\ queue \in Seq(Requests)
    /\ cur \in Requests \cup {None}
    /\ stream \in [Streams -> StreamType]
    /\ \A s \in Streams : stream[s].pc = "wait" => stream[s].wait \in WaitType

\* The handler of a request that the loop has not answered waits for it, and for
\* this loop.
Waits(r) ==
    /\ stream[r.s].pc = "wait" /\ ~stream[r.s].done /\ stream[r.s].gen = lst.gen
    /\ stream[r.s].wait = [op |-> r.op, ch |-> r.ch]

\* Requests belong to a loop that runs, each to a handler of its own.
QueueInv ==
    /\ lst.stopping => lst.up
    /\ ~lst.up => queue = <<>> /\ cur = None
    /\ \A i \in 1..Len(queue) : Waits(queue[i])
    /\ \A i, j \in 1..Len(queue) : queue[i].s = queue[j].s => i = j
    /\ cur # None => /\ Waits(cur)
                     /\ \A i \in 1..Len(queue) : queue[i].s # cur.s

\* What the backend listens to while the loop waits for a command, and between
\* commands.
Listening ==
    IF cur = None
    THEN IF conn.up THEN subs # {} /\ conn.listening = Wanted(subs) ELSE subs # {} => timer
    ELSE /\ conn.up
         /\ IF cur.op = "subscribe"
            THEN cur.ch \in Wanted(subs) /\ Wanted(subs) = conn.listening \cup {cur.ch}
            ELSE cur.ch \notin Wanted(subs) /\ conn.listening = Wanted(subs) \cup {cur.ch}

ListenInv ==
    /\ ~lst.up => subs = {} /\ ~conn.up
    /\ conn.alive => conn.up
    /\ lst.up /\ ~lst.stopping => Listening

\* s is registered for ch, or knows that no notification will come.
Registered(s, ch) == <<s, ch>> \in subs \/ stream[s].closed

\* What a handler believes is registered, unless it is leaving that channel; and
\* so is what it is about to believe.
StrandInv ==
    /\ cur # None /\ cur.op = "subscribe" => <<cur.s, cur.ch>> \in subs
    /\ \A s \in Streams :
          /\ \A ch \in stream[s].subscribed :
                \/ Registered(s, ch)
                \/ stream[s].pc = "wait" /\ stream[s].wait = [op |-> "unsubscribe", ch |-> ch]
          /\ stream[s].pc = "wait" /\ stream[s].done /\ stream[s].wait.op = "subscribe"
                => Registered(s, stream[s].wait.ch)

ListenerInv == TypeInv /\ QueueInv /\ ListenInv /\ StrandInv

\* The initial state has the types.
LEMMA InitTypes == Init => TypeInv
<1> SUFFICES ASSUME Init PROVE TypeInv
  OBVIOUS
<1>1. conn \in ConnType
  BY DEF Init, NoConn, ConnType
<1>2. NewStream \in StreamType /\ NewStream.pc = "none"
  BY DEF NewStream, StreamType
<1>3. stream \in [Streams -> StreamType] /\ \A s \in Streams : stream[s].pc = "none"
  BY <1>2 DEF Init
<1>4. queue \in Seq(Requests)
  BY DEF Init
<1> QED
  BY <1>1, <1>3, <1>4 DEF Init, TypeInv

\* The first request of a queue and the rest.
LEMMA FirstRequest ==
    ASSUME TypeInv, queue # <<>>
    PROVE  /\ Head(queue) \in Requests /\ Head(queue) = queue[1] /\ 1 \in 1..Len(queue)
           /\ Tail(queue) \in Seq(Requests) /\ Len(Tail(queue)) = Len(queue) - 1
           /\ \A i \in 1..Len(Tail(queue)) : i + 1 \in 1..Len(queue) /\ Tail(queue)[i] = queue[i + 1]
<1>1. queue \in Seq(Requests) /\ Len(queue) \in Nat /\ Len(queue) # 0
  BY DEF TypeInv
<1> QED
  BY <1>1

\* Initially nothing is registered, queued or connected.
LEMMA InitInv == Init => ListenerInv
<1> SUFFICES ASSUME Init PROVE ListenerInv
  OBVIOUS
<1>1. TypeInv
  BY InitTypes
<1>2. /\ lst.up = FALSE /\ lst.stopping = FALSE /\ conn.up = FALSE /\ conn.alive = FALSE
      /\ \A s \in Streams : stream[s].pc = "none" /\ stream[s].subscribed = {}
  BY DEF Init, NoConn, NewStream
<1>3. QueueInv
  BY <1>2 DEF Init, QueueInv
<1>4. ListenInv
  BY <1>2 DEF Init, ListenInv
<1>5. StrandInv
  BY <1>2 DEF Init, StrandInv
<1> QED
  BY <1>1, <1>3, <1>4, <1>5 DEF ListenerInv

\* The parts of a request, and of the request that the loop works on.
LEMMA RequestParts ==
    ASSUME TypeInv
    PROVE  /\ cur # None => cur \in Requests
           /\ \A i \in 1..Len(queue) : queue[i] \in Requests
           /\ Len(queue) \in Nat
<1>1. queue \in Seq(Requests) /\ cur \in Requests \cup {None}
  BY DEF TypeInv
<1> QED
  BY <1>1

\* A handler that is not waiting, has its answer or outlived the loop has no
\* request with the loop.
LEMMA NoRequest ==
    ASSUME ListenerInv, NEW s \in Streams,
           stream[s].pc # "wait" \/ stream[s].done \/ LoopGone(s)
    PROVE  /\ \A i \in 1..Len(queue) : queue[i].s # s
           /\ cur # None => cur.s # s
<1>1. \A i \in 1..Len(queue) : Waits(queue[i]) /\ lst.up
  BY DEF ListenerInv, QueueInv, TypeInv
<1>2. cur # None => Waits(cur) /\ lst.up
  BY DEF ListenerInv, QueueInv
<1> QED
  BY <1>1, <1>2 DEF Waits, LoopGone

\* A step of one handler that has no request with the loop, keeps its channel
\* and believes only what is registered.
LEMMA HandlerStep ==
    ASSUME ListenerInv, NEW s \in Streams, NEW x \in StreamType,
           stream' = [stream EXCEPT ![s] = x],
           UNCHANGED <<lst, queue>>, UNCHANGED loopVars,
           stream[s].pc # "wait" \/ stream[s].done \/ LoopGone(s),
           x.pc # "wait", x.closed <=> stream[s].closed,
           \A ch \in x.subscribed : Registered(s, ch)
    PROVE  ListenerInv'
<1> USE DEF loopVars
<1>1. TypeInv /\ stream \in [Streams -> StreamType]
  BY DEF ListenerInv, TypeInv
<1>2. stream' \in [Streams -> StreamType] /\ stream'[s] = x
      /\ \A t \in Streams : t # s => stream'[t] = stream[t]
  BY <1>1
<1>3. TypeInv'
  BY <1>1, <1>2 DEF TypeInv
<1>4. /\ \A i \in 1..Len(queue) : queue[i].s # s /\ queue[i].s \in Streams
      /\ cur # None => cur.s # s /\ cur.s \in Streams
  BY <1>1, NoRequest, RequestParts DEF Requests
<1>5. QueueInv'
  <2>1. \A i \in 1..Len(queue) : Waits(queue[i])'
    BY <1>2, <1>4 DEF ListenerInv, QueueInv, Waits
  <2>2. cur # None => Waits(cur)'
    BY <1>2, <1>4 DEF ListenerInv, QueueInv, Waits
  <2> QED
    BY <2>1, <2>2 DEF ListenerInv, QueueInv
<1>6. ListenInv'
  BY DEF ListenerInv, ListenInv, Listening
<1>7. StrandInv'
  <2>1. \A t \in Streams, ch \in Channels : Registered(t, ch) => Registered(t, ch)'
    BY <1>2 DEF Registered
  <2>2. ASSUME NEW t \in Streams, NEW ch \in stream'[t].subscribed
        PROVE  \/ Registered(t, ch)'
               \/ stream'[t].pc = "wait" /\ stream'[t].wait = [op |-> "unsubscribe", ch |-> ch]
    <3>1. ch \in Channels
      BY <1>2 DEF StreamType
    <3> QED
      BY <1>2, <2>1, <3>1 DEF ListenerInv, StrandInv
  <2>3. ASSUME NEW t \in Streams,
               stream'[t].pc = "wait", stream'[t].done, stream'[t].wait.op = "subscribe"
        PROVE  Registered(t, stream[t].wait.ch)' /\ t # s
    <3>1. t # s /\ stream[t].wait \in WaitType /\ stream'[t] = stream[t]
      BY <1>1, <1>2, <2>3 DEF TypeInv
    <3>2. stream[t].wait.ch \in Channels
      BY <3>1 DEF WaitType
    <3> QED
      BY <2>1, <2>3, <3>1, <3>2 DEF ListenerInv, StrandInv
  <2> QED
    BY <1>2, <2>2, <2>3 DEF ListenerInv, StrandInv
<1> QED
  BY <1>3, <1>5, <1>6, <1>7 DEF ListenerInv

\* Submit: the handler waits, and its request is the last of the queue of a loop
\* that runs.
LEMMA SubmitStep ==
    ASSUME ListenerInv, NEW s \in Streams, NEW op \in {"subscribe", "unsubscribe"}, NEW c \in Channels,
           stream[s].pc # "wait", Submit(s, op, c)
    PROVE  ListenerInv'
<1> USE DEF loopVars
<1> DEFINE req == [s |-> s, op |-> op, ch |-> c]
<1>1. TypeInv /\ stream \in [Streams -> StreamType] /\ queue \in Seq(Requests) /\ lst.gen \in Nat
  BY DEF ListenerInv, TypeInv
<1>2. PICK x \in StreamType :
         /\ stream' = [stream EXCEPT ![s] = x]
         /\ x.pc = "wait" /\ x.wait = [op |-> op, ch |-> c] /\ x.gen = lst.gen /\ ~x.done
         /\ (x.closed <=> stream[s].closed) /\ x.subscribed = stream[s].subscribed
  <2> DEFINE x == [stream[s] EXCEPT !.pc = "wait", !.wait = [op |-> op, ch |-> c],
                                    !.gen = lst.gen, !.done = FALSE]
  <2>1. [op |-> op, ch |-> c] \in WaitType
    BY DEF WaitType
  <2>2. stream[s] \in StreamType
    BY <1>1
  <2>3. x \in StreamType
    BY <1>1, <2>1, <2>2 DEF StreamType
  <2>4. /\ x.pc = "wait" /\ x.wait = [op |-> op, ch |-> c] /\ x.gen = lst.gen /\ ~x.done
        /\ (x.closed <=> stream[s].closed) /\ x.subscribed = stream[s].subscribed
    BY <2>2 DEF StreamType
  <2>5. stream' = [stream EXCEPT ![s] = x]
    BY DEF Submit
  <2> QED
    BY <2>3, <2>4, <2>5
<1>3. stream' \in [Streams -> StreamType] /\ stream'[s] = x
      /\ \A t \in Streams : t # s => stream'[t] = stream[t]
  BY <1>1, <1>2
<1>4. UNCHANGED lst /\ UNCHANGED loopVars /\ ~lst.stopping
      /\ queue' = IF lst.up THEN Append(queue, req) ELSE queue
  BY DEF Submit
<1>5. req \in Requests /\ x.wait \in WaitType
  BY <1>2 DEF Requests, WaitType
<1>6. queue' \in Seq(Requests)
  BY <1>1, <1>4, <1>5
<1>7. TypeInv'
  BY <1>1, <1>3, <1>4, <1>5, <1>6 DEF TypeInv
<1>8. /\ \A i \in 1..Len(queue) : queue[i].s # s /\ queue[i].s \in Streams
      /\ cur # None => cur.s # s /\ cur.s \in Streams
  BY <1>1, NoRequest, RequestParts DEF Requests
<1>9. QueueInv'

  <2>1. cur # None => Waits(cur)'
    BY <1>3, <1>4, <1>8 DEF ListenerInv, QueueInv, Waits
  <2>2. CASE ~lst.up
    BY <1>1, <1>4, <2>1, <2>2 DEF ListenerInv, QueueInv
  <2>3. CASE lst.up
    <3>1. Len(queue') = Len(queue) + 1 /\ queue'[Len(queue) + 1] = req
          /\ \A i \in 1..Len(queue) : queue'[i] = queue[i]
      BY <1>1, <1>4, <1>5, <2>3
    <3>2. \A i \in 1..Len(queue') : i \in 1..Len(queue) \/ i = Len(queue) + 1
      BY <1>1, <3>1
    <3>3. ASSUME NEW i \in 1..Len(queue')
          PROVE  Waits(queue[i])'
      BY <1>2, <1>3, <1>4, <1>8, <3>1, <3>2 DEF ListenerInv, QueueInv, Waits
    <3>4. \A i, j \in 1..Len(queue') : queue'[i].s = queue'[j].s => i = j
      BY <1>8, <3>1, <3>2 DEF ListenerInv, QueueInv
    <3>5. cur # None => \A i \in 1..Len(queue') : queue'[i].s # cur.s
      BY <1>8, <3>1, <3>2 DEF ListenerInv, QueueInv
    <3> QED
      BY <1>4, <2>1, <2>3, <3>3, <3>4, <3>5 DEF ListenerInv, QueueInv
  <2> QED
    BY <2>2, <2>3
<1>10. ListenInv'
  BY <1>4 DEF ListenerInv, ListenInv, Listening
<1>11. StrandInv'
  <2>1. \A t \in Streams, ch \in Channels : Registered(t, ch) => Registered(t, ch)'
    BY <1>2, <1>3, <1>4 DEF Registered
  <2>2. ASSUME NEW t \in Streams, NEW ch \in stream'[t].subscribed
        PROVE  \/ Registered(t, ch)'
               \/ stream'[t].pc = "wait" /\ stream'[t].wait = [op |-> "unsubscribe", ch |-> ch]
    <3>1. ch \in Channels /\ ch \in stream[t].subscribed
      BY <1>2, <1>3 DEF StreamType
    <3> QED
      BY <1>3, <2>1, <3>1 DEF ListenerInv, StrandInv
  <2>3. ASSUME NEW t \in Streams,
               stream'[t].pc = "wait", stream'[t].done, stream'[t].wait.op = "subscribe"
        PROVE  Registered(t, stream[t].wait.ch)'
    <3>1. t # s /\ stream'[t] = stream[t]
      BY <1>2, <1>3, <2>3
    <3>2. stream[t].wait \in WaitType
      BY <1>1, <2>3, <3>1 DEF TypeInv
    <3>3. stream[t].wait.ch \in Channels
      BY <3>2 DEF WaitType
    <3> QED
      BY <2>1, <2>3, <3>1, <3>3 DEF ListenerInv, StrandInv
  <2> QED
    BY <1>4, <2>2, <2>3 DEF ListenerInv, StrandInv
<1> QED
  BY <1>7, <1>9, <1>10, <1>11 DEF ListenerInv

\* A handler that is not waiting believes only what is registered.
LEMMA Believes ==
    ASSUME ListenerInv, NEW s \in Streams, stream[s].pc # "wait"
    PROVE  \A ch \in stream[s].subscribed : Registered(s, ch)
BY DEF ListenerInv, StrandInv

\* Steps of a handler between its requests.
LEMMA HandlerSteps ==
    ASSUME ListenerInv, NEW s \in Streams,
           \/ OpenStream(s) \/ LeaveSelect(s) \/ RequestDone(s) \/ HandleRequest(s) \/ CloseStream(s)
           \/ \E leave, join \in SUBSET Channels : ReceiveRequest(s, leave, join)
    PROVE  ListenerInv'
<1>1. stream \in [Streams -> StreamType] /\ stream[s] \in StreamType
  BY DEF ListenerInv, TypeInv
<1>2. CASE OpenStream(s)
  <2> DEFINE x == [stream[s] EXCEPT !.pc = "select"]
  <2>1. x \in StreamType /\ x.pc = "select" /\ (x.closed <=> stream[s].closed)
        /\ x.subscribed = stream[s].subscribed
    BY <1>1 DEF StreamType
  <2>2. stream' = [stream EXCEPT ![s] = x] /\ stream[s].pc = "none"
        /\ UNCHANGED <<lst, queue>> /\ UNCHANGED loopVars
    BY <1>2 DEF OpenStream
  <2> QED
    BY <2>1, <2>2, HandlerStep, Believes
<1>3. CASE LeaveSelect(s)
  <2> DEFINE x == [stream[s] EXCEPT !.pc = "closing", !.ending = TRUE]
  <2>1. x \in StreamType /\ x.pc = "closing" /\ (x.closed <=> stream[s].closed)
        /\ x.subscribed = stream[s].subscribed
    BY <1>1 DEF StreamType
  <2>2. stream' = [stream EXCEPT ![s] = x] /\ stream[s].pc = "select"
        /\ UNCHANGED <<lst, queue>> /\ UNCHANGED loopVars
    BY <1>1, <1>3 DEF LeaveSelect
  <2> QED
    BY <2>1, <2>2, HandlerStep, Believes
<1>4. CASE RequestDone(s)
  <2> DEFINE x == [stream[s] EXCEPT !.pc = "select", !.sub = {}]
  <2>1. x \in StreamType /\ x.pc = "select" /\ (x.closed <=> stream[s].closed)
        /\ x.subscribed = stream[s].subscribed
    BY <1>1 DEF StreamType
  <2>2. stream' = [stream EXCEPT ![s] = x] /\ stream[s].pc = "request"
        /\ UNCHANGED <<lst, queue>> /\ UNCHANGED loopVars
    BY <1>1, <1>4 DEF RequestDone
  <2> QED
    BY <2>1, <2>2, HandlerStep, Believes
<1>5. CASE \E leave, join \in SUBSET Channels : ReceiveRequest(s, leave, join)
  <2>1. PICK leave \in SUBSET Channels, join \in SUBSET Channels : ReceiveRequest(s, leave, join)
    BY <1>5
  <2>2. /\ stream[s].requests + 1 \in Nat
        /\ leave \cap stream[s].subscribed \in SUBSET Channels
    BY <1>1 DEF StreamType
  <2>3. PICK n \in Nat, out \in SUBSET Channels :
           n = stream[s].requests + 1 /\ out = leave \cap stream[s].subscribed
    BY <2>2
  <2> DEFINE x == [stream[s] EXCEPT !.pc = "request", !.unsub = out, !.sub = join, !.requests = n]
  <2>4. x \in StreamType /\ x.pc = "request" /\ (x.closed <=> stream[s].closed)
        /\ x.subscribed = stream[s].subscribed
    BY <1>1 DEF StreamType
  <2>5. stream' = [stream EXCEPT ![s] = x] /\ stream[s].pc = "select"
        /\ UNCHANGED <<lst, queue>> /\ UNCHANGED loopVars
    BY <2>1, <2>3 DEF ReceiveRequest
  <2> QED
    BY <2>4, <2>5, HandlerStep, Believes
<1>6. CASE HandleRequest(s)
  <2>1. stream[s].unsub \in SUBSET Channels /\ stream[s].sub \in SUBSET Channels
    BY <1>1 DEF StreamType
  <2> QED
    BY <1>6, <2>1, SubmitStep DEF HandleRequest
<1>7. CASE CloseStream(s)
  <2>1. stream[s].subscribed \in SUBSET Channels /\ stream[s].pc = "closing"
    BY <1>1, <1>7 DEF StreamType, CloseStream
  <2>2. CASE \E ch \in stream[s].subscribed : Submit(s, "unsubscribe", ch)
    BY <2>1, <2>2, SubmitStep
  <2>3. CASE stream' = [stream EXCEPT ![s].pc = "ended"]
             /\ UNCHANGED <<lst, queue>> /\ UNCHANGED loopVars
    <3> DEFINE x == [stream[s] EXCEPT !.pc = "ended"]
    <3>1. x \in StreamType /\ x.pc = "ended" /\ (x.closed <=> stream[s].closed)
          /\ x.subscribed = stream[s].subscribed
      BY <1>1 DEF StreamType
    <3>2. stream' = [stream EXCEPT ![s] = x]
      BY <2>3
    <3> QED
      BY <2>1, <2>3, <3>1, <3>2, HandlerStep, Believes
  <2> QED
    BY <1>7, <2>2, <2>3 DEF CloseStream
<1> QED
  BY <1>2, <1>3, <1>4, <1>5, <1>6, <1>7

\* submit returns: what the handler believes from now on is registered.
LEMMA SubmitReturnsStep ==
    ASSUME ListenerInv, NEW s \in Streams, SubmitReturns(s)
    PROVE  ListenerInv'
<1>1. /\ stream \in [Streams -> StreamType] /\ stream[s] \in StreamType
      /\ stream[s].pc = "wait" /\ stream[s].wait \in WaitType
  BY DEF ListenerInv, TypeInv, SubmitReturns
<1>2. PICK op \in {"subscribe", "unsubscribe"}, c \in Channels :
         op = stream[s].wait.op /\ c = stream[s].wait.ch /\ stream[s].wait = [op |-> op, ch |-> c]
  BY <1>1 DEF WaitType
<1>3. UNCHANGED <<lst, queue>> /\ UNCHANGED loopVars
  BY DEF SubmitReturns
<1> DEFINE back == [stream[s] EXCEPT !.wait = None, !.done = FALSE,
                                     !.pc = IF stream[s].ending THEN "closing" ELSE "request"]
<1>4. /\ back \in StreamType /\ back.pc # "wait" /\ (back.closed <=> stream[s].closed)
      /\ back.subscribed = stream[s].subscribed
      /\ back.unsub \in SUBSET Channels /\ back.sub \in SUBSET Channels
  <2>1. PICK pc \in {"closing", "request"} : pc = IF stream[s].ending THEN "closing" ELSE "request"
    OBVIOUS
  <2>2. back = [stream[s] EXCEPT !.wait = None, !.done = FALSE, !.pc = pc]
    BY <2>1
  <2> QED
    BY <1>1, <2>2 DEF StreamType
<1> HIDE DEF back
<1>5. \A ch \in stream[s].subscribed : Registered(s, ch) \/ (op = "unsubscribe" /\ ch = c)
  <2>1. \A ch \in stream[s].subscribed :
           Registered(s, ch) \/ stream[s].wait = [op |-> "unsubscribe", ch |-> ch]
    BY DEF ListenerInv, StrandInv
  <2>2. ASSUME NEW ch, [op |-> op, ch |-> c] = [op |-> "unsubscribe", ch |-> ch]
        PROVE  op = "unsubscribe" /\ ch = c
    <3>1. [op |-> op, ch |-> c].op = op /\ [op |-> op, ch |-> c].ch = c
          /\ [op |-> "unsubscribe", ch |-> ch].op = "unsubscribe"
          /\ [op |-> "unsubscribe", ch |-> ch].ch = ch
      OBVIOUS
    <3> QED
      BY <2>2, <3>1
  <2> QED
    BY <1>2, <2>1, <2>2
<1>6. /\ back.unsub \ {c} \in SUBSET Channels /\ stream[s].subscribed \ {c} \in SUBSET Channels
      /\ back.sub \ {c} \in SUBSET Channels /\ stream[s].subscribed \cup {c} \in SUBSET Channels
      /\ {} \in SUBSET Channels
  BY <1>1, <1>4 DEF StreamType
<1>7. CASE /\ op = "unsubscribe" /\ (stream[s].done \/ LoopGone(s))
           /\ stream' = [stream EXCEPT ![s] =
                [back EXCEPT !.unsub = back.unsub \ {c}, !.subscribed = stream[s].subscribed \ {c}]]
  <2>1. PICK out \in SUBSET Channels, on \in SUBSET Channels :
           out = back.unsub \ {c} /\ on = stream[s].subscribed \ {c}
    BY <1>6
  <2> DEFINE x == [back EXCEPT !.unsub = out, !.subscribed = on]
  <2>2. x \in StreamType /\ x.pc # "wait" /\ (x.closed <=> stream[s].closed) /\ x.subscribed = on
    BY <1>4 DEF StreamType
  <2>3. \A ch \in x.subscribed : Registered(s, ch)
    BY <1>5, <2>1, <2>2
  <2>4. stream' = [stream EXCEPT ![s] = x]
    BY <1>7, <2>1
  <2> QED
    BY <1>3, <1>7, <2>2, <2>3, <2>4, HandlerStep
<1>8. CASE /\ op = "subscribe" /\ stream[s].done
           /\ stream' = [stream EXCEPT ![s] =
                [back EXCEPT !.subscribed = stream[s].subscribed \cup {c}, !.sub = back.sub \ {c}]]
  <2>1. PICK on \in SUBSET Channels, more \in SUBSET Channels :
           on = stream[s].subscribed \cup {c} /\ more = back.sub \ {c}
    BY <1>6
  <2> DEFINE x == [back EXCEPT !.subscribed = on, !.sub = more]
  <2>2. x \in StreamType /\ x.pc # "wait" /\ (x.closed <=> stream[s].closed) /\ x.subscribed = on
    BY <1>4 DEF StreamType
  <2>3. Registered(s, c)
    BY <1>1, <1>2, <1>8 DEF ListenerInv, StrandInv
  <2>4. \A ch \in x.subscribed : Registered(s, ch)
    BY <1>5, <1>8, <2>1, <2>2, <2>3
  <2>5. stream' = [stream EXCEPT ![s] = x]
    BY <1>8, <2>1
  <2> QED
    BY <1>3, <1>8, <2>2, <2>4, <2>5, HandlerStep
<1>9. CASE /\ op = "subscribe" /\ LoopGone(s)
           /\ stream' = [stream EXCEPT ![s] =
                [back EXCEPT !.pc = "closing", !.ending = TRUE, !.sub = {}]]
  <2> DEFINE x == [back EXCEPT !.pc = "closing", !.ending = TRUE, !.sub = {}]
  <2>1. x \in StreamType /\ x.pc # "wait" /\ (x.closed <=> stream[s].closed)
        /\ x.subscribed = stream[s].subscribed
    BY <1>4, <1>6 DEF StreamType
  <2>2. \A ch \in x.subscribed : Registered(s, ch)
    BY <1>5, <1>9, <2>1
  <2>3. stream' = [stream EXCEPT ![s] = x]
    BY <1>9
  <2> QED
    BY <1>3, <1>9, <2>1, <2>2, <2>3, HandlerStep
<1>10. /\ back.subscribed = stream[s].subscribed
       /\ \/ /\ op = "unsubscribe" /\ (stream[s].done \/ LoopGone(s))
             /\ stream' = [stream EXCEPT ![s] =
                  [back EXCEPT !.unsub = back.unsub \ {c}, !.subscribed = back.subscribed \ {c}]]
          \/ /\ op = "subscribe" /\ stream[s].done
             /\ stream' = [stream EXCEPT ![s] =
                  [back EXCEPT !.subscribed = back.subscribed \cup {c}, !.sub = back.sub \ {c}]]
          \/ /\ op = "subscribe" /\ LoopGone(s)
             /\ stream' = [stream EXCEPT ![s] =
                  [back EXCEPT !.pc = "closing", !.ending = TRUE, !.sub = {}]]
  BY <1>2, <1>4 DEF SubmitReturns, back
<1> QED
  BY <1>7, <1>8, <1>9, <1>10

\* Channels with subscribers.
LEMMA WantedTypes ==
    ASSUME NEW rel \in SUBSET (Streams \X Channels)
    PROVE  /\ Wanted(rel) \in SUBSET Channels
           /\ rel = {} <=> Wanted(rel) = {}
<1>1. \A p \in rel : p[2] \in Channels
  OBVIOUS
<1>2. Wanted(rel) \in SUBSET Channels
  BY <1>1 DEF Wanted
<1>3. rel = {} <=> Wanted(rel) = {}
  BY Zenon DEF Wanted
<1> QED
  BY <1>2, <1>3

\* A subscriber joins.
LEMMA WantedMore ==
    ASSUME NEW rel \in SUBSET (Streams \X Channels), NEW s \in Streams, NEW ch \in Channels,
           NEW more, more = rel \cup {<<s, ch>>}
    PROVE  more \in SUBSET (Streams \X Channels) /\ more # {} /\ Wanted(more) = Wanted(rel) \cup {ch}
<1>1. <<s, ch>>[2] = ch /\ <<s, ch>> \in Streams \X Channels
  OBVIOUS
<1>2. Wanted(more) = Wanted(rel) \cup {ch}
  BY <1>1, Zenon DEF Wanted
<1> QED
  BY <1>1, <1>2

\* A subscriber leaves.
LEMMA WantedLess ==
    ASSUME NEW rel \in SUBSET (Streams \X Channels), NEW s \in Streams, NEW ch \in Channels,
           NEW less, less = rel \ {<<s, ch>>}
    PROVE  /\ less \in SUBSET (Streams \X Channels)
           /\ <<s, ch>> \in rel => Wanted(rel) = Wanted(less) \cup {ch}
           /\ <<s, ch>> \notin rel => less = rel
<1>1. <<s, ch>>[2] = ch
  OBVIOUS
<1>2. ASSUME <<s, ch>> \in rel PROVE Wanted(rel) = Wanted(less) \cup {ch}
  <2>1. ASSUME NEW c \in Wanted(rel) PROVE c \in Wanted(less) \cup {ch}
    <3>1. PICK p \in rel : c = p[2]
      BY DEF Wanted
    <3>2. p = <<s, ch>> \/ p \in less
      OBVIOUS
    <3> QED
      BY <1>1, <3>1, <3>2, Zenon DEF Wanted
  <2>2. ASSUME NEW c \in Wanted(less) \cup {ch} PROVE c \in Wanted(rel)
    BY <1>1, <1>2, Zenon DEF Wanted
  <2> QED
    BY <2>1, <2>2
<1> QED
  BY <1>2

\* Answering a handler changes nothing else of it.
LEMMA DoneEffect ==
    ASSUME TypeInv, NEW s \in Streams, stream' = [stream EXCEPT ![s].done = TRUE]
    PROVE  /\ stream' \in [Streams -> StreamType]
           /\ stream'[s].done
           /\ \A t \in Streams :
                 /\ stream'[t].pc = stream[t].pc /\ stream'[t].wait = stream[t].wait
                 /\ stream'[t].gen = stream[t].gen /\ stream'[t].subscribed = stream[t].subscribed
                 /\ (stream'[t].closed <=> stream[t].closed)
                 /\ t # s => stream'[t] = stream[t]
<1>1. stream \in [Streams -> StreamType] /\ stream[s] \in StreamType
  BY DEF TypeInv
<1> DEFINE x == [stream[s] EXCEPT !.done = TRUE]
<1>2. /\ x \in StreamType /\ x.done /\ x.pc = stream[s].pc /\ x.wait = stream[s].wait
      /\ x.gen = stream[s].gen /\ x.subscribed = stream[s].subscribed
      /\ (x.closed <=> stream[s].closed)
  BY <1>1 DEF StreamType
<1>3. stream' = [stream EXCEPT ![s] = x]
  OBVIOUS
<1> HIDE DEF x
<1>4. stream' \in [Streams -> StreamType] /\ stream'[s] = x
      /\ \A t \in Streams : t # s => stream'[t] = stream[t]
  BY <1>1, <1>2, <1>3
<1> QED
  BY <1>2, <1>4

\* Answering r leaves the other requests waiting.
LEMMA OthersWait ==
    ASSUME TypeInv, NEW r \in Requests, stream' = [stream EXCEPT ![r.s].done = TRUE], UNCHANGED lst,
           NEW q \in Requests, Waits(q), q.s # r.s
    PROVE  /\ stream'[q.s].pc = "wait" /\ ~stream'[q.s].done /\ stream'[q.s].gen = lst'.gen
           /\ stream'[q.s].wait = [op |-> q.op, ch |-> q.ch]
<1>1. r.s \in Streams /\ q.s \in Streams
  BY DEF Requests
<1> QED
  BY <1>1, DoneEffect DEF Waits

\* The request at the head of the queue is answered at once, or becomes the one
\* the loop works on.
LEMMA TakeQueue ==
    ASSUME ListenerInv, lst.up, cur = None, queue # <<>>, queue' = Tail(queue), UNCHANGED lst,
           Done(Head(queue).s) \/ (cur' = Head(queue) /\ UNCHANGED stream)
    PROVE  /\ QueueInv' /\ queue' \in Seq(Requests) /\ cur' \in Requests \cup {None}
           /\ stream' \in [Streams -> StreamType]
           /\ \A s \in Streams : stream'[s].pc = "wait" => stream'[s].wait \in WaitType
<1> DEFINE r == Head(queue)
<1>1. TypeInv /\ \A s \in Streams : stream[s].pc = "wait" => stream[s].wait \in WaitType
  BY DEF ListenerInv, TypeInv
<1>2. /\ r \in Requests /\ r = queue[1] /\ 1 \in 1..Len(queue)
      /\ queue' \in Seq(Requests) /\ Len(queue') = Len(queue) - 1
      /\ \A i \in 1..Len(queue') : i + 1 \in 1..Len(queue) /\ queue'[i] = queue[i + 1]
  BY <1>1, FirstRequest
<1>3. r.s \in Streams /\ None # r
  BY <1>2, ScenarioAssumption DEF Requests
<1>4. Waits(r) /\ \A i \in 1..Len(queue) : Waits(queue[i])
  BY <1>2 DEF ListenerInv, QueueInv
<1>5. \A i \in 1..Len(queue') : queue'[i].s # r.s /\ queue'[i] \in Requests
  <2> SUFFICES ASSUME NEW i \in 1..Len(queue') PROVE queue'[i].s # r.s /\ queue'[i] \in Requests
    OBVIOUS
  <2>1. i + 1 \in 1..Len(queue) /\ queue'[i] = queue[i + 1] /\ i + 1 # 1
    BY <1>2
  <2>2. queue[i + 1] \in Requests
    BY <1>1, <2>1, RequestParts
  <2> QED
    BY <1>2, <2>1, <2>2 DEF ListenerInv, QueueInv
<1>6. \A i, j \in 1..Len(queue') : queue'[i].s = queue'[j].s => i = j
  <2> SUFFICES ASSUME NEW i \in 1..Len(queue'), NEW j \in 1..Len(queue'), queue'[i].s = queue'[j].s
               PROVE  i = j
    OBVIOUS
  <2>1. i + 1 = j + 1
    BY <1>2 DEF ListenerInv, QueueInv
  <2> QED
    BY <1>1, <1>2, <2>1
<1>7. CASE Done(r.s)
  <2>1. cur' = None /\ stream' = [stream EXCEPT ![r.s].done = TRUE]
    BY <1>7 DEF Done
  <2>2. ASSUME NEW i \in 1..Len(queue') PROVE Waits(queue[i])'
    BY <1>1, <1>2, <1>4, <1>5, <2>1, OthersWait DEF Waits
  <2>3. lst.up /\ lst.up'
    BY <1>2 DEF ListenerInv, QueueInv
  <2>4. QueueInv'
    BY <1>6, <2>1, <2>2, <2>3 DEF QueueInv
  <2>5. /\ stream' \in [Streams -> StreamType]
        /\ \A s \in Streams : stream'[s].pc = stream[s].pc /\ stream'[s].wait = stream[s].wait
    BY <1>1, <1>3, <2>1, DoneEffect
  <2> QED
    BY <1>1, <1>2, <2>1, <2>4, <2>5
<1>8. CASE cur' = r /\ UNCHANGED stream
  <2>1. ASSUME NEW i \in 1..Len(queue') PROVE Waits(queue[i])'
    BY <1>2, <1>4, <1>8 DEF Waits
  <2>2. Waits(cur)'
    BY <1>4, <1>8 DEF Waits
  <2>3. QueueInv'
    BY <1>5, <1>6, <1>8, <2>1, <2>2 DEF ListenerInv, QueueInv
  <2> QED
    BY <1>1, <1>2, <1>8, <2>3 DEF TypeInv
<1> QED
  BY <1>7, <1>8

\* The request that the loop works on is answered.
LEMMA AnswerCurrent ==
    ASSUME ListenerInv, cur # None, Done(cur.s), UNCHANGED <<lst, queue>>
    PROVE  /\ QueueInv' /\ cur' = None
           /\ stream' \in [Streams -> StreamType]
           /\ \A s \in Streams : stream'[s].pc = "wait" => stream'[s].wait \in WaitType
<1>1. /\ TypeInv /\ \A s \in Streams : stream[s].pc = "wait" => stream[s].wait \in WaitType
  BY DEF ListenerInv, TypeInv
<1>2. cur \in Requests /\ cur.s \in Streams
  BY <1>1, RequestParts DEF Requests
<1>3. cur' = None /\ stream' = [stream EXCEPT ![cur.s].done = TRUE]
  BY DEF Done
<1>4. ASSUME NEW i \in 1..Len(queue) PROVE Waits(queue[i])'
  <2>1. queue[i] \in Requests /\ Waits(queue[i]) /\ queue[i].s # cur.s
    BY <1>1, RequestParts DEF ListenerInv, QueueInv
  <2> QED
    BY <1>1, <1>2, <1>3, <2>1, OthersWait DEF Waits
<1>5. QueueInv'
  BY <1>3, <1>4 DEF ListenerInv, QueueInv
<1>6. /\ stream' \in [Streams -> StreamType]
      /\ \A s \in Streams : stream'[s].pc = stream[s].pc /\ stream'[s].wait = stream[s].wait
  BY <1>1, <1>2, <1>3, DoneEffect
<1> QED
  BY <1>1, <1>3, <1>5, <1>6

\* Taking or answering r keeps every registration but the one r gives up, and a
\* subscription is registered first.
LEMMA StrandKept ==
    ASSUME ListenerInv, NEW r \in Requests, Waits(r), UNCHANGED lst,
           Done(r.s) \/ (cur' = r /\ UNCHANGED stream),
           \A t \in Streams, c \in Channels :
              <<t, c>> \in subs => \/ <<t, c>> \in subs'
                                   \/ r.op = "unsubscribe" /\ t = r.s /\ c = r.ch,
           r.op = "subscribe" => <<r.s, r.ch>> \in subs'
    PROVE  StrandInv'
<1>1. TypeInv /\ stream \in [Streams -> StreamType]
  BY DEF ListenerInv, TypeInv
<1>2. r.s \in Streams /\ r.ch \in Channels /\ r.op \in {"subscribe", "unsubscribe"}
  BY DEF Requests
<1>3. \A t \in Streams :
         /\ stream'[t].pc = stream[t].pc /\ stream'[t].wait = stream[t].wait
         /\ stream'[t].subscribed = stream[t].subscribed
         /\ (stream'[t].closed <=> stream[t].closed)
         /\ t # r.s => stream'[t] = stream[t]
  BY <1>1, <1>2, DoneEffect DEF Done
<1>4. \A t \in Streams, c \in Channels :
         Registered(t, c) => Registered(t, c)' \/ (r.op = "unsubscribe" /\ t = r.s /\ c = r.ch)
  BY <1>3 DEF Registered
<1>5. stream[r.s].pc = "wait" /\ stream[r.s].wait = [op |-> r.op, ch |-> r.ch]
  BY DEF Waits
<1>6. ASSUME NEW t \in Streams, NEW c \in stream'[t].subscribed
      PROVE  \/ Registered(t, c)'
             \/ stream'[t].pc = "wait" /\ stream'[t].wait = [op |-> "unsubscribe", ch |-> c]
  <2>1. c \in stream[t].subscribed /\ c \in Channels
    BY <1>1, <1>3 DEF StreamType
  <2>2. \/ Registered(t, c)
        \/ stream[t].pc = "wait" /\ stream[t].wait = [op |-> "unsubscribe", ch |-> c]
    BY <2>1 DEF ListenerInv, StrandInv
  <2> QED
    BY <1>3, <1>4, <1>5, <2>1, <2>2
<1>7. ASSUME NEW t \in Streams,
             stream'[t].pc = "wait", stream'[t].done, stream'[t].wait.op = "subscribe"
      PROVE  \E c \in Channels : c = stream'[t].wait.ch /\ Registered(t, c)'
  <2>1. stream[t].wait \in WaitType /\ stream[t].wait.op = "subscribe"
    BY <1>1, <1>3, <1>7 DEF TypeInv
  <2>2. PICK c \in Channels : c = stream[t].wait.ch
    BY <2>1 DEF WaitType
  <2>3. CASE t = r.s
    <3>1. r.op = "subscribe" /\ c = r.ch
      BY <1>5, <2>1, <2>2, <2>3
    <3> QED
      BY <1>3, <2>2, <2>3, <3>1 DEF Registered
  <2>4. CASE t # r.s
    <3>1. Registered(t, c)
      BY <1>3, <1>7, <2>2, <2>4 DEF ListenerInv, StrandInv
    <3> QED
      BY <1>3, <1>4, <2>2, <2>4, <3>1
  <2> QED
    BY <2>3, <2>4
<1>8. \A t \in Streams :
         stream'[t].pc = "wait" /\ stream'[t].done /\ stream'[t].wait.op = "subscribe"
            => Registered(t, stream[t].wait.ch)'
  BY <1>7 DEF Registered
<1>9. cur' # None /\ cur'.op = "subscribe" => <<cur'.s, cur'.ch>> \in subs'
  BY DEF Done
<1> QED
  BY <1>6, <1>8, <1>9 DEF StrandInv

\* Between and during commands the loop has these types of connection.
LEMMA ConnTypes ==
    /\ NoConn \in ConnType /\ ~NoConn.up /\ ~NoConn.alive
    /\ \A w \in SUBSET Channels :
          LET c == [up |-> TRUE, alive |-> TRUE, listening |-> w]
          IN  c \in ConnType /\ c.up /\ c.alive /\ c.listening = w
BY DEF NoConn, ConnType

\* The loop takes a request to subscribe.
LEMMA SubscribeStep ==
    ASSUME ListenerInv, lst.up, cur = None, NEW r \in Requests, r.op = "subscribe", ReqSubscribe(r),
           UNCHANGED lst
    PROVE  /\ ListenInv' /\ subs' \in SUBSET (Streams \X Channels)
           /\ conn' \in ConnType /\ timer' \in BOOLEAN
           /\ Done(r.s) \/ (cur' = r /\ UNCHANGED stream)
           /\ subs' = subs \cup {<<r.s, r.ch>>}
<1>1. /\ subs \in SUBSET (Streams \X Channels) /\ conn \in ConnType /\ timer \in BOOLEAN
      /\ r.s \in Streams /\ r.ch \in Channels /\ None # r
  BY ScenarioAssumption DEF ListenerInv, TypeInv, Requests
<1>2. subs' = subs \cup {<<r.s, r.ch>>}
  BY DEF ReqSubscribe
<1>3. /\ Wanted(subs) \in SUBSET Channels /\ Wanted(subs') \in SUBSET Channels
      /\ subs' \in SUBSET (Streams \X Channels)
      /\ Wanted(subs') = Wanted(subs) \cup {r.ch} /\ subs' # {}
      /\ subs = {} <=> Wanted(subs) = {}
  <2>1. /\ subs' \in SUBSET (Streams \X Channels) /\ subs' # {}
        /\ Wanted(subs') = Wanted(subs) \cup {r.ch}
    BY <1>1, <1>2, WantedMore, SMTT(30)
  <2>2. Wanted(subs) \in SUBSET Channels /\ (subs = {} <=> Wanted(subs) = {})
    BY <1>1, WantedTypes
  <2> QED
    BY <1>1, <2>1, <2>2
<1>4. /\ lst.up /\ ~lst.stopping =>
            IF conn.up THEN subs # {} /\ conn.listening = Wanted(subs) ELSE subs # {} => timer
      /\ conn.alive => conn.up
  BY DEF ListenerInv, ListenInv, Listening
<1>5. CASE r.ch \notin Wanted(subs) /\ conn.up /\ SendQuery(r)
  <2>1. CASE cur' = r /\ UNCHANGED <<conn, timer, breaks, stream>>
    <3>1. ListenInv'
      BY <1>1, <1>3, <1>4, <1>5, <2>1 DEF ListenInv, Listening
    <3> QED
      BY <1>1, <1>2, <1>3, <2>1, <3>1
  <2>2. CASE ~conn.alive /\ LostConn /\ Done(r.s)
    <3>1. ListenInv'
      BY <1>3, <2>2, ConnTypes DEF ListenInv, Listening, LostConn, Done
    <3> QED
      BY <1>1, <1>2, <1>3, <2>2, <3>1, ConnTypes DEF LostConn
  <2> QED
    BY <1>5, <2>1, <2>2 DEF SendQuery
<1>6. CASE ~conn.up /\ Connected(subs') /\ Done(r.s) /\ UNCHANGED <<timer, breaks>>
  <2>1. conn' \in ConnType /\ conn'.up /\ conn'.alive /\ conn'.listening = Wanted(subs')
    BY <1>3, <1>6, ConnTypes DEF Connected
  <2>2. ListenInv'
    BY <1>3, <1>6, <2>1 DEF ListenInv, Listening, Done
  <2> QED
    BY <1>1, <1>2, <1>3, <1>6, <2>1, <2>2
<1>7. CASE ~conn.up /\ CannotConnect /\ Done(r.s)
  <2>1. ListenInv'
    BY <1>3, <1>7, ConnTypes DEF ListenInv, Listening, CannotConnect, LostConn, Done
  <2> QED
    BY <1>1, <1>2, <1>3, <1>7, <2>1, ConnTypes DEF CannotConnect, LostConn
<1>8. CASE r.ch \in Wanted(subs) /\ Done(r.s) /\ UNCHANGED <<conn, timer, breaks>>
  <2>1. Wanted(subs') = Wanted(subs) /\ subs # {}
    BY <1>3, <1>8
  <2>2. ListenInv'
    BY <1>3, <1>4, <1>8, <2>1 DEF ListenInv, Listening, Done
  <2> QED
    BY <1>1, <1>2, <1>3, <1>8, <2>2
<1> QED
  BY <1>5, <1>6, <1>7, <1>8 DEF ReqSubscribe

\* The loop takes a request to unsubscribe.
LEMMA UnsubscribeStep ==
    ASSUME ListenerInv, lst.up, cur = None, NEW r \in Requests, r.op = "unsubscribe", ReqUnsubscribe(r),
           UNCHANGED lst
    PROVE  /\ ListenInv' /\ subs' \in SUBSET (Streams \X Channels)
           /\ conn' \in ConnType /\ timer' \in BOOLEAN
           /\ Done(r.s) \/ (cur' = r /\ UNCHANGED stream)
           /\ subs' = subs \ {<<r.s, r.ch>>}
<1>1. /\ subs \in SUBSET (Streams \X Channels) /\ conn \in ConnType /\ timer \in BOOLEAN
      /\ r.s \in Streams /\ r.ch \in Channels /\ None # r
  BY ScenarioAssumption DEF ListenerInv, TypeInv, Requests
<1>2. subs' = subs \ {<<r.s, r.ch>>}
  BY DEF ReqUnsubscribe
<1>3. /\ subs' \in SUBSET (Streams \X Channels)
      /\ <<r.s, r.ch>> \in subs => Wanted(subs) = Wanted(subs') \cup {r.ch}
      /\ <<r.s, r.ch>> \notin subs => subs' = subs
      /\ subs = {} <=> Wanted(subs) = {}
  <2>1. /\ subs' \in SUBSET (Streams \X Channels)
        /\ <<r.s, r.ch>> \in subs => Wanted(subs) = Wanted(subs') \cup {r.ch}
        /\ <<r.s, r.ch>> \notin subs => subs' = subs
    BY <1>1, <1>2, WantedLess
  <2>2. subs = {} <=> Wanted(subs) = {}
    BY <1>1, WantedTypes
  <2> QED
    BY <2>1, <2>2
<1>4. subs' = {} <=> Wanted(subs') = {}
  BY <1>3, WantedTypes
<1>5. /\ lst.up /\ ~lst.stopping =>
            IF conn.up THEN subs # {} /\ conn.listening = Wanted(subs) ELSE subs # {} => timer
      /\ conn.alive => conn.up
  BY DEF ListenerInv, ListenInv, Listening
<1>6. CASE /\ <<r.s, r.ch>> \in subs /\ r.ch \notin Wanted(subs')
           /\ conn.up /\ SendQuery(r)
  <2>1. CASE cur' = r /\ UNCHANGED <<conn, timer, breaks, stream>>
    <3>1. ListenInv'
      BY <1>1, <1>3, <1>5, <1>6, <2>1 DEF ListenInv, Listening
    <3> QED
      BY <1>1, <1>2, <1>3, <2>1, <3>1
  <2>2. CASE ~conn.alive /\ LostConn /\ Done(r.s)
    <3>1. ListenInv'
      BY <2>2, ConnTypes DEF ListenInv, Listening, LostConn, Done
    <3> QED
      BY <1>1, <1>2, <1>3, <2>2, <3>1, ConnTypes DEF LostConn
  <2> QED
    BY <1>6, <2>1, <2>2 DEF SendQuery
<1>7. CASE /\ ~(<<r.s, r.ch>> \in subs /\ r.ch \notin Wanted(subs') /\ conn.up)
           /\ Done(r.s) /\ UNCHANGED <<conn, timer, breaks>>
  <2>1. conn.up => Wanted(subs') = Wanted(subs)
    BY <1>3, <1>7
  <2>2. subs' # {} => subs # {}
    BY <1>2
  <2>3. ListenInv'
    BY <1>3, <1>4, <1>5, <1>7, <2>1, <2>2 DEF ListenInv, Listening, Done
  <2> QED
    BY <1>1, <1>2, <1>3, <1>7, <2>3
<1> QED
  BY <1>2, <1>6, <1>7 DEF ReqUnsubscribe

\* The loop takes a request from the queue.
LEMMA TakeRequestStep == ListenerInv /\ TakeRequest => ListenerInv'
<1> SUFFICES ASSUME ListenerInv, TakeRequest PROVE ListenerInv'
  OBVIOUS
<1> DEFINE r == Head(queue)
<1>1. /\ lst.up /\ cur = None /\ queue # <<>> /\ queue' = Tail(queue) /\ UNCHANGED <<lst, panicked>>
      /\ lst \in [up : BOOLEAN, stopping : BOOLEAN, gen : Nat]
  BY DEF TakeRequest, ListenerInv, TypeInv
<1>2. r \in Requests /\ Waits(r)
  <2>1. r \in Requests /\ r = queue[1] /\ 1 \in 1..Len(queue)
    BY <1>1, FirstRequest DEF ListenerInv
  <2> QED
    BY <2>1 DEF ListenerInv, QueueInv
<1> HIDE DEF r
<1>3. /\ ListenInv' /\ subs' \in SUBSET (Streams \X Channels)
      /\ conn' \in ConnType /\ timer' \in BOOLEAN
      /\ Done(r.s) \/ (cur' = r /\ UNCHANGED stream)
      /\ \/ r.op = "subscribe" /\ subs' = subs \cup {<<r.s, r.ch>>}
         \/ r.op = "unsubscribe" /\ subs' = subs \ {<<r.s, r.ch>>}
  <2>1. CASE r.op = "subscribe" /\ ReqSubscribe(r)
    BY <1>1, <1>2, <2>1, SubscribeStep
  <2>2. CASE r.op = "unsubscribe" /\ ReqUnsubscribe(r)
    BY <1>1, <1>2, <2>2, UnsubscribeStep
  <2> QED
    BY <2>1, <2>2 DEF TakeRequest, r
<1>4. /\ QueueInv' /\ queue' \in Seq(Requests) /\ cur' \in Requests \cup {None}
      /\ stream' \in [Streams -> StreamType]
      /\ \A s \in Streams : stream'[s].pc = "wait" => stream'[s].wait \in WaitType
  BY <1>1, <1>3, TakeQueue DEF r
<1>5. \A t \in Streams, c \in Channels :
         <<t, c>> \in subs => \/ <<t, c>> \in subs'
                              \/ r.op = "unsubscribe" /\ t = r.s /\ c = r.ch
  BY <1>3
<1>6. r.op = "subscribe" => <<r.s, r.ch>> \in subs'
  BY <1>3
<1>7. StrandInv'
  BY <1>1, <1>2, <1>3, <1>5, <1>6, StrandKept
<1>8. TypeInv'
  BY <1>1, <1>3, <1>4 DEF TypeInv
<1> QED
  BY <1>3, <1>4, <1>7, <1>8 DEF ListenerInv

\* A command ends: answered by the backend, with its connection, or with the
\* context of the loop.
LEMMA CommandSteps ==
    ListenerInv /\ (CommandDone \/ CommandFails \/ CommandCancelled) => ListenerInv'
<1> SUFFICES ASSUME ListenerInv, CommandDone \/ CommandFails \/ CommandCancelled
             PROVE  ListenerInv'
  OBVIOUS
<1>1. cur # None /\ Done(cur.s) /\ UNCHANGED <<lst, queue, subs>>
  BY DEF CommandDone, CommandFails, CommandCancelled
<1>2. /\ QueueInv' /\ cur' = None
      /\ stream' \in [Streams -> StreamType]
      /\ \A s \in Streams : stream'[s].pc = "wait" => stream'[s].wait \in WaitType
  BY <1>1, AnswerCurrent
<1>3. /\ cur \in Requests /\ cur.ch \in Channels /\ cur.op \in {"subscribe", "unsubscribe"}
      /\ Waits(cur) /\ lst.up
  BY <1>1, RequestParts DEF ListenerInv, QueueInv, Requests
<1>4. StrandInv'
  <2>1. cur.op = "subscribe" => <<cur.s, cur.ch>> \in subs'
    BY <1>1 DEF ListenerInv, StrandInv
  <2>2. \A t \in Streams, c \in Channels : <<t, c>> \in subs => <<t, c>> \in subs'
    BY <1>1
  <2> QED
    BY <1>1, <1>3, <2>1, <2>2, StrandKept
<1>5. conn \in ConnType /\ timer \in BOOLEAN /\ (conn.alive => conn.up)
      /\ subs \in SUBSET (Streams \X Channels)
  BY DEF ListenerInv, TypeInv, ListenInv
<1>6. ListenInv' /\ conn' \in ConnType /\ timer' \in BOOLEAN
  <2>1. CASE CommandDone
    <3>1. UNCHANGED timer /\ conn.alive
      BY <2>1 DEF CommandDone
    <3>2. CASE subs = {}
      <4>1. conn' = NoConn
        BY <2>1, <3>2 DEF CommandDone
      <4> QED
        BY <1>1, <1>2, <1>3, <1>5, <3>1, <3>2, <4>1, ConnTypes DEF ListenInv, Listening
    <3>3. CASE subs # {}
      <4>1. PICK w \in SUBSET Channels :
               w = IF cur.op = "subscribe" THEN conn.listening \cup {cur.ch}
                   ELSE conn.listening \ {cur.ch}
        <5>1. conn.listening \in SUBSET Channels
          BY <1>5 DEF ConnType
        <5>2. /\ conn.listening \cup {cur.ch} \in SUBSET Channels
              /\ conn.listening \ {cur.ch} \in SUBSET Channels
          BY <1>3, <5>1
        <5> QED
          BY <5>2
      <4>2. conn' = [conn EXCEPT !.listening = w]
        BY <2>1, <3>3, <4>1 DEF CommandDone
      <4>3. conn' \in ConnType /\ (conn'.alive <=> conn.alive) /\ (conn'.up <=> conn.up)
            /\ conn'.listening = w
        BY <1>5, <4>2 DEF ConnType
      <4>4. ~lst.stopping => w = Wanted(subs)
        BY <1>1, <1>3, <4>1 DEF ListenerInv, ListenInv, Listening
      <4> QED
        BY <1>1, <1>2, <1>3, <1>5, <3>1, <3>3, <4>3, <4>4 DEF ListenInv, Listening
    <3> QED
      BY <3>2, <3>3
  <2>2. CASE CommandFails
    <3>1. conn' = NoConn /\ timer' = TRUE
      BY <2>2 DEF CommandFails, LostConn
    <3> QED
      BY <1>1, <1>2, <1>3, <3>1, ConnTypes DEF ListenInv, Listening
  <2>3. CASE CommandCancelled
    <3>1. lst.stopping /\ UNCHANGED timer /\ (conn' = NoConn \/ conn' = conn)
      BY <2>3 DEF CommandCancelled
    <3> QED
      BY <1>1, <1>3, <1>5, <3>1, ConnTypes DEF ListenInv
  <2> QED
    BY <2>1, <2>2, <2>3
<1>7. TypeInv'
  BY <1>1, <1>2, <1>5, <1>6 DEF ListenerInv, TypeInv
<1> QED
  BY <1>2, <1>4, <1>6, <1>7 DEF ListenerInv

\* Steps that touch neither handlers nor requests nor subscribers keep what is
\* said of them.
LEMMA HandlersKept ==
    ASSUME ListenerInv, UNCHANGED <<lst, subs, queue, cur, stream>>
    PROVE  QueueInv' /\ StrandInv'
<1>1. \A i \in 1..Len(queue) : Waits(queue[i])'
  BY DEF ListenerInv, QueueInv, Waits
<1>2. cur # None => Waits(cur)'
  BY DEF ListenerInv, QueueInv, Waits
<1> QED
  BY <1>1, <1>2 DEF ListenerInv, QueueInv, StrandInv, Registered

\* The connection is lost, comes back, or carries a notification.
LEMMA ConnectionSteps ==
    ASSUME ListenerInv,
           ReaderError \/ ReconnectTimer \/ ConnBreaks \/ \E ch \in Channels : NotifyClosed(ch)
    PROVE  ListenerInv'
<1>1. UNCHANGED <<lst, subs, queue, cur, stream>>
  BY DEF ReaderError, ReconnectTimer, ConnBreaks, NotifyClosed
<1>2. QueueInv' /\ StrandInv'
  BY <1>1, HandlersKept
<1>3. conn \in ConnType /\ timer \in BOOLEAN /\ subs \in SUBSET (Streams \X Channels)
  BY DEF ListenerInv, TypeInv
<1>4. ListenInv
  BY DEF ListenerInv
<1>5. ListenInv' /\ conn' \in ConnType /\ timer' \in BOOLEAN
  <2>1. CASE ReaderError
    <3>1. conn' = NoConn /\ timer' = TRUE /\ cur = None /\ lst.up
      BY <2>1 DEF ReaderError, LostConn
    <3> QED
      BY <1>1, <1>4, <3>1, ConnTypes DEF ListenInv, Listening
  <2>2. CASE ReconnectTimer
    <3>1. lst.up /\ cur = None
      BY <2>2 DEF ReconnectTimer
    <3>2. CASE conn' = NoConn /\ timer' = TRUE
      BY <1>1, <1>4, <3>1, <3>2, ConnTypes DEF ListenInv, Listening
    <3>3. CASE subs # {} /\ Connected(subs) /\ timer' = FALSE
      <4>1. Wanted(subs) \in SUBSET Channels
        BY <1>3, WantedTypes
      <4>2. conn' \in ConnType /\ conn'.up /\ conn'.listening = Wanted(subs)
        BY <3>3, <4>1, ConnTypes DEF Connected
      <4> QED
        BY <1>1, <3>1, <3>3, <4>2 DEF ListenInv, Listening
    <3>4. CASE ~(~conn.up /\ subs # {}) /\ timer' = FALSE /\ UNCHANGED conn
      BY <1>1, <1>3, <1>4, <3>1, <3>4 DEF ListenInv, Listening
    <3> QED
      BY <2>2, <3>2, <3>3, <3>4 DEF ReconnectTimer, CannotConnect, LostConn
  <2>3. CASE ConnBreaks
    <3>1. conn' = [conn EXCEPT !.alive = FALSE] /\ UNCHANGED timer
      BY <2>3 DEF ConnBreaks
    <3>2. conn' \in ConnType /\ ~conn'.alive /\ (conn'.up <=> conn.up)
          /\ conn'.listening = conn.listening
      BY <1>3, <3>1 DEF ConnType
    <3> QED
      BY <1>1, <1>3, <1>4, <3>1, <3>2 DEF ListenInv, Listening
  <2>4. CASE \E ch \in Channels : NotifyClosed(ch)
    <3>1. UNCHANGED <<conn, timer>>
      BY <2>4 DEF NotifyClosed
    <3> QED
      BY <1>1, <1>3, <1>4, <3>1 DEF ListenInv, Listening
  <2> QED
    BY <2>1, <2>2, <2>3, <2>4
<1>6. TypeInv'
  BY <1>1, <1>5 DEF ListenerInv, TypeInv
<1> QED
  BY <1>2, <1>5, <1>6 DEF ListenerInv

\* A loop starts.
LEMMA StartStep == ListenerInv /\ Start => ListenerInv'
<1> SUFFICES ASSUME ListenerInv, Start PROVE ListenerInv'
  OBVIOUS
<1> USE DEF loopVars
<1>1. /\ ~lst.up /\ UNCHANGED <<queue, stream>> /\ UNCHANGED loopVars
      /\ lst \in [up : BOOLEAN, stopping : BOOLEAN, gen : Nat]
  BY DEF Start, ListenerInv, TypeInv
<1>2. PICK n \in Nat : n = lst.gen + 1
  <2>1. lst.gen + 1 \in Nat
    BY <1>1
  <2> QED
    BY <2>1
<1>3. lst' = [lst EXCEPT !.up = TRUE, !.gen = n]
  BY <1>2 DEF Start
<1>4. lst' \in [up : BOOLEAN, stopping : BOOLEAN, gen : Nat] /\ lst'.up
      /\ (lst'.stopping <=> lst.stopping)
  BY <1>1, <1>3
<1>5. queue = <<>> /\ cur = None /\ subs = {} /\ ~conn.up /\ (conn.alive => conn.up)
  BY <1>1 DEF ListenerInv, QueueInv, ListenInv
<1>6. TypeInv'
  BY <1>1, <1>4 DEF ListenerInv, TypeInv
<1>7. QueueInv'
  BY <1>1, <1>4, <1>5 DEF QueueInv
<1>8. ListenInv'
  BY <1>1, <1>4, <1>5 DEF ListenInv, Listening
<1>9. StrandInv'
  BY <1>1 DEF ListenerInv, StrandInv, Registered
<1> QED
  BY <1>6, <1>7, <1>8, <1>9 DEF ListenerInv

\* A loop is told to stop.
LEMMA StopStep == ListenerInv /\ Stop => ListenerInv'
<1> SUFFICES ASSUME ListenerInv, Stop PROVE ListenerInv'
  OBVIOUS
<1> USE DEF loopVars
<1>1. /\ lst.up /\ lst' = [lst EXCEPT !.stopping = TRUE]
      /\ UNCHANGED <<queue, stream>> /\ UNCHANGED loopVars
      /\ lst \in [up : BOOLEAN, stopping : BOOLEAN, gen : Nat]
  BY DEF Stop, ListenerInv, TypeInv
<1>2. lst' \in [up : BOOLEAN, stopping : BOOLEAN, gen : Nat] /\ lst'.up /\ lst'.stopping
      /\ lst'.gen = lst.gen
  BY <1>1
<1>3. TypeInv'
  BY <1>1, <1>2 DEF ListenerInv, TypeInv
<1>4. QueueInv'
  <2>1. \A i \in 1..Len(queue) : Waits(queue[i])'
    BY <1>1, <1>2 DEF ListenerInv, QueueInv, Waits
  <2>2. cur # None => Waits(cur)'
    BY <1>1, <1>2 DEF ListenerInv, QueueInv, Waits
  <2> QED
    BY <1>1, <1>2, <2>1, <2>2 DEF ListenerInv, QueueInv
<1>5. ListenInv'
  BY <1>1, <1>2 DEF ListenerInv, ListenInv
<1>6. StrandInv'
  BY <1>1 DEF ListenerInv, StrandInv, Registered
<1> QED
  BY <1>3, <1>4, <1>5, <1>6 DEF ListenerInv

\* The loop leaves: every subscriber's channel is closed.
LEMMA LoopExitStep == ListenerInv /\ LoopExit => ListenerInv'
<1> SUFFICES ASSUME ListenerInv, LoopExit PROVE ListenerInv'
  OBVIOUS
<1>1. /\ lst' = [lst EXCEPT !.up = FALSE, !.stopping = FALSE]
      /\ subs' = {} /\ conn' = NoConn /\ timer' = FALSE /\ queue' = <<>> /\ cur' = None
      /\ lst \in [up : BOOLEAN, stopping : BOOLEAN, gen : Nat]
      /\ stream \in [Streams -> StreamType]
  BY DEF LoopExit, ListenerInv, TypeInv
<1>2. lst' \in [up : BOOLEAN, stopping : BOOLEAN, gen : Nat] /\ ~lst'.up /\ ~lst'.stopping
  BY <1>1
<1>3. /\ stream' \in [Streams -> StreamType]
      /\ \A t \in Streams :
            /\ stream'[t].pc = stream[t].pc /\ stream'[t].wait = stream[t].wait
            /\ stream'[t].subscribed = stream[t].subscribed
            /\ (stream'[t].done <=> stream[t].done)
            /\ (stream'[t].closed <=> stream[t].closed \/ t \in Subscribers(subs))
  <2>1. ASSUME NEW t \in Streams
        PROVE  LET x == [stream[t] EXCEPT !.closed = stream[t].closed \/ t \in Subscribers(subs)]
               IN  /\ x \in StreamType
                   /\ x.pc = stream[t].pc /\ x.wait = stream[t].wait
                   /\ x.subscribed = stream[t].subscribed
                   /\ (x.done <=> stream[t].done)
                   /\ (x.closed <=> stream[t].closed \/ t \in Subscribers(subs))
    <3>1. PICK b \in BOOLEAN : b = (stream[t].closed \/ t \in Subscribers(subs))
      <4>1. (stream[t].closed \/ t \in Subscribers(subs)) \in BOOLEAN
        OBVIOUS
      <4> QED
        BY <4>1, Zenon
    <3>2. stream[t] \in StreamType
      BY <1>1
    <3> DEFINE y == [stream[t] EXCEPT !.closed = b]
    <3>3. /\ y \in StreamType
          /\ y.pc = stream[t].pc /\ y.wait = stream[t].wait
          /\ y.subscribed = stream[t].subscribed
          /\ (y.done <=> stream[t].done) /\ (y.closed <=> b)
      BY <3>2 DEF StreamType
    <3>4. y = [stream[t] EXCEPT !.closed = stream[t].closed \/ t \in Subscribers(subs)]
      BY <3>1, Zenon
    <3> QED
      BY <3>1, <3>3, <3>4, Zenon
  <2>2. stream' = [t \in Streams |->
                     [stream[t] EXCEPT !.closed = stream[t].closed \/ t \in Subscribers(subs)]]
    BY DEF LoopExit
  <2> QED
    BY <2>1, <2>2, Zenon
<1>4. TypeInv'
  <2>1. queue' \in Seq(Requests)
    BY <1>1
  <2> QED
    BY <1>1, <1>2, <1>3, <2>1, ConnTypes DEF ListenerInv, TypeInv
<1>5. QueueInv'
  BY <1>1, <1>2 DEF QueueInv
<1>6. ListenInv'
  BY <1>1, <1>2, ConnTypes DEF ListenInv
<1>7. StrandInv'
  <2>1. \A t \in Streams, c \in Channels : Registered(t, c) => stream'[t].closed
    <3>1. \A t \in Streams, c \in Channels : <<t, c>> \in subs => t \in Subscribers(subs)
      <4>1. \A t \in Streams, c \in Channels : <<t, c>>[1] = t
        OBVIOUS
      <4> QED
        BY <4>1, Zenon DEF Subscribers
    <3> QED
      BY <1>3, <3>1 DEF Registered
  <2>2. ASSUME NEW t \in Streams, NEW c \in stream'[t].subscribed
        PROVE  \/ Registered(t, c)'
               \/ stream'[t].pc = "wait" /\ stream'[t].wait = [op |-> "unsubscribe", ch |-> c]
    <3>1. c \in stream[t].subscribed /\ c \in Channels
      BY <1>1, <1>3 DEF StreamType
    <3>2. \/ Registered(t, c)
          \/ stream[t].pc = "wait" /\ stream[t].wait = [op |-> "unsubscribe", ch |-> c]
      BY <3>1 DEF ListenerInv, StrandInv
    <3> QED
      BY <1>3, <2>1, <3>1, <3>2 DEF Registered
  <2>3. ASSUME NEW t \in Streams,
               stream'[t].pc = "wait", stream'[t].done, stream'[t].wait.op = "subscribe"
        PROVE  stream'[t].closed
    <3>1. stream[t].wait \in WaitType /\ Registered(t, stream[t].wait.ch)
      BY <1>3, <2>3 DEF ListenerInv, TypeInv, StrandInv
    <3>2. stream[t].wait.ch \in Channels
      BY <3>1 DEF WaitType
    <3> QED
      BY <2>1, <3>1, <3>2
  <2> QED
    BY <1>1, <2>2, <2>3 DEF StrandInv, Registered
<1> QED
  BY <1>4, <1>5, <1>6, <1>7 DEF ListenerInv

\* Every step of the listener keeps the invariant.
LEMMA ListenerStep == ListenerInv /\ [Next /\ UNCHANGED scenario]_<<vars, scenario>> => ListenerInv'
<1> SUFFICES ASSUME ListenerInv, [Next /\ UNCHANGED scenario]_<<vars, scenario>>
             PROVE  ListenerInv'
  OBVIOUS
<1>1. CASE Next
  <2>1. CASE Start \/ Stop
    BY <2>1, StartStep, StopStep
  <2>2. CASE LoopStep
    BY <2>2, TakeRequestStep, CommandSteps, ConnectionSteps, LoopExitStep DEF LoopStep, OwnStep
  <2>3. CASE ConnBreaks \/ \E ch \in Channels : NotifyClosed(ch)
    BY <2>3, ConnectionSteps
  <2>4. CASE \E s \in Streams :
                \/ OpenStream(s) \/ LeaveSelect(s) \/ StreamStep(s)
                \/ \E leave, join \in SUBSET Channels : ReceiveRequest(s, leave, join)
    BY <2>4, HandlerSteps, SubmitReturnsStep DEF StreamStep
  <2> QED
    BY <1>1, <2>1, <2>2, <2>3, <2>4 DEF Next
<1>2. CASE UNCHANGED <<vars, scenario>>
  <2>1. /\ UNCHANGED <<lst, subs, queue, cur, stream>> /\ UNCHANGED <<conn, timer>>
    BY <1>2 DEF vars
  <2>2. QueueInv' /\ StrandInv'
    BY <2>1, HandlersKept
  <2>3. TypeInv' /\ ListenInv'
    BY <2>1 DEF ListenerInv, TypeInv, ListenInv, Listening
  <2> QED
    BY <2>2, <2>3 DEF ListenerInv
<1> QED
  BY <1>1, <1>2

\* The invariant of the listener.
LEMMA ListenerInvariant == Spec => []ListenerInv
BY InitInv, ListenerStep, PTL DEF Spec

\* Between requests the backend listens to exactly the channels that have
\* subscribers, or a reconnect is due: run in listener.go loses no LISTEN and no
\* UNLISTEN over any sequence of requests, lost connections and restarts.
THEOREM ListensAlwaysMatch == Spec => []ListensMatch
<1>1. ListenerInv => ListensMatch
  BY DEF ListenerInv, ListenInv, Listening, ListensMatch
<1> QED
  BY <1>1, ListenerInvariant, PTL

\* No client that was told it is subscribed is left waiting for notifications
\* that cannot come: its stream is registered with the running loop, or its
\* channel is closed.
THEOREM StreamsNeverStranded == Spec => []StreamNotStranded
<1>1. ListenerInv => StreamNotStranded
  BY DEF ListenerInv, StrandInv, StreamNotStranded, Registered
<1> QED
  BY <1>1, ListenerInvariant, PTL

=============================================================================
