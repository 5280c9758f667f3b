--------------------------- MODULE FailoverBuffer ---------------------------
(***************************************************************************)
(* The gateway's failover buffer (multigateway/buffer) and its only        *)
(* client, PoolerGateway.withBuffering.                                    *)
(*                                                                         *)
(* Two kinds of lock are held for one step each and never together, except *)
(* in Shutdown: Buffer.mu (queue, stopped) and shardBuffer.mu (state,      *)
(* generation, recent, maxDurationTimer).  Every critical section is one  *)
(* action, so what can happen between two of them is what the code allows. *)
(* withBuffering enqueues a request at most once (bufferedOnce), so the    *)
(* request also names its entry.                                           *)
(*                                                                         *)
(* Time is abstract: a deadline (Window, MinTimeBetweenFailovers,          *)
(* MaxFailoverDuration) passes in a step of its own, at any moment.        *)
(***************************************************************************)
EXTENDS Integers, FiniteSets, Sequences, Functions

CONSTANTS Requests, Shards,
          ShardOf,             \* the shard a request is routed to
          SingleQuery,         \* the requests that are single autocommit queries
          DrainConcurrency,    \* config.DrainConcurrency
          MaxBufferingRetries, \* constants.MaxBufferingRetries
          Scenarios,           \* the configurations and bounds to explore
          NoRequest

\* A scenario is the size of the buffer (config.Size, the slots of bufferSizeSema)
\* together with what may happen: which requests arrive, how often a primary
\* stops serving, whose client goes away, whether the gateway shuts down.
ScenarioType == [size : Nat \ {0}, arrive : SUBSET Requests, failovers : Nat,
                 cancel : SUBSET Requests, shutdown : BOOLEAN]

ASSUME BufferAssumption ==
    /\ ShardOf \in [Requests -> Shards]
    /\ SingleQuery \subseteq Requests
    /\ DrainConcurrency \in Nat \ {0}
    /\ MaxBufferingRetries \in Nat
    /\ Scenarios \subseteq ScenarioType
    /\ NoRequest \notin Requests

VARIABLES
    pc,          \* where withBuffering is, for each request
    attempt,     \* iterations of its loop that have begun
    retryDone,   \* its deferred retryDone: "none", "noop" or "bufferCancel"
    ctxDone,     \* requests whose client context is cancelled
    entryDone,   \* entry.done and entry.err: "open", "retry" or the eviction code
    cancelled,   \* entries whose bufferCtx is done
    queue,       \* Buffer.queue
    slots,       \* slots of bufferSizeSema in use
    shutdown,    \* progress of Shutdown; Buffer.stopped from its first step on
    state,       \* shardBuffer.state
    generation,  \* shardBuffer.generation
    recent,      \* shards whose lastEnd is within MinTimeBetweenFailovers
    timer,       \* generation the armed maxDurationTimer carries, 0 for none
    fired,       \* timer callbacks that have fired and have not run yet
    stopPc,      \* progress of the stopBuffering call that owns the shard
    entries,     \* entries extracted and not yet handed to a drain goroutine
    draining,    \* entries whose drainEntry goroutine is running
    ttPc,        \* the timeout thread
    ttHead,      \* the entry its timer is set for, or that it has popped
    notified,    \* a notification waits in notifyCh
    primary,     \* shards whose primary serves
    reports,     \* live PRIMARY/SERVING health reports not yet handled
    failovers,   \* how many times a primary has stopped serving
    scenario     \* the scenario of this behaviour, which never changes

reqVars   == <<pc, attempt, retryDone, ctxDone>>
entryVars == <<entryDone, cancelled>>
bufVars   == <<queue, slots, shutdown>>
shardVars == <<state, generation, recent, timer, fired>>
drainVars == <<stopPc, entries, draining>>
ttVars    == <<ttPc, ttHead, notified>>
envVars   == <<primary, reports, failovers>>
vars == <<reqVars, entryVars, bufVars, shardVars, drainVars, ttVars, envVars>>

Size == scenario.size
Queued == Range(queue)
Stopped == shutdown # "no"
Waiting(r) == pc[r] = "waiting"

\* The elements of q that are in S, in their order.
Keep(q, S) ==
    LET kept == {i \in DOMAIN q : q[i] \in S}
        Rank(i) == Cardinality({j \in kept : j <= i})
    IN  [k \in 1..Cardinality(kept) |-> q[CHOOSE i \in kept : Rank(i) = k]]

----------------------------------------------------------------------------
(* withBuffering: the loop around one query                                *)

Init ==
    /\ scenario \in Scenarios
    /\ pc = [r \in Requests |-> IF r \in scenario.arrive THEN "new" ELSE "returned"]
    /\ attempt = [r \in Requests |-> 0]
    /\ retryDone = [r \in Requests |-> "none"]
    /\ ctxDone = {}
    /\ entryDone = [r \in Requests |-> "open"]
    /\ cancelled = {}
    /\ queue = <<>> /\ slots = 0
    /\ shutdown = "no"
    /\ state = [s \in Shards |-> "IDLE"]
    /\ generation = [s \in Shards |-> 0]
    /\ recent = {}
    /\ timer = [s \in Shards |-> 0] /\ fired = {}
    /\ stopPc = [s \in Shards |-> "none"]
    /\ entries = [s \in Shards |-> <<>>]
    /\ draining = [s \in Shards |-> {}]
    /\ ttPc = "check" /\ ttHead = NoRequest /\ notified = FALSE
    /\ primary = Shards /\ reports = {} /\ failovers = 0

\* The request returns, its locals are gone; its deferred retryDone runs.
Return(r) ==
    /\ pc' = [pc EXCEPT ![r] = "returned"]
    /\ attempt' = [attempt EXCEPT ![r] = 0]
    /\ retryDone' = [retryDone EXCEPT ![r] = "none"]
    /\ ctxDone' = ctxDone \ {r}
    /\ cancelled' = IF retryDone[r] = "bufferCancel" THEN cancelled \cup {r} ELSE cancelled

\* The first iteration. WaitIfAlreadyBuffering never starts buffering.
WaitIfAlreadyBuffering(r) ==
    /\ pc[r] = "new"
    /\ attempt' = [attempt EXCEPT ![r] = 1]
    /\ LET s == ShardOf[r] IN
         \/ /\ r \notin SingleQuery /\ state[s] = "BUFFERING"
            /\ pc' = [pc EXCEPT ![r] = "enqueue"] /\ UNCHANGED retryDone
         \/ /\ r \notin SingleQuery /\ state[s] = "DRAINING"
            /\ retryDone' = [retryDone EXCEPT ![r] = "noop"]
            /\ pc' = [pc EXCEPT ![r] = "send"]
         \/ /\ r \in SingleQuery \/ state[s] = "IDLE"
            /\ pc' = [pc EXCEPT ![r] = "send"] /\ UNCHANGED retryDone
    /\ UNCHANGED <<ctxDone, entryVars, bufVars, shardVars, drainVars, ttVars, envVars>>

\* Mutant: the drain slot is given back after the first retry.
SendFailsReleasing(r) ==
    /\ pc[r] = "send" /\ ShardOf[r] \notin primary
    /\ attempt[r] <= MaxBufferingRetries
    /\ attempt' = [attempt EXCEPT ![r] = @ + 1]
    /\ pc' = [pc EXCEPT ![r] = IF retryDone[r] = "none" THEN "bounced" ELSE "send"]
    /\ cancelled' = IF retryDone[r] = "bufferCancel" THEN cancelled \cup {r} ELSE cancelled
    /\ UNCHANGED <<retryDone, ctxDone, entryDone, bufVars, shardVars, drainVars, ttVars, envVars>>

\* getConnection and the query itself, against the primary as it is now. An
\* error that classifyError buffers starts the next iteration, if one is left.
SendFails(r) ==
    /\ pc[r] = "send" /\ ShardOf[r] \notin primary
    /\ attempt[r] <= MaxBufferingRetries
    /\ attempt' = [attempt EXCEPT ![r] = @ + 1]
    /\ pc' = [pc EXCEPT ![r] = IF retryDone[r] = "none" THEN "bounced" ELSE "send"]
    /\ UNCHANGED <<retryDone, ctxDone, entryVars, bufVars, shardVars, drainVars, ttVars, envVars>>

\* A result, an error that is not buffered (the client's own cancellation
\* included) or the last bounce: the request returns.
SendReturns(r) ==
    /\ pc[r] = "send"
    /\ Return(r)
    /\ UNCHANGED <<entryDone, bufVars, shardVars, drainVars, ttVars, envVars>>

Send(r) == SendFails(r) \/ SendReturns(r)

\* The critical section of waitForFailoverEnd. IDLE starts buffering and arms
\* the max-duration timer with the new generation, unless the last failover
\* ended too recently.
WaitForFailoverEnd(r) ==
    /\ pc[r] = "bounced"
    /\ LET s == ShardOf[r] IN
         \/ /\ state[s] = "DRAINING"
            /\ retryDone' = [retryDone EXCEPT ![r] = "noop"]
            /\ pc' = [pc EXCEPT ![r] = "send"]
            /\ UNCHANGED <<state, generation, timer>>
         \/ /\ state[s] = "IDLE" /\ s \in recent
            /\ pc' = [pc EXCEPT ![r] = "send"]
            /\ UNCHANGED <<retryDone, state, generation, timer>>
         \/ /\ state[s] = "IDLE" /\ s \notin recent
            /\ state' = [state EXCEPT ![s] = "BUFFERING"]
            /\ generation' = [generation EXCEPT ![s] = @ + 1]
            /\ timer' = [timer EXCEPT ![s] = generation[s] + 1]
            /\ pc' = [pc EXCEPT ![r] = "enqueue"]
            /\ UNCHANGED retryDone
         \/ /\ state[s] = "BUFFERING"
            /\ pc' = [pc EXCEPT ![r] = "enqueue"]
            /\ UNCHANGED <<retryDone, state, generation, timer>>
    /\ UNCHANGED <<attempt, ctxDone, entryVars, bufVars, recent, fired, drainVars, ttVars,
                   envVars>>

----------------------------------------------------------------------------
(* The global queue (under Buffer.mu)                                      *)

\* notify: only when the queue stops being empty, since the timeout thread
\* watches the head alone. Mutant: never.
NotifyNever(q) == notified
Notify(q) == notified \/ Len(q) = 1

\* enqueue evicts the oldest entry when no slot is free; that entry's slot
\* passes to the new one. With every slot held by a drain, the request fails.
Enqueue(r) ==
    /\ pc[r] = "enqueue"
    /\ \/ /\ Stopped \/ (slots = Size /\ queue = <<>>)
          /\ Return(r)
          /\ UNCHANGED <<entryDone, queue, slots, notified>>
       \/ /\ ~Stopped /\ (slots < Size \/ queue # <<>>)
          /\ pc' = [pc EXCEPT ![r] = "waiting"]
          /\ IF slots < Size
             THEN /\ slots' = slots + 1
                  /\ queue' = Append(queue, r)
                  /\ UNCHANGED entryDone
             ELSE /\ entryDone' = [entryDone EXCEPT ![Head(queue)] = "MTB01"]
                  /\ queue' = Append(Tail(queue), r)
                  /\ UNCHANGED slots
          /\ notified' = Notify(queue')
          /\ UNCHANGED <<attempt, retryDone, ctxDone, cancelled>>
    /\ UNCHANGED <<shutdown, shardVars, drainVars, ttPc, ttHead, envVars>>

\* waitOnEntry: the done channel is closed. An error is returned; otherwise
\* the caller retries, and retryDone is held until withBuffering returns.
WakeUp(r) ==
    /\ Waiting(r) /\ entryDone[r] # "open"
    /\ IF entryDone[r] = "retry"
       THEN /\ pc' = [pc EXCEPT ![r] = "send"]
            /\ retryDone' = [retryDone EXCEPT ![r] = "bufferCancel"]
            /\ UNCHANGED <<attempt, ctxDone, cancelled>>
       ELSE Return(r)
    /\ UNCHANGED <<entryDone, bufVars, shardVars, drainVars, ttVars, envVars>>

\* The slot removeEntry gives back. Mutant: without looking for the entry.
SlotsAfterRemovalAlways(r) == slots - 1
SlotsAfterRemoval(r) == IF r \in Queued THEN slots - 1 ELSE slots

\* e.bufferCancel, for a drain that already holds the entry. Mutant: forgotten.
BufferCancelForgotten(r) == cancelled
BufferCancel(r) == cancelled \cup {r}

\* waitOnEntry: the client's context is done (select may take this branch even
\* when done is closed as well). removeEntry releases the slot only of an
\* entry that is still queued.
CancelWait(r) ==
    /\ Waiting(r) /\ r \in ctxDone
    /\ pc' = [pc EXCEPT ![r] = "returned"]
    /\ attempt' = [attempt EXCEPT ![r] = 0]
    /\ ctxDone' = ctxDone \ {r}
    /\ queue' = Keep(queue, Requests \ {r})
    /\ slots' = SlotsAfterRemoval(r)
    /\ cancelled' = BufferCancel(r)
    /\ UNCHANGED <<retryDone, entryDone, shutdown, shardVars, drainVars, ttVars, envVars>>

----------------------------------------------------------------------------
(* stopBuffering: a health report (gen 0) or the timer callback of gen g   *)

\* A timer callback is for one failover. Mutant: for whichever is running.
ForGenerationAny(s, g) == TRUE
ForGeneration(s, g) == generation[s] = g

Stop(s) ==
    /\ state' = [state EXCEPT ![s] = "DRAINING"]
    /\ recent' = recent \cup {s}
    /\ timer' = [timer EXCEPT ![s] = 0]
    /\ stopPc' = [stopPc EXCEPT ![s] = "extract"]

StopBuffering(s) ==
    /\ s \in reports
    /\ reports' = reports \ {s}
    /\ IF state[s] = "BUFFERING" THEN Stop(s) ELSE UNCHANGED <<state, recent, timer, stopPc>>
    /\ UNCHANGED <<reqVars, entryVars, bufVars, generation, fired, entries, draining, ttVars,
                   primary, failovers>>

TimerFires(s) ==
    /\ timer[s] # 0
    /\ fired' = fired \cup {<<s, timer[s]>>}
    /\ timer' = [timer EXCEPT ![s] = 0]
    /\ UNCHANGED <<reqVars, entryVars, bufVars, state, generation, recent, drainVars, ttVars,
                   envVars>>

MaxDurationExceeded(s, g) ==
    /\ <<s, g>> \in fired
    /\ fired' = fired \ {<<s, g>>}
    /\ IF state[s] = "BUFFERING" /\ ForGeneration(s, g)
       THEN Stop(s) ELSE UNCHANGED <<state, recent, timer, stopPc>>
    /\ UNCHANGED <<reqVars, entryVars, bufVars, generation, entries, draining, ttVars, envVars>>

\* drainEntriesForShard, under Buffer.mu but no longer under shardBuffer.mu.
DrainEntriesForShard(s) ==
    /\ stopPc[s] = "extract"
    /\ entries' = [entries EXCEPT ![s] = Keep(queue, {e \in Requests : ShardOf[e] = s})]
    /\ queue' = Keep(queue, {e \in Requests : ShardOf[e] # s})
    /\ stopPc' = [stopPc EXCEPT ![s] = "launch"]
    /\ UNCHANGED <<reqVars, entryVars, slots, shutdown, shardVars, draining, ttVars, envVars>>

\* Nothing to drain: straight back to IDLE; otherwise drainWg.Go.
LaunchDrain(s) ==
    /\ stopPc[s] = "launch"
    /\ IF entries[s] = <<>>
       THEN /\ state' = [state EXCEPT ![s] = "IDLE"]
            /\ stopPc' = [stopPc EXCEPT ![s] = "none"]
       ELSE stopPc' = [stopPc EXCEPT ![s] = "running"] /\ UNCHANGED state
    /\ UNCHANGED <<reqVars, entryVars, bufVars, generation, recent, timer, fired, entries,
                   draining, ttVars, envVars>>

\* drainEntry: take one of the DrainConcurrency slots and close done ...
DrainEntry(s) ==
    /\ stopPc[s] = "running" /\ entries[s] # <<>>
    /\ Cardinality(draining[s]) < DrainConcurrency
    /\ entryDone' = [entryDone EXCEPT ![Head(entries[s])] = "retry"]
    /\ draining' = [draining EXCEPT ![s] = @ \cup {Head(entries[s])}]
    /\ entries' = [entries EXCEPT ![s] = Tail(@)]
    /\ UNCHANGED <<reqVars, cancelled, bufVars, shardVars, stopPc, ttVars, envVars>>

\* ... and give both slots back once the retry is over.
DrainEntryDone(s, r) ==
    /\ r \in draining[s] /\ r \in cancelled
    /\ draining' = [draining EXCEPT ![s] = @ \ {r}]
    /\ slots' = slots - 1
    /\ UNCHANGED <<reqVars, entryVars, queue, shutdown, shardVars, stopPc, entries, ttVars,
                   envVars>>

DrainComplete(s) ==
    /\ stopPc[s] = "running" /\ entries[s] = <<>> /\ draining[s] = {}
    /\ state' = [state EXCEPT ![s] = "IDLE"]
    /\ stopPc' = [stopPc EXCEPT ![s] = "none"]
    /\ UNCHANGED <<reqVars, entryVars, bufVars, generation, recent, timer, fired, entries,
                   draining, ttVars, envVars>>

----------------------------------------------------------------------------
(* The timeout thread: it watches the head of the queue only, and is told  *)
(* of a queue that was empty and no longer is.                             *)

TTCheck ==
    /\ ttPc = "check"
    /\ IF queue = <<>> THEN ttPc' = "empty" /\ UNCHANGED ttHead
                       ELSE ttPc' = "armed" /\ ttHead' = Head(queue)
    /\ UNCHANGED <<reqVars, entryVars, bufVars, shardVars, drainVars, notified, envVars>>

TTNotified ==
    /\ ttPc \in {"empty", "armed"} /\ notified
    /\ notified' = FALSE /\ ttPc' = "check" /\ ttHead' = NoRequest
    /\ UNCHANGED <<reqVars, entryVars, bufVars, shardVars, drainVars, envVars>>

\* The queue without its expired head. Mutant: the head is left in place.
PoppedQueueKept == queue
PoppedQueue == Tail(queue)

\* evictHead: the deadline of the entry the timer was set for has passed. The
\* head may be another entry by now, whose deadline may not have passed.
TTPopHead ==
    /\ ttPc = "armed" /\ queue # <<>>
    /\ ttPc' = "evicting" /\ ttHead' = Head(queue) /\ queue' = PoppedQueue
    /\ UNCHANGED <<reqVars, entryVars, slots, shutdown, shardVars, drainVars, notified, envVars>>

TTRecheck ==
    /\ ttPc = "armed" /\ ttHead \notin Queued
    /\ ttPc' = "check" /\ ttHead' = NoRequest
    /\ UNCHANGED <<reqVars, entryVars, bufVars, shardVars, drainVars, notified, envVars>>

\* The rest of evictHead runs without Buffer.mu.
TTRelease ==
    /\ ttPc = "evicting"
    /\ slots' = slots - 1
    /\ ttPc' = "closing"
    /\ UNCHANGED <<reqVars, entryVars, queue, shutdown, shardVars, drainVars, ttHead, notified,
                   envVars>>

TTClose ==
    /\ ttPc = "closing"
    /\ entryDone' = [entryDone EXCEPT ![ttHead] = "MTB02"]
    /\ ttPc' = "check" /\ ttHead' = NoRequest
    /\ UNCHANGED <<reqVars, cancelled, bufVars, shardVars, drainVars, notified, envVars>>

TTStop ==
    /\ ttPc \in {"empty", "armed"} /\ shutdown = "done"
    /\ ttPc' = "stopped" /\ ttHead' = NoRequest
    /\ UNCHANGED <<reqVars, entryVars, bufVars, shardVars, drainVars, notified, envVars>>

----------------------------------------------------------------------------
(* Shutdown                                                                *)

\* The section under Buffer.mu: every queued entry is evicted (its slot is not
\* released), timers are stopped and BUFFERING shards are forced to IDLE.
ShutdownStart ==
    /\ scenario.shutdown /\ shutdown = "no"
    /\ shutdown' = "cancel"
    /\ entryDone' = [r \in Requests |-> IF r \in Queued THEN "MTB03" ELSE entryDone[r]]
    /\ queue' = <<>>
    /\ timer' = [s \in Shards |-> 0]
    /\ state' = [s \in Shards |-> IF state[s] = "BUFFERING" THEN "IDLE" ELSE state[s]]
    /\ UNCHANGED <<reqVars, cancelled, slots, generation, recent, fired, drainVars, ttVars,
                   envVars>>

\* b.cancel: every entry's bufferCtx descends from the buffer's context.
ShutdownCancel ==
    /\ shutdown = "cancel"
    /\ shutdown' = "wait"
    /\ cancelled' = Requests
    /\ UNCHANGED <<reqVars, entryDone, queue, slots, shardVars, drainVars, ttVars, envVars>>

\* drainWg.Wait for every shard, then timeoutThread.stop.
ShutdownWait ==
    /\ shutdown = "wait" /\ \A s \in Shards : stopPc[s] # "running"
    /\ shutdown' = "done"
    /\ UNCHANGED <<reqVars, entryVars, queue, slots, shardVars, drainVars, ttVars, envVars>>

----------------------------------------------------------------------------
(* The environment: primaries, health reports, clients and clocks          *)

PrimaryStops(s) ==
    /\ s \in primary /\ failovers < scenario.failovers
    /\ primary' = primary \ {s} /\ failovers' = failovers + 1
    /\ UNCHANGED <<reqVars, entryVars, bufVars, shardVars, drainVars, ttVars, reports>>

PrimaryServes(s) ==
    /\ s \notin primary
    /\ primary' = primary \cup {s}
    /\ UNCHANGED <<reqVars, entryVars, bufVars, shardVars, drainVars, ttVars, reports, failovers>>

\* The elected primary's health stream carries PRIMARY/SERVING; the report is
\* handled later, when it may be stale.
HealthReport(s) ==
    /\ s \in primary \ reports
    /\ reports' = reports \cup {s}
    /\ UNCHANGED <<reqVars, entryVars, bufVars, shardVars, drainVars, ttVars, primary, failovers>>

ClientCancels(r) ==
    /\ Waiting(r) /\ r \in scenario.cancel \ ctxDone
    /\ ctxDone' = ctxDone \cup {r}
    /\ UNCHANGED <<pc, attempt, retryDone, entryVars, bufVars, shardVars, drainVars, ttVars,
                   envVars>>

GapElapses(s) ==
    /\ s \in recent
    /\ recent' = recent \ {s}
    /\ UNCHANGED <<reqVars, entryVars, bufVars, state, generation, timer, fired, drainVars,
                   ttVars, envVars>>

Next ==
    \/ \E r \in Requests :
          \/ WaitIfAlreadyBuffering(r) \/ Send(r)
          \/ WaitForFailoverEnd(r) \/ Enqueue(r) \/ WakeUp(r) \/ CancelWait(r)
          \/ ClientCancels(r)
    \/ \E s \in Shards :
          \/ StopBuffering(s) \/ TimerFires(s)
          \/ \E g \in 1..generation[s] : MaxDurationExceeded(s, g)
          \/ DrainEntriesForShard(s) \/ LaunchDrain(s) \/ DrainEntry(s) \/ DrainComplete(s)
          \/ \E r \in Requests : DrainEntryDone(s, r)
          \/ PrimaryStops(s) \/ PrimaryServes(s) \/ HealthReport(s) \/ GapElapses(s)
    \/ TTCheck \/ TTNotified \/ TTPopHead \/ TTRecheck \/ TTRelease \/ TTClose \/ TTStop
    \/ ShutdownStart \/ ShutdownCancel \/ ShutdownWait

Spec == Init /\ [][Next /\ UNCHANGED scenario]_<<vars, scenario>>

\* Goroutines run, queries return and clocks advance. Nothing is assumed of
\* primaries, health reports, clients or of Shutdown being called.
Fairness ==
    /\ \A r \in Requests :
          /\ WF_vars(WaitIfAlreadyBuffering(r)) /\ WF_vars(Send(r))
          /\ WF_vars(WaitForFailoverEnd(r)) /\ WF_vars(Enqueue(r))
          /\ WF_vars(WakeUp(r))
    /\ \A s \in Shards :
          /\ WF_vars(TimerFires(s))
          /\ WF_vars(\E g \in 1..generation[s] : MaxDurationExceeded(s, g))
          /\ WF_vars(DrainEntriesForShard(s)) /\ WF_vars(LaunchDrain(s))
          /\ WF_vars(DrainEntry(s)) /\ WF_vars(DrainComplete(s))
          /\ \A r \in Requests : WF_vars(DrainEntryDone(s, r))
    /\ WF_vars(TTCheck) /\ WF_vars(TTNotified) /\ WF_vars(TTPopHead \/ TTRecheck)
    /\ WF_vars(TTRelease) /\ WF_vars(TTClose)
    /\ WF_vars(ShutdownCancel) /\ WF_vars(ShutdownWait)

FairSpec == Spec /\ Fairness

----------------------------------------------------------------------------
(* Properties                                                              *)

\* The entry the timeout thread has popped and not closed yet.
Popped == IF ttPc \in {"evicting", "closing"} THEN {ttHead} ELSE {}

\* The entries stopBuffering has taken out of the queue.
Extracted(s) == Range(entries[s])

\* The entries whose done channel somebody has yet to close.
Owned == Queued \cup Popped \cup UNION {Extracted(s) : s \in Shards}

\* The entries that hold a slot: they wait, are drained or retried, or the timeout
\* thread is about to release them.
Held ==
    Queued \cup (IF ttPc = "evicting" THEN {ttHead} ELSE {})
           \cup UNION {Extracted(s) \cup draining[s] : s \in Shards}

\* The types of the queue, of the shard state machines and of the requests. That
\* slots is never negative is what SlotsAccounted says.
BufferTypeOK ==
    /\ pc \in [Requests -> {"new", "send", "bounced", "enqueue", "waiting", "returned"}]
    /\ attempt \in [Requests -> 0..MaxBufferingRetries + 1]
    /\ retryDone \in [Requests -> {"none", "noop", "bufferCancel"}] /\ ctxDone \subseteq Requests
    /\ entryDone \in [Requests -> {"open", "retry", "MTB01", "MTB02", "MTB03"}]
    /\ cancelled \subseteq Requests
    /\ queue \in Seq(Requests) /\ slots \in Int
    /\ shutdown \in {"no", "cancel", "wait", "done"}
    /\ state \in [Shards -> {"IDLE", "BUFFERING", "DRAINING"}]
    /\ generation \in [Shards -> Nat] /\ timer \in [Shards -> Nat]
    /\ recent \subseteq Shards
    /\ fired \subseteq Shards \X Nat
    /\ stopPc \in [Shards -> {"none", "extract", "launch", "running"}]
    /\ entries \in [Shards -> Seq(Requests)] /\ draining \in [Shards -> SUBSET Requests]
    /\ ttPc \in {"check", "empty", "armed", "evicting", "closing", "stopped"}
    /\ ttHead \in Requests \cup {NoRequest} /\ notified \in BOOLEAN
    /\ primary \subseteq Shards /\ reports \subseteq Shards /\ failovers \in 0..scenario.failovers

\* The semaphore counts exactly the entries that hold a slot, whatever
\* cancellations, evictions and drains race: the buffer never holds more than Size
\* requests, never releases a slot it does not hold (the semaphore would panic)
\* and loses none before Shutdown.
SlotsAccounted ==
    /\ slots <= Size /\ Cardinality(Held) <= slots
    /\ ~Stopped => slots = Cardinality(Held)

\* An entry has one owner (the queue, one drain or the timeout thread) and its
\* owner finds done open: no race of eviction, timeout, drain and Shutdown
\* closes the channel a second time (which would panic) or loses a waiter.
OneOwner ==
    /\ IsInjective(queue) /\ Queued \cap Popped = {}
    /\ \A s \in Shards :
          /\ IsInjective(entries[s]) /\ Extracted(s) \cap (Queued \cup Popped) = {}
          /\ \A t \in Shards \ {s} : Extracted(s) \cap Extracted(t) = {}
          /\ \A r \in draining[s] : entryDone[r] = "retry" /\ ShardOf[r] = s
    /\ \A r \in Owned : entryDone[r] = "open"
    /\ \A r \in Requests : Waiting(r) /\ entryDone[r] = "open" => r \in Owned

\* DrainConcurrency bounds how many drained requests hit the new primary at
\* once, through all their retries, until Shutdown cancels them.
DrainBackpressure ==
    \A s \in Shards : shutdown \in {"no", "cancel"} =>
        Cardinality({r \in Requests : pc[r] = "send" /\ ShardOf[r] = s /\ retryDone[r] = "bufferCancel"}) <= DrainConcurrency

\* Buffering of a shard ends early only for a cause of its own: a report of a
\* serving primary, the max-duration timer of this very failover, or Shutdown.
\* A callback that was already running when its failover ended, and is run
\* after the next one began, does not cut the next one short.
BufferingEndsForCause ==
    [][\A s \in Shards : state[s] = "BUFFERING" /\ state'[s] # "BUFFERING" =>
          \/ s \in reports /\ s \notin reports'
          \/ <<s, generation[s]>> \in fired /\ <<s, generation[s]>> \notin fired'
          \/ shutdown' # shutdown]_vars

\* No request is left waiting: each is answered, by a retry, an eviction, its
\* deadline or Shutdown. (The timeout thread is only notified of a queue that
\* was empty, so a lost notification would leave a whole queue waiting.)
EveryRequestAnswered == \A r \in Requests : (pc[r] = "enqueue") ~> pc[r] = "returned"

\* A failover's buffering always comes to an end and the shard is IDLE again.
ShardReturnsToIdle == \A s \in Shards : (state[s] # "IDLE") ~> (state[s] = "IDLE")

-----------------------------------------------------------------------------
(* What comments and docs say and the code does not do.  None of these     *)
(* holds: see "Observations" in the README.                               *)

\* A shard returns to IDLE when all its entries have been retried
\* (docs/query_serving/failover_buffering.md: "DRAINING -> IDLE, all entries
\* retried"): no entry waits for a shard that is not failing over.
IdleShardHoldsNoEntry == \A r \in Queued : state[ShardOf[r]] # "IDLE"

\* Shutdown "waits for any in-flight drain goroutines to complete before
\* returning" (buffer.go).
NoDrainOutlivesShutdown == shutdown = "done" => \A s \in Shards : stopPc[s] # "running"
============================================================================
