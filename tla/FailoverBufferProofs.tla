------------------------ MODULE FailoverBufferProofs ------------------------
(***************************************************************************)
(* The failover buffer for any number of requests and shards, any size,    *)
(* drain concurrency and number of failovers.  Ownership comes first: an   *)
(* entry is in one place only and its done channel is open there.  The     *)
(* semaphore's count and the drain's backpressure then follow from what    *)
(* each step does to the set of entries that hold a slot.                  *)
(***************************************************************************)
EXTENDS FailoverBuffer, FiniteSetTheorems, SequenceTheorems, TLAPS

-----------------------------------------------------------------------------
\* The queue operations.

\* Ranks number the kept positions from 1 to their number.
LEMMA RankOnto ==
  ASSUME NEW n \in Nat, NEW K \in SUBSET (1..n)
  PROVE  LET rank == [i \in K |-> Cardinality({j \in K : j <= i})]
         IN  /\ IsFiniteSet(K) /\ Cardinality(K) \in Nat
             /\ rank \in [K -> 1..Cardinality(K)]
             /\ \A k \in 1..Cardinality(K) : \E i \in K : rank[i] = k
             /\ \A i, j \in K : rank[i] = rank[j] => i = j
<1> DEFINE Upto(i) == {j \in K : j <= i}
           rank == [i \in K |-> Cardinality(Upto(i))]
<1>1. IsFiniteSet(K) /\ Cardinality(K) \in Nat
  <2>1. IsFiniteSet(1..n)
    BY FS_Interval
  <2> QED
    BY <2>1, FS_Subset, FS_CardinalityType
<1>2. ASSUME NEW i \in K
      PROVE  /\ IsFiniteSet(Upto(i))
             /\ Cardinality(Upto(i)) \in 1..Cardinality(K)
  <2>1. Upto(i) \in SUBSET K /\ i \in Upto(i)
    OBVIOUS
  <2>2. IsFiniteSet(Upto(i)) /\ Cardinality(Upto(i)) <= Cardinality(K)
    BY <1>1, <2>1, FS_Subset
  <2>3. Cardinality(Upto(i)) \in Nat /\ Cardinality(Upto(i)) # 0
    BY <2>1, <2>2, FS_CardinalityType, FS_EmptySet
  <2> QED
    BY <1>1, <2>2, <2>3
<1>3. ASSUME NEW i \in K, NEW j \in K, i < j
      PROVE  Cardinality(Upto(i)) # Cardinality(Upto(j))
  <2>1. \A k \in K : k <= i => k <= j
    BY <1>3
  <2>2. j <= j /\ ~(j <= i)
    BY <1>3
  <2>3. Upto(i) \in SUBSET Upto(j) /\ j \in Upto(j) /\ j \notin Upto(i)
    BY <2>1, <2>2
  <2> QED
    BY <1>2, <2>3, FS_Subset
<1>4. \A i, j \in K : rank[i] = rank[j] => i = j
  <2> SUFFICES ASSUME NEW i \in K, NEW j \in K, i # j PROVE rank[i] # rank[j]
    OBVIOUS
  <2>1. i < j \/ j < i
    OBVIOUS
  <2> QED
    BY <1>3, <2>1
<1>5. rank \in Injection(K, 1..Cardinality(K))
  BY <1>2, <1>4 DEF Injection, IsInjective
<1>6. rank \in Surjection(K, 1..Cardinality(K))
  <2>1. IsFiniteSet(1..Cardinality(K)) /\ Cardinality(1..Cardinality(K)) = Cardinality(K)
    BY <1>1, FS_Interval
  <2> QED
    BY <1>5, <2>1, FS_Injection
<1> QED
  BY <1>1, <1>4, <1>5, <1>6 DEF Injection, Surjection

\* Filtering a sequence keeps exactly the elements of the set, each as often as it
\* was there.
LEMMA KeepElements ==
  ASSUME NEW R, NEW q \in Seq(R), NEW S
  PROVE  /\ Keep(q, S) \in Seq(R)
         /\ Range(Keep(q, S)) = Range(q) \cap S
         /\ IsInjective(q) => IsInjective(Keep(q, S))
<1> DEFINE kept == {i \in DOMAIN q : q[i] \in S}
           Rank(i) == Cardinality({j \in kept : j <= i})
           At(k) == CHOOSE i \in kept : Rank(i) = k
           n == Cardinality(kept)
           t == Keep(q, S)
<1>1. DOMAIN q = 1..Len(q) /\ Len(q) \in Nat /\ kept \in SUBSET (1..Len(q))
  OBVIOUS
<1> HIDE DEF kept
<1>2. /\ n \in Nat
      /\ \A i \in kept : Rank(i) \in 1..n
      /\ \A k \in 1..n : \E i \in kept : Rank(i) = k
      /\ \A i, j \in kept : Rank(i) = Rank(j) => i = j
  <2> DEFINE rank == [i \in kept |-> Cardinality({j \in kept : j <= i})]
  <2>1. /\ n \in Nat /\ rank \in [kept -> 1..n]
        /\ \A k \in 1..n : \E i \in kept : rank[i] = k
        /\ \A i, j \in kept : rank[i] = rank[j] => i = j
    BY <1>1, RankOnto
  <2>2. \A i \in kept : rank[i] = Rank(i)
    OBVIOUS
  <2> HIDE DEF rank, Rank
  <2> QED
    BY <2>1, <2>2
<1> HIDE DEF Rank
<1>3. \A k \in 1..n : At(k) \in kept /\ Rank(At(k)) = k
  BY <1>2
<1>4. \A i \in kept : At(Rank(i)) = i
  BY <1>2, <1>3
<1>5. t = [k \in 1..n |-> q[At(k)]]
  BY DEF Keep, kept, Rank
<1> HIDE DEF n, t, At
<1>6. \A i \in kept : q[i] \in S /\ q[i] \in R /\ i \in DOMAIN q
  BY <1>1 DEF kept
<1>7. t \in Seq(R) /\ DOMAIN t = 1..n /\ \A k \in 1..n : t[k] = q[At(k)]
  BY <1>2, <1>3, <1>5, <1>6
<1>8. Range(t) = Range(q) \cap S
  <2>1. ASSUME NEW x \in Range(t) PROVE x \in Range(q) \cap S
    BY <1>3, <1>6, <1>7 DEF Range
  <2>2. ASSUME NEW x \in Range(q) \cap S PROVE x \in Range(t)
    <3>1. PICK i \in DOMAIN q : x = q[i]
      BY DEF Range
    <3>2. i \in kept
      BY <3>1 DEF kept
    <3>3. Rank(i) \in 1..n /\ t[Rank(i)] = x
      BY <1>2, <1>4, <1>7, <3>1, <3>2
    <3> QED
      BY <1>7, <3>3 DEF Range
  <2> QED
    BY <2>1, <2>2
<1>9. ASSUME IsInjective(q) PROVE IsInjective(t)
  <2> SUFFICES ASSUME NEW k \in 1..n, NEW l \in 1..n, t[k] = t[l] PROVE k = l
    BY <1>7 DEF IsInjective
  <2>1. At(k) = At(l)
    BY <1>3, <1>6, <1>7, <1>9 DEF IsInjective
  <2> QED
    BY <1>3, <2>1
<1> QED
  BY <1>7, <1>8, <1>9 DEF t

\* Appending a new element.
LEMMA AppendElements ==
  ASSUME NEW R, NEW q \in Seq(R), NEW x \in R
  PROVE  /\ Append(q, x) \in Seq(R)
         /\ Range(Append(q, x)) = Range(q) \cup {x}
         /\ IsInjective(q) /\ x \notin Range(q) => IsInjective(Append(q, x))
<1> DEFINE t == Append(q, x)
<1>1. /\ t \in Seq(R) /\ Len(t) = Len(q) + 1 /\ Len(q) \in Nat
      /\ DOMAIN q = 1..Len(q) /\ DOMAIN t = 1..(Len(q) + 1)
      /\ \A i \in 1..Len(q) : t[i] = q[i]
      /\ t[Len(q) + 1] = x
  BY AppendProperties
<1> HIDE DEF t
<1>2. Range(t) = Range(q) \cup {x}
  <2>1. Range(t) \subseteq Range(q) \cup {x}
    BY <1>1 DEF Range
  <2>2. Range(q) \subseteq Range(t)
    BY <1>1 DEF Range
  <2>3. x \in Range(t)
    BY <1>1 DEF Range
  <2> QED
    BY <2>1, <2>2, <2>3
<1>3. ASSUME IsInjective(q), x \notin Range(q) PROVE IsInjective(t)
  <2> SUFFICES ASSUME NEW i \in DOMAIN t, NEW j \in DOMAIN t, t[i] = t[j], i # j PROVE FALSE
    BY DEF IsInjective
  <2>1. \A k \in 1..Len(q) : q[k] # x
    BY <1>1, <1>3 DEF Range
  <2> QED
    BY <1>1, <1>3, <2>1 DEF IsInjective
<1> QED
  BY <1>1, <1>2, <1>3 DEF t

\* Taking the head off.
LEMMA TailElements ==
  ASSUME NEW R, NEW q \in Seq(R), q # <<>>, IsInjective(q)
  PROVE  /\ Tail(q) \in Seq(R) /\ Head(q) \in Range(q) /\ Head(q) \in R
         /\ Range(Tail(q)) = Range(q) \ {Head(q)}
         /\ IsInjective(Tail(q))
<1> DEFINE t == Tail(q)
<1>1. /\ t \in Seq(R) /\ Len(q) \in Nat \ {0} /\ Len(t) = Len(q) - 1
      /\ DOMAIN q = 1..Len(q) /\ DOMAIN t = 1..(Len(q) - 1)
      /\ \A i \in 1..(Len(q) - 1) : t[i] = q[i + 1]
      /\ Head(q) = q[1] /\ Head(q) \in R
  BY HeadTailProperties
<1> HIDE DEF t
<1>2. Head(q) \in Range(q)
  BY <1>1 DEF Range
<1>3. Range(t) = Range(q) \ {Head(q)}
  <2>1. ASSUME NEW y \in Range(t) PROVE y \in Range(q) \ {Head(q)}
    <3>1. PICK i \in 1..(Len(q) - 1) : y = q[i + 1]
      BY <1>1 DEF Range
    <3>2. i + 1 \in DOMAIN q /\ 1 \in DOMAIN q /\ i + 1 # 1
      BY <1>1
    <3> QED
      BY <1>1, <3>1, <3>2 DEF Range, IsInjective
  <2>2. ASSUME NEW y \in Range(q) \ {Head(q)} PROVE y \in Range(t)
    <3>1. PICK i \in DOMAIN q : y = q[i]
      BY DEF Range
    <3>2. i - 1 \in DOMAIN t /\ t[i - 1] = y
      BY <1>1, <3>1
    <3> QED
      BY <3>2 DEF Range
  <2> QED
    BY <2>1, <2>2
<1>4. IsInjective(t)
  <2> SUFFICES ASSUME NEW i \in DOMAIN t, NEW j \in DOMAIN t, t[i] = t[j] PROVE i = j
    BY DEF IsInjective
  <2>1. i + 1 \in DOMAIN q /\ j + 1 \in DOMAIN q /\ q[i + 1] = q[j + 1]
    BY <1>1
  <2>2. i + 1 = j + 1
    BY <2>1 DEF IsInjective
  <2> QED
    BY <1>1, <2>2
<1> QED
  BY <1>1, <1>2, <1>3, <1>4 DEF t
-----------------------------------------------------------------------------
\* Types, by the groups of variables that change together.

RequestTypes ==
  /\ pc \in [Requests -> {"new", "send", "bounced", "enqueue", "waiting", "returned"}]
  /\ attempt \in [Requests -> 0..MaxBufferingRetries + 1]
  /\ retryDone \in [Requests -> {"none", "noop", "bufferCancel"}] /\ ctxDone \subseteq Requests

EntryTypes ==
  /\ entryDone \in [Requests -> {"open", "retry", "MTB01", "MTB02", "MTB03"}]
  /\ cancelled \subseteq Requests

QueueTypes ==
  /\ queue \in Seq(Requests) /\ slots \in Int
  /\ shutdown \in {"no", "cancel", "wait", "done"}

ShardTypes ==
  /\ state \in [Shards -> {"IDLE", "BUFFERING", "DRAINING"}]
  /\ generation \in [Shards -> Nat] /\ timer \in [Shards -> Nat]
  /\ recent \subseteq Shards /\ fired \subseteq Shards \X Nat

DrainTypes ==
  /\ stopPc \in [Shards -> {"none", "extract", "launch", "running"}]
  /\ entries \in [Shards -> Seq(Requests)] /\ draining \in [Shards -> SUBSET Requests]

ThreadTypes ==
  /\ ttPc \in {"check", "empty", "armed", "evicting", "closing", "stopped"}
  /\ ttHead \in Requests \cup {NoRequest} /\ notified \in BOOLEAN

WorldTypes ==
  /\ primary \subseteq Shards /\ reports \subseteq Shards /\ failovers \in 0..scenario.failovers
  /\ scenario \in ScenarioType

TypeInv ==
  /\ RequestTypes /\ EntryTypes /\ QueueTypes /\ ShardTypes /\ DrainTypes /\ ThreadTypes
  /\ WorldTypes

\* A step of the system; the scenario never changes.
Step == Next /\ UNCHANGED scenario

\* A group that does not change keeps its types.
LEMMA TypeFrames ==
  ASSUME TypeInv, UNCHANGED scenario
  PROVE  /\ UNCHANGED reqVars => RequestTypes'
         /\ UNCHANGED entryVars => EntryTypes'
         /\ UNCHANGED bufVars => QueueTypes'
         /\ UNCHANGED shardVars => ShardTypes'
         /\ UNCHANGED drainVars => DrainTypes'
         /\ UNCHANGED ttVars => ThreadTypes'
         /\ UNCHANGED envVars => WorldTypes'
<1>1. UNCHANGED reqVars => RequestTypes'
  BY DEF TypeInv, RequestTypes, reqVars
<1>2. UNCHANGED entryVars => EntryTypes'
  BY DEF TypeInv, EntryTypes, entryVars
<1>3. UNCHANGED bufVars => QueueTypes'
  BY DEF TypeInv, QueueTypes, bufVars
<1>4. UNCHANGED shardVars => ShardTypes'
  BY DEF TypeInv, ShardTypes, shardVars
<1>5. UNCHANGED drainVars => DrainTypes'
  BY DEF TypeInv, DrainTypes, drainVars
<1>6. UNCHANGED ttVars => ThreadTypes'
  BY DEF TypeInv, ThreadTypes, ttVars
<1>7. UNCHANGED envVars => WorldTypes'
  BY DEF TypeInv, WorldTypes, envVars
<1> QED
  BY <1>1, <1>2, <1>3, <1>4, <1>5, <1>6, <1>7

\* Every step of withBuffering keeps the types.
LEMMA RequestStepTypes ==
  ASSUME TypeInv, UNCHANGED scenario, NEW r \in Requests,
         \/ WaitIfAlreadyBuffering(r) \/ Send(r) \/ WaitForFailoverEnd(r) \/ Enqueue(r)
         \/ WakeUp(r) \/ CancelWait(r) \/ ClientCancels(r)
  PROVE  TypeInv'
<1>1. ASSUME Return(r) PROVE RequestTypes' /\ cancelled' \subseteq Requests
  BY <1>1, BufferAssumption DEF Return, TypeInv, RequestTypes, EntryTypes
<1>2. CASE WaitIfAlreadyBuffering(r)
  <2>1. RequestTypes'
    BY <1>2, BufferAssumption DEF WaitIfAlreadyBuffering, TypeInv, RequestTypes
  <2> QED
    BY <1>2, <2>1, TypeFrames DEF WaitIfAlreadyBuffering, TypeInv
<1>3. CASE SendFails(r)
  <2>1. RequestTypes'
    BY <1>3, BufferAssumption DEF SendFails, TypeInv, RequestTypes
  <2> QED
    BY <1>3, <2>1, TypeFrames DEF SendFails, TypeInv
<1>4. CASE SendReturns(r)
  <2>1. EntryTypes' /\ RequestTypes'
    BY <1>1, <1>4 DEF SendReturns, TypeInv, EntryTypes
  <2> QED
    BY <1>4, <2>1, TypeFrames DEF SendReturns, TypeInv
<1>5. CASE WaitForFailoverEnd(r)
  <2>1. RequestTypes'
    BY <1>5 DEF WaitForFailoverEnd, TypeInv, RequestTypes
  <2>2. ShardTypes'
    BY <1>5 DEF WaitForFailoverEnd, TypeInv, ShardTypes
  <2> QED
    BY <1>5, <2>1, <2>2, TypeFrames DEF WaitForFailoverEnd, TypeInv
<1>6. CASE Enqueue(r)
  <2>1. QueueTypes'
    BY <1>6 DEF Enqueue, TypeInv, QueueTypes
  <2>2. EntryTypes'
    BY <1>1, <1>6 DEF Enqueue, TypeInv, EntryTypes
  <2>3. RequestTypes'
    BY <1>1, <1>6 DEF Enqueue, TypeInv, RequestTypes
  <2>4. ThreadTypes'
    BY <1>6 DEF Enqueue, Notify, TypeInv, ThreadTypes
  <2> QED
    BY <1>6, <2>1, <2>2, <2>3, <2>4, TypeFrames DEF Enqueue, TypeInv
<1>7. CASE WakeUp(r)
  <2>1. RequestTypes' /\ EntryTypes'
    BY <1>1, <1>7 DEF WakeUp, TypeInv, RequestTypes, EntryTypes
  <2> QED
    BY <1>7, <2>1, TypeFrames DEF WakeUp, TypeInv
<1>8. CASE CancelWait(r)
  <2>1. queue' \in Seq(Requests)
    BY <1>8, KeepElements DEF CancelWait, TypeInv, QueueTypes
  <2>2. QueueTypes'
    BY <1>8, <2>1 DEF CancelWait, SlotsAfterRemoval, TypeInv, QueueTypes
  <2>3. RequestTypes' /\ EntryTypes'
    BY <1>8, BufferAssumption DEF CancelWait, BufferCancel, TypeInv, RequestTypes, EntryTypes
  <2> QED
    BY <1>8, <2>2, <2>3, TypeFrames DEF CancelWait, TypeInv
<1>9. CASE ClientCancels(r)
  <2>1. RequestTypes'
    BY <1>9 DEF ClientCancels, TypeInv, RequestTypes
  <2> QED
    BY <1>9, <2>1, TypeFrames DEF ClientCancels, TypeInv
<1> QED
  BY <1>2, <1>3, <1>4, <1>5, <1>6, <1>7, <1>8, <1>9 DEF Send

\* Every step of a shard keeps the types.
LEMMA ShardStepTypes ==
  ASSUME TypeInv, UNCHANGED scenario, NEW s \in Shards,
         \/ StopBuffering(s) \/ TimerFires(s)
         \/ \E g \in 1..generation[s] : MaxDurationExceeded(s, g)
         \/ DrainEntriesForShard(s) \/ LaunchDrain(s) \/ DrainEntry(s) \/ DrainComplete(s)
         \/ \E r \in Requests : DrainEntryDone(s, r)
         \/ PrimaryStops(s) \/ PrimaryServes(s) \/ HealthReport(s) \/ GapElapses(s)
  PROVE  TypeInv'
<1>1. CASE StopBuffering(s)
  <2>1. ShardTypes'
    BY <1>1 DEF StopBuffering, Stop, TypeInv, ShardTypes
  <2>2. DrainTypes'
    BY <1>1 DEF StopBuffering, Stop, TypeInv, DrainTypes
  <2>3. WorldTypes'
    BY <1>1 DEF StopBuffering, TypeInv, WorldTypes
  <2> QED
    BY <1>1, <2>1, <2>2, <2>3, TypeFrames DEF StopBuffering, TypeInv
<1>2. CASE TimerFires(s)
  <2>1. timer[s] \in Nat
    BY DEF TypeInv, ShardTypes
  <2>2. ShardTypes'
    BY <1>2, <2>1 DEF TimerFires, TypeInv, ShardTypes
  <2> QED
    BY <1>2, <2>2, TypeFrames DEF TimerFires, TypeInv
<1>3. ASSUME NEW g \in 1..generation[s], MaxDurationExceeded(s, g) PROVE TypeInv'
  <2>1. ShardTypes'
    BY <1>3 DEF MaxDurationExceeded, Stop, TypeInv, ShardTypes
  <2>2. DrainTypes'
    BY <1>3 DEF MaxDurationExceeded, Stop, TypeInv, DrainTypes
  <2> QED
    BY <1>3, <2>1, <2>2, TypeFrames DEF MaxDurationExceeded, TypeInv
<1>4. CASE DrainEntriesForShard(s)
  <2> DEFINE here == {e \in Requests : ShardOf[e] = s}
             elsewhere == {e \in Requests : ShardOf[e] # s}
  <2>1. Keep(queue, here) \in Seq(Requests) /\ Keep(queue, elsewhere) \in Seq(Requests)
    BY KeepElements DEF TypeInv, QueueTypes
  <2>2. QueueTypes'
    BY <1>4, <2>1 DEF DrainEntriesForShard, TypeInv, QueueTypes
  <2>3. entries' = [entries EXCEPT ![s] = Keep(queue, here)]
        /\ stopPc' = [stopPc EXCEPT ![s] = "launch"] /\ draining' = draining
    BY <1>4 DEF DrainEntriesForShard
  <2> HIDE DEF here
  <2>4. DrainTypes'
    BY <2>1, <2>3 DEF TypeInv, DrainTypes
  <2> QED
    BY <1>4, <2>2, <2>4, TypeFrames DEF DrainEntriesForShard, TypeInv
<1>5. CASE LaunchDrain(s)
  <2>1. ShardTypes' /\ DrainTypes'
    BY <1>5 DEF LaunchDrain, TypeInv, ShardTypes, DrainTypes
  <2> QED
    BY <1>5, <2>1, TypeFrames DEF LaunchDrain, TypeInv
<1>6. CASE DrainComplete(s)
  <2>1. ShardTypes' /\ DrainTypes'
    BY <1>6 DEF DrainComplete, TypeInv, ShardTypes, DrainTypes
  <2> QED
    BY <1>6, <2>1, TypeFrames DEF DrainComplete, TypeInv
<1>7. CASE DrainEntry(s)
  <2>1. entries[s] \in Seq(Requests) /\ entries[s] # <<>>
    BY <1>7 DEF DrainEntry, TypeInv, DrainTypes
  <2>2. Head(entries[s]) \in Requests /\ Tail(entries[s]) \in Seq(Requests)
    BY <2>1, HeadTailProperties
  <2>3. DrainTypes'
    BY <1>7, <2>2 DEF DrainEntry, TypeInv, DrainTypes
  <2>4. EntryTypes'
    BY <1>7, <2>2 DEF DrainEntry, TypeInv, EntryTypes
  <2> QED
    BY <1>7, <2>3, <2>4, TypeFrames DEF DrainEntry, TypeInv
<1>8. ASSUME NEW r \in Requests, DrainEntryDone(s, r) PROVE TypeInv'
  <2>1. QueueTypes' /\ DrainTypes'
    BY <1>8 DEF DrainEntryDone, TypeInv, QueueTypes, DrainTypes
  <2> QED
    BY <1>8, <2>1, TypeFrames DEF DrainEntryDone, TypeInv
<1>9. CASE PrimaryStops(s)
  <2>1. scenario.failovers \in Nat
    BY DEF TypeInv, WorldTypes, ScenarioType
  <2>2. WorldTypes'
    BY <1>9, <2>1 DEF PrimaryStops, TypeInv, WorldTypes
  <2> QED
    BY <1>9, <2>2, TypeFrames DEF PrimaryStops, TypeInv
<1>10. CASE PrimaryServes(s) \/ HealthReport(s)
  <2>1. WorldTypes'
    BY <1>10 DEF PrimaryServes, HealthReport, TypeInv, WorldTypes
  <2> QED
    BY <1>10, <2>1, TypeFrames DEF PrimaryServes, HealthReport, TypeInv
<1>11. CASE GapElapses(s)
  <2>1. ShardTypes'
    BY <1>11 DEF GapElapses, TypeInv, ShardTypes
  <2> QED
    BY <1>11, <2>1, TypeFrames DEF GapElapses, TypeInv
<1> QED
  BY <1>1, <1>2, <1>3, <1>4, <1>5, <1>6, <1>7, <1>8, <1>9, <1>10, <1>11

\* Every step of the timeout thread and of Shutdown keeps the types.
LEMMA ThreadStepTypes ==
  ASSUME TypeInv, UNCHANGED scenario,
         \/ TTCheck \/ TTNotified \/ TTPopHead \/ TTRecheck \/ TTRelease \/ TTClose \/ TTStop
         \/ ShutdownStart \/ ShutdownCancel \/ ShutdownWait
  PROVE  TypeInv'
<1>1. CASE TTCheck \/ TTNotified \/ TTRecheck \/ TTStop
  <2>1. queue # <<>> => Head(queue) \in Requests
    BY HeadTailProperties DEF TypeInv, QueueTypes
  <2>2. ThreadTypes'
    BY <1>1, <2>1 DEF TTCheck, TTNotified, TTRecheck, TTStop, TypeInv, ThreadTypes
  <2> QED
    BY <1>1, <2>2, TypeFrames DEF TTCheck, TTNotified, TTRecheck, TTStop, TypeInv
<1>2. CASE TTPopHead
  <2>1. queue \in Seq(Requests) /\ queue # <<>>
    BY <1>2 DEF TTPopHead, TypeInv, QueueTypes
  <2>2. Head(queue) \in Requests /\ Tail(queue) \in Seq(Requests)
    BY <2>1, HeadTailProperties
  <2>3. ThreadTypes' /\ QueueTypes'
    BY <1>2, <2>2 DEF TTPopHead, PoppedQueue, TypeInv, ThreadTypes, QueueTypes
  <2> QED
    BY <1>2, <2>3, TypeFrames DEF TTPopHead, TypeInv
<1>3. CASE TTRelease
  <2>1. ThreadTypes' /\ QueueTypes'
    BY <1>3 DEF TTRelease, TypeInv, ThreadTypes, QueueTypes
  <2> QED
    BY <1>3, <2>1, TypeFrames DEF TTRelease, TypeInv
<1>4. CASE TTClose
  <2>1. ThreadTypes' /\ EntryTypes'
    BY <1>4 DEF TTClose, TypeInv, ThreadTypes, EntryTypes
  <2> QED
    BY <1>4, <2>1, TypeFrames DEF TTClose, TypeInv
<1>5. CASE ShutdownStart
  <2>1. EntryTypes'
    BY <1>5 DEF ShutdownStart, TypeInv, EntryTypes
  <2>2. QueueTypes'
    BY <1>5 DEF ShutdownStart, TypeInv, QueueTypes
  <2>3. ShardTypes'
    BY <1>5 DEF ShutdownStart, TypeInv, ShardTypes
  <2> QED
    BY <1>5, <2>1, <2>2, <2>3, TypeFrames DEF ShutdownStart, TypeInv
<1>6. CASE ShutdownCancel \/ ShutdownWait
  <2>1. QueueTypes' /\ EntryTypes'
    BY <1>6 DEF ShutdownCancel, ShutdownWait, entryVars, TypeInv, QueueTypes, EntryTypes
  <2> QED
    BY <1>6, <2>1, TypeFrames DEF ShutdownCancel, ShutdownWait, TypeInv
<1> QED
  BY <1>1, <1>2, <1>3, <1>4, <1>5, <1>6

\* The types hold initially.
LEMMA InitTypes == Init => TypeInv
<1> SUFFICES ASSUME Init PROVE TypeInv
  OBVIOUS
<1>1. RequestTypes /\ EntryTypes
  BY BufferAssumption DEF Init, RequestTypes, EntryTypes
<1>2. QueueTypes
  <2>1. <<>> \in Seq(Requests)
    OBVIOUS
  <2> QED
    BY <2>1 DEF Init, QueueTypes
<1>3. ThreadTypes
  BY DEF Init, ThreadTypes
<1>4. ShardTypes
  BY DEF Init, ShardTypes
<1>5. DrainTypes
  BY DEF Init, DrainTypes
<1>6. WorldTypes
  BY BufferAssumption DEF Init, WorldTypes, ScenarioType
<1> QED
  BY <1>1, <1>2, <1>3, <1>4, <1>5, <1>6 DEF TypeInv

\* Every step keeps the types.
LEMMA StepTypes == TypeInv /\ [Step]_<<vars, scenario>> => TypeInv'
<1> SUFFICES ASSUME TypeInv, [Step]_<<vars, scenario>> PROVE TypeInv'
  OBVIOUS
<1>1. CASE UNCHANGED <<vars, scenario>>
  BY <1>1, TypeFrames DEF TypeInv, vars
<1>2. CASE Step
  BY <1>2, RequestStepTypes, ShardStepTypes, ThreadStepTypes DEF Step, Next
<1> QED
  BY <1>1, <1>2
-----------------------------------------------------------------------------
\* The phases of a drain.

\* One stopBuffering call owns a shard exactly while it is DRAINING, and it holds no
\* entries before it extracts them.
PhaseInv ==
  \A s \in Shards :
    /\ state[s] = "DRAINING" <=> stopPc[s] # "none"
    /\ stopPc[s] \in {"none", "extract"} => entries[s] = <<>>

\* Steps that leave the drains alone may still start or abandon buffering.
LEMMA PhasesKept ==
  ASSUME PhaseInv, UNCHANGED <<stopPc, entries>>,
         \A s \in Shards : state'[s] = "DRAINING" <=> state[s] = "DRAINING"
  PROVE  PhaseInv'
BY DEF PhaseInv

\* stopBuffering takes over a shard that is BUFFERING.
LEMMA StopPhases ==
  ASSUME TypeInv, PhaseInv, NEW s \in Shards, state[s] = "BUFFERING", Stop(s), UNCHANGED entries
  PROVE  PhaseInv'
<1>1. /\ state'[s] = "DRAINING" /\ stopPc'[s] = "extract"
      /\ \A t \in Shards \ {s} : state'[t] = state[t] /\ stopPc'[t] = stopPc[t]
  BY DEF Stop, TypeInv, ShardTypes, DrainTypes
<1> QED
  BY <1>1 DEF PhaseInv

\* Every step preserves the phases.
LEMMA StepPhases == TypeInv /\ PhaseInv /\ [Step]_<<vars, scenario>> => PhaseInv'
<1> SUFFICES ASSUME TypeInv, PhaseInv, [Step]_<<vars, scenario>> PROVE PhaseInv'
  OBVIOUS
<1>1. ASSUME NEW r \in Requests,
             \/ WaitIfAlreadyBuffering(r) \/ Send(r) \/ Enqueue(r) \/ WakeUp(r) \/ CancelWait(r)
             \/ ClientCancels(r)
      PROVE  PhaseInv'
  <2>1. UNCHANGED <<state, stopPc, entries>>
    BY <1>1 DEF WaitIfAlreadyBuffering, Send, SendFails, SendReturns, Enqueue, WakeUp, CancelWait,
       ClientCancels, shardVars, drainVars
  <2> QED
    BY <2>1, PhasesKept
<1>2. ASSUME NEW r \in Requests, WaitForFailoverEnd(r) PROVE PhaseInv'
  <2>1. UNCHANGED <<stopPc, entries>>
    BY <1>2 DEF WaitForFailoverEnd, drainVars
  <2>2. \/ UNCHANGED state
        \/ state[ShardOf[r]] = "IDLE" /\ state' = [state EXCEPT ![ShardOf[r]] = "BUFFERING"]
    BY <1>2 DEF WaitForFailoverEnd
  <2>3. \A s \in Shards : state'[s] = "DRAINING" <=> state[s] = "DRAINING"
    BY <2>2 DEF TypeInv, ShardTypes
  <2> QED
    BY <2>1, <2>3, PhasesKept
<1>3. ASSUME NEW s \in Shards, StopBuffering(s) PROVE PhaseInv'
  <2>1. UNCHANGED entries /\ ((state[s] = "BUFFERING" /\ Stop(s)) \/ UNCHANGED <<state, stopPc>>)
    BY <1>3 DEF StopBuffering
  <2> QED
    BY <2>1, PhasesKept, StopPhases
<1>4. ASSUME NEW s \in Shards, NEW g \in 1..generation[s], MaxDurationExceeded(s, g)
      PROVE  PhaseInv'
  <2>1. UNCHANGED entries /\ ((state[s] = "BUFFERING" /\ Stop(s)) \/ UNCHANGED <<state, stopPc>>)
    BY <1>4 DEF MaxDurationExceeded
  <2> QED
    BY <2>1, PhasesKept, StopPhases
<1>5. ASSUME NEW s \in Shards, DrainEntriesForShard(s) PROVE PhaseInv'
  <2>1. /\ UNCHANGED state /\ stopPc[s] = "extract" /\ stopPc'[s] = "launch"
        /\ \A t \in Shards \ {s} : entries'[t] = entries[t] /\ stopPc'[t] = stopPc[t]
    BY <1>5 DEF DrainEntriesForShard, shardVars, TypeInv, DrainTypes
  <2> QED
    BY <2>1 DEF PhaseInv
<1>6. ASSUME NEW s \in Shards, LaunchDrain(s) \/ DrainComplete(s) PROVE PhaseInv'
  <2>1. /\ stopPc[s] # "none" /\ UNCHANGED entries
        /\ \/ entries[s] = <<>> /\ state'[s] = "IDLE" /\ stopPc'[s] = "none"
           \/ UNCHANGED state /\ stopPc'[s] = "running"
        /\ \A t \in Shards \ {s} : state'[t] = state[t] /\ stopPc'[t] = stopPc[t]
    BY <1>6 DEF LaunchDrain, DrainComplete, TypeInv, ShardTypes, DrainTypes
  <2> QED
    BY <2>1 DEF PhaseInv
<1>7. ASSUME NEW s \in Shards, DrainEntry(s) PROVE PhaseInv'
  <2>1. /\ UNCHANGED <<state, stopPc>> /\ stopPc[s] = "running"
        /\ \A t \in Shards \ {s} : entries'[t] = entries[t]
    BY <1>7 DEF DrainEntry, shardVars, TypeInv, DrainTypes
  <2> QED
    BY <2>1 DEF PhaseInv
<1>8. ASSUME NEW s \in Shards,
             \/ TimerFires(s) \/ \E r \in Requests : DrainEntryDone(s, r)
             \/ PrimaryStops(s) \/ PrimaryServes(s) \/ HealthReport(s) \/ GapElapses(s)
      PROVE  PhaseInv'
  <2>1. UNCHANGED <<state, stopPc, entries>>
    BY <1>8 DEF TimerFires, DrainEntryDone, PrimaryStops, PrimaryServes, HealthReport, GapElapses,
       shardVars, drainVars
  <2> QED
    BY <2>1, PhasesKept
<1>9. CASE \/ TTCheck \/ TTNotified \/ TTPopHead \/ TTRecheck \/ TTRelease \/ TTClose \/ TTStop
           \/ ShutdownCancel \/ ShutdownWait \/ UNCHANGED <<vars, scenario>>
  <2>1. UNCHANGED <<state, stopPc, entries>>
    BY <1>9 DEF TTCheck, TTNotified, TTPopHead, TTRecheck, TTRelease, TTClose, TTStop,
       ShutdownCancel, ShutdownWait, vars, shardVars, drainVars
  <2> QED
    BY <2>1, PhasesKept
<1>10. CASE ShutdownStart
  <2>1. /\ UNCHANGED <<stopPc, entries>>
        /\ \A s \in Shards : state'[s] = "DRAINING" <=> state[s] = "DRAINING"
    BY <1>10 DEF ShutdownStart, drainVars
  <2> QED
    BY <2>1, PhasesKept
<1> QED
  BY <1>1, <1>2, <1>3, <1>4, <1>5, <1>6, <1>7, <1>8, <1>9, <1>10 DEF Step, Next

-----------------------------------------------------------------------------
\* Ownership.

\* An entry is in one place, and with the drain of its own shard.
Places ==
  /\ IsInjective(queue) /\ Queued \cap Popped = {}
  /\ \A s \in Shards :
       /\ IsInjective(entries[s]) /\ Extracted(s) \cap (Queued \cup Popped) = {}
       /\ \A r \in Extracted(s) : ShardOf[r] = s

\* Where a request is in withBuffering tells whether its entry exists: it is
\* enqueued once, and its channel is closed once.
DoneOnce ==
  /\ \A r \in Owned :
       r \in Requests /\ entryDone[r] = "open" /\ pc[r] \in {"waiting", "returned"}
  /\ \A s \in Shards : \A r \in draining[s] : entryDone[r] = "retry" /\ ShardOf[r] = s
  /\ \A r \in Requests :
       /\ Waiting(r) /\ entryDone[r] = "open" => r \in Owned
       /\ pc[r] \in {"new", "bounced", "enqueue"} => retryDone[r] = "none" /\ entryDone[r] = "open"
       /\ pc[r] = "send" /\ retryDone[r] # "bufferCancel" => entryDone[r] = "open"
       /\ retryDone[r] = "bufferCancel" => pc[r] = "send" /\ entryDone[r] = "retry"

OwnerInv == Places /\ DoneOnce

\* It implies the invariant of the specification.
LEMMA OwnerInvSuffices == OwnerInv => OneOwner
<1> SUFFICES ASSUME OwnerInv PROVE OneOwner
  OBVIOUS
<1>1. \A s, t \in Shards : s # t => Extracted(s) \cap Extracted(t) = {}
  BY DEF OwnerInv, Places
<1> QED
  BY <1>1 DEF OwnerInv, Places, DoneOnce, OneOwner

\* The owned entries are the queued, the extracted and the popped ones.
LEMMA OwnedParts ==
  \A r : r \in Owned <=> r \in Queued \/ (\E s \in Shards : r \in Extracted(s)) \/ r \in Popped
BY DEF Owned

\* Steps that leave the entries where they are.
LEMMA PlacesKept ==
  ASSUME Places, UNCHANGED <<queue, entries>>, Popped' = Popped
  PROVE  Places' /\ Owned' = Owned
BY DEF Places, Owned, Queued, Extracted

\* A step of one request that leaves every entry alone.
LEMMA RequestKeepsOwners ==
  ASSUME TypeInv, OwnerInv, NEW r \in Requests, UNCHANGED <<queue, entries, ttPc, ttHead>>,
         UNCHANGED <<entryDone, draining>>,
         \A q \in Requests \ {r} : pc'[q] = pc[q] /\ retryDone'[q] = retryDone[q],
         pc'[r] \notin {"waiting", "returned"} => r \notin Owned,
         pc'[r] = "waiting" => pc[r] = "waiting",
         pc'[r] \in {"new", "bounced", "enqueue"}
           => retryDone'[r] = "none" /\ entryDone[r] = "open",
         pc'[r] = "send" /\ retryDone'[r] # "bufferCancel" => entryDone[r] = "open",
         retryDone'[r] = "bufferCancel" => pc'[r] = "send" /\ entryDone[r] = "retry"
  PROVE  OwnerInv'
<1>1. Popped' = Popped
  BY DEF Popped
<1>2. Places' /\ Owned' = Owned
  BY <1>1, PlacesKept DEF OwnerInv
<1>3. DoneOnce'
  BY <1>2 DEF OwnerInv, DoneOnce, Waiting
<1> QED
  BY <1>2, <1>3 DEF OwnerInv
\* A step that touches neither requests nor entries; a drain may finish one.
LEMMA OwnersKept ==
  ASSUME TypeInv, OwnerInv, UNCHANGED <<queue, entries, entryDone, pc, retryDone>>,
         Popped' = Popped, \A s \in Shards : draining'[s] \subseteq draining[s]
  PROVE  OwnerInv'
<1>1. Places' /\ Owned' = Owned
  BY PlacesKept DEF OwnerInv
<1>2. DoneOnce'
  BY <1>1 DEF OwnerInv, DoneOnce, Waiting
<1> QED
  BY <1>1, <1>2 DEF OwnerInv

\* withBuffering keeps the ownership: a request that has no entry gets at most one,
\* and one that has been answered has none left.
LEMMA RequestOwners ==
  ASSUME TypeInv, OwnerInv, NEW r \in Requests,
         \/ WaitIfAlreadyBuffering(r) \/ Send(r) \/ WaitForFailoverEnd(r) \/ WakeUp(r)
         \/ ClientCancels(r)
  PROVE  OwnerInv'
<1>1. /\ pc[r] \notin {"waiting", "returned"} => r \notin Owned
      /\ entryDone[r] # "open" => r \notin Owned
      /\ pc[r] \in {"new", "bounced", "enqueue"} => retryDone[r] = "none" /\ entryDone[r] = "open"
      /\ pc[r] = "send" /\ retryDone[r] # "bufferCancel" => entryDone[r] = "open"
      /\ retryDone[r] = "bufferCancel" => pc[r] = "send" /\ entryDone[r] = "retry"
  BY DEF OwnerInv, DoneOnce
<1>2. retryDone = [retryDone EXCEPT ![r] = retryDone[r]]
  BY DEF TypeInv, RequestTypes
<1>3. CASE WaitIfAlreadyBuffering(r)
  <2>1. /\ pc[r] = "new" /\ UNCHANGED <<queue, entries, ttPc, ttHead, entryDone, draining>>
        /\ \E p \in {"enqueue", "send"}, d \in {"none", "noop"} :
             /\ pc' = [pc EXCEPT ![r] = p] /\ retryDone' = [retryDone EXCEPT ![r] = d]
             /\ p = "enqueue" => d = "none"
    BY <1>1, <1>2, <1>3 DEF WaitIfAlreadyBuffering, entryVars, bufVars, drainVars, ttVars
  <2> QED
    BY <1>1, <2>1, RequestKeepsOwners DEF TypeInv, RequestTypes
<1>4. CASE SendFails(r)
  <2>1. /\ pc[r] = "send" /\ UNCHANGED <<queue, entries, ttPc, ttHead, entryDone, draining>>
        /\ \E p \in {"bounced", "send"} :
             /\ pc' = [pc EXCEPT ![r] = p]
             /\ p = "bounced" => retryDone[r] = "none"
        /\ retryDone' = [retryDone EXCEPT ![r] = retryDone[r]]
    BY <1>2, <1>4 DEF SendFails, entryVars, bufVars, drainVars, ttVars
  <2> QED
    BY <1>1, <2>1, RequestKeepsOwners DEF TypeInv, RequestTypes
<1>5. CASE SendReturns(r)
  <2>1. /\ UNCHANGED <<queue, entries, ttPc, ttHead, entryDone, draining>>
        /\ pc' = [pc EXCEPT ![r] = "returned"] /\ retryDone' = [retryDone EXCEPT ![r] = "none"]
    BY <1>5 DEF SendReturns, Return, bufVars, drainVars, ttVars
  <2> QED
    BY <2>1, RequestKeepsOwners DEF TypeInv, RequestTypes
<1>6. CASE WaitForFailoverEnd(r)
  <2>1. /\ pc[r] = "bounced" /\ UNCHANGED <<queue, entries, ttPc, ttHead, entryDone, draining>>
        /\ \E p \in {"enqueue", "send"}, d \in {"none", "noop"} :
             /\ pc' = [pc EXCEPT ![r] = p] /\ retryDone' = [retryDone EXCEPT ![r] = d]
             /\ p = "enqueue" => d = "none"
    BY <1>1, <1>2, <1>6 DEF WaitForFailoverEnd, entryVars, bufVars, drainVars, ttVars
  <2> QED
    BY <1>1, <2>1, RequestKeepsOwners DEF TypeInv, RequestTypes
<1>7. CASE WakeUp(r)
  <2>1. UNCHANGED <<queue, entries, ttPc, ttHead, entryDone, draining>>
    BY <1>7 DEF WakeUp, bufVars, drainVars, ttVars
  <2>2. CASE entryDone[r] = "retry"
    <3>1. /\ pc' = [pc EXCEPT ![r] = "send"]
          /\ retryDone' = [retryDone EXCEPT ![r] = "bufferCancel"]
      BY <1>7, <2>2 DEF WakeUp
    <3> QED
      BY <1>1, <2>1, <2>2, <3>1, RequestKeepsOwners DEF TypeInv, RequestTypes
  <2>3. CASE entryDone[r] # "retry"
    <3>1. pc' = [pc EXCEPT ![r] = "returned"] /\ retryDone' = [retryDone EXCEPT ![r] = "none"]
      BY <1>7, <2>3 DEF WakeUp, Return
    <3> QED
      BY <2>1, <3>1, RequestKeepsOwners DEF TypeInv, RequestTypes
  <2> QED
    BY <2>2, <2>3
<1>8. CASE ClientCancels(r)
  <2>1. UNCHANGED <<queue, entries, ttPc, ttHead, entryDone, pc, retryDone, draining>>
    BY <1>8 DEF ClientCancels, entryVars, bufVars, drainVars, ttVars
  <2>2. Popped' = Popped
    BY <2>1 DEF Popped
  <2> QED
    BY <2>1, <2>2, OwnersKept
<1> QED
  BY <1>3, <1>4, <1>5, <1>6, <1>7, <1>8 DEF Send

\* enqueue: the new entry has no owner yet, and an evicted one has none left.
LEMMA EnqueueOwners ==
  ASSUME TypeInv, OwnerInv, NEW r \in Requests, Enqueue(r)
  PROVE  OwnerInv'
<1>1. /\ pc[r] = "enqueue" /\ r \notin Owned /\ entryDone[r] = "open" /\ retryDone[r] = "none"
      /\ queue \in Seq(Requests)
  BY DEF OwnerInv, DoneOnce, Enqueue, TypeInv, QueueTypes
<1>2. UNCHANGED <<entries, ttPc, ttHead, draining>> /\ Popped' = Popped
  BY DEF Enqueue, drainVars, Popped
<1>3. CASE Return(r) /\ UNCHANGED <<entryDone, queue>>
  <2>1. pc' = [pc EXCEPT ![r] = "returned"] /\ retryDone' = [retryDone EXCEPT ![r] = "none"]
    BY <1>3 DEF Return
  <2> QED
    BY <1>2, <1>3, <2>1, RequestKeepsOwners DEF TypeInv, RequestTypes
<1>4. CASE /\ pc' = [pc EXCEPT ![r] = "waiting"] /\ UNCHANGED retryDone
           /\ queue' = Append(queue, r) /\ UNCHANGED entryDone
  <2>1. Queued' = Queued \cup {r} /\ IsInjective(queue')
    BY <1>1, <1>4, AppendElements, OwnedParts DEF OwnerInv, Places, Queued
  <2>2. \A s \in Shards : Extracted(s)' = Extracted(s)
    BY <1>2 DEF Extracted
  <2>3. Places'
    BY <1>1, <1>2, <2>1, <2>2, OwnedParts DEF OwnerInv, Places
  <2>4. Owned' = Owned \cup {r}
    BY <1>2, <2>1, <2>2 DEF Owned
  <2>5. pc'[r] = "waiting" /\ \A q \in Requests \ {r} : pc'[q] = pc[q]
    BY <1>4 DEF TypeInv, RequestTypes
  <2>6. DoneOnce'
    BY <1>1, <1>2, <1>4, <2>4, <2>5 DEF OwnerInv, DoneOnce, Waiting
  <2> QED
    BY <2>3, <2>6 DEF OwnerInv
<1>5. CASE /\ pc' = [pc EXCEPT ![r] = "waiting"] /\ UNCHANGED retryDone /\ queue # <<>>
           /\ entryDone' = [entryDone EXCEPT ![Head(queue)] = "MTB01"]
           /\ queue' = Append(Tail(queue), r)
  <2> DEFINE h == Head(queue)
  <2>1. IsInjective(queue)
    BY DEF OwnerInv, Places
  <2>2. /\ h \in Queued /\ h \in Requests /\ Tail(queue) \in Seq(Requests)
        /\ Range(Tail(queue)) = Queued \ {h} /\ IsInjective(Tail(queue))
    BY <1>1, <1>5, <2>1, TailElements DEF Queued
  <2>3. h \in Owned /\ r \notin Queued /\ h # r
    BY <1>1, <2>2, OwnedParts
  <2>4. Queued' = (Queued \ {h}) \cup {r} /\ IsInjective(queue')
    <3>1. PICK rest \in Seq(Requests) :
            /\ rest = Tail(queue) /\ Range(rest) = Queued \ {h} /\ IsInjective(rest)
      BY <2>2
    <3>2. queue' = Append(rest, r) /\ r \in Requests /\ r \notin Range(rest)
      BY <1>1, <1>5, <2>3, <3>1
    <3>3. Range(Append(rest, r)) = Range(rest) \cup {r} /\ IsInjective(Append(rest, r))
      <4>1. /\ Range(Append(rest, r)) = Range(rest) \cup {r}
            /\ IsInjective(rest) /\ r \notin Range(rest) => IsInjective(Append(rest, r))
        BY <1>1, AppendElements
      <4> QED
        BY <3>1, <3>2, <4>1
    <3> QED
      BY <3>1, <3>2, <3>3 DEF Queued
  <2> HIDE DEF h
  <2>5. \A s \in Shards : Extracted(s)' = Extracted(s)
    BY <1>2 DEF Extracted
  <2>6. Places'
    BY <1>1, <1>2, <2>4, <2>5, OwnedParts DEF OwnerInv, Places
  <2>7. Owned' = (Owned \ {h}) \cup {r}
    <3>1. h \notin Popped /\ \A s \in Shards : h \notin Extracted(s)
      BY <2>2 DEF OwnerInv, Places
    <3> QED
      BY <1>2, <2>4, <2>5, <3>1 DEF Owned
  <2>8. /\ pc'[r] = "waiting" /\ \A q \in Requests \ {r} : pc'[q] = pc[q]
        /\ entryDone'[h] = "MTB01" /\ \A q \in Requests \ {h} : entryDone'[q] = entryDone[q]
    BY <1>5, <2>2 DEF TypeInv, RequestTypes, EntryTypes, h
  <2>9. entryDone[h] = "open" /\ pc[h] \in {"waiting", "returned"}
    BY <2>3 DEF OwnerInv, DoneOnce
  <2>10. \A q \in Requests : retryDone[q] = "bufferCancel" => q # h /\ q # r
    BY <1>1, <2>9 DEF OwnerInv, DoneOnce
  <2>11. \A s \in Shards : \A q \in draining[s] : q # h /\ q \in Requests
    BY <2>9 DEF OwnerInv, DoneOnce, TypeInv, DrainTypes
  <2>12. DoneOnce'
    BY <1>1, <1>2, <1>5, <2>3, <2>7, <2>8, <2>9, <2>10, <2>11 DEF OwnerInv, DoneOnce, Waiting
  <2> QED
    BY <2>6, <2>12 DEF OwnerInv
<1> QED
  BY <1>3, <1>4, <1>5 DEF Enqueue
\* What the steps that move entries do to the queue.
LEMMA CancelMoves ==
  ASSUME TypeInv, Places, NEW r \in Requests, CancelWait(r)
  PROVE  /\ Queued' = Queued \ {r} /\ IsInjective(queue')
         /\ \A s \in Shards : Extracted(s)' = Extracted(s)
         /\ Popped' = Popped
<1>1. queue \in Seq(Requests) /\ Queued \subseteq Requests
  BY DEF TypeInv, QueueTypes, Queued, Range
<1>2. Range(Keep(queue, Requests \ {r})) = Range(queue) \cap (Requests \ {r})
      /\ IsInjective(Keep(queue, Requests \ {r}))
  BY <1>1, KeepElements DEF Places
<1>3. queue' = Keep(queue, Requests \ {r}) /\ UNCHANGED <<entries, ttPc, ttHead>>
  BY DEF CancelWait, drainVars, ttVars
<1> QED
  BY <1>1, <1>2, <1>3 DEF Queued, Extracted, Popped

\* drainEntriesForShard moves exactly the shard's entries.
LEMMA ExtractMoves ==
  ASSUME TypeInv, PhaseInv, Places, NEW s \in Shards, DrainEntriesForShard(s)
  PROVE  /\ IsInjective(queue') /\ IsInjective(entries'[s]) /\ Extracted(s) = {}
         /\ Queued' = {r \in Queued : ShardOf[r] # s}
         /\ Extracted(s)' = {r \in Queued : ShardOf[r] = s}
         /\ \A t \in Shards \ {s} : entries'[t] = entries[t] /\ Extracted(t)' = Extracted(t)
         /\ Popped' = Popped
<1> DEFINE here == {e \in Requests : ShardOf[e] = s}
           elsewhere == {e \in Requests : ShardOf[e] # s}
<1>1. queue \in Seq(Requests) /\ Queued \subseteq Requests
  BY DEF TypeInv, QueueTypes, Queued, Range
<1>2. /\ Range(Keep(queue, here)) = Range(queue) \cap here
      /\ Range(Keep(queue, elsewhere)) = Range(queue) \cap elsewhere
      /\ IsInjective(Keep(queue, here)) /\ IsInjective(Keep(queue, elsewhere))
  BY <1>1, KeepElements DEF Places
<1>3. /\ queue' = Keep(queue, elsewhere) /\ entries' = [entries EXCEPT ![s] = Keep(queue, here)]
      /\ UNCHANGED <<ttPc, ttHead>>
  BY DEF DrainEntriesForShard, ttVars
<1>4. Range(queue) \cap here = {r \in Queued : ShardOf[r] = s}
      /\ Range(queue) \cap elsewhere = {r \in Queued : ShardOf[r] # s}
  BY <1>1 DEF Queued
<1> HIDE DEF here, elsewhere
<1>5. entries'[s] = Keep(queue, here) /\ \A t \in Shards \ {s} : entries'[t] = entries[t]
  BY <1>3 DEF TypeInv, DrainTypes
<1>6. Extracted(s)' = Range(Keep(queue, here)) /\ Queued' = Range(Keep(queue, elsewhere))
  BY <1>3, <1>5 DEF Extracted, Queued
<1>7. \A t \in Shards \ {s} : Extracted(t)' = Extracted(t)
  BY <1>5 DEF Extracted
<1>8. Extracted(s) = {}
  <2>1. entries[s] = <<>>
    BY DEF DrainEntriesForShard, PhaseInv
  <2> QED
    BY <2>1 DEF Extracted, Range
<1> QED
  BY <1>2, <1>3, <1>4, <1>5, <1>6, <1>7, <1>8 DEF Popped

\* drainEntry takes the first of the shard's entries.
LEMMA DrainMoves ==
  ASSUME TypeInv, Places, NEW s \in Shards, DrainEntry(s)
  PROVE  /\ Head(entries[s]) \in Extracted(s) /\ Head(entries[s]) \in Requests
         /\ IsInjective(entries'[s])
         /\ Extracted(s)' = Extracted(s) \ {Head(entries[s])}
         /\ draining'[s] = draining[s] \cup {Head(entries[s])}
         /\ \A t \in Shards \ {s} :
              /\ entries'[t] = entries[t] /\ Extracted(t)' = Extracted(t)
              /\ draining'[t] = draining[t]
         /\ UNCHANGED queue /\ Queued' = Queued /\ Popped' = Popped
<1>1. entries[s] \in Seq(Requests) /\ entries[s] # <<>> /\ IsInjective(entries[s])
  BY DEF DrainEntry, TypeInv, DrainTypes, Places
<1>2. /\ entries'[s] = Tail(entries[s]) /\ draining'[s] = draining[s] \cup {Head(entries[s])}
      /\ \A t \in Shards \ {s} : entries'[t] = entries[t] /\ draining'[t] = draining[t]
  BY DEF DrainEntry, TypeInv, DrainTypes
<1>3. UNCHANGED <<queue, ttPc, ttHead>>
  BY DEF DrainEntry, bufVars, ttVars
<1>4. /\ Head(entries[s]) \in Range(entries[s]) /\ Head(entries[s]) \in Requests
      /\ Range(Tail(entries[s])) = Range(entries[s]) \ {Head(entries[s])}
      /\ IsInjective(Tail(entries[s]))
  BY <1>1, TailElements
<1> QED
  BY <1>2, <1>3, <1>4 DEF Extracted, Queued, Popped

\* The timeout thread takes the head of the queue.
LEMMA PopMoves ==
  ASSUME TypeInv, Places, TTPopHead
  PROVE  /\ Head(queue) \in Queued /\ Head(queue) \in Requests /\ IsInjective(queue')
         /\ Queued' = Queued \ {Head(queue)} /\ Popped = {} /\ Popped' = {Head(queue)}
         /\ ttPc' = "evicting" /\ ttHead' = Head(queue)
         /\ \A s \in Shards : Extracted(s)' = Extracted(s)
<1>1. queue \in Seq(Requests) /\ queue # <<>> /\ IsInjective(queue)
  BY DEF TTPopHead, TypeInv, QueueTypes, Places
<1>2. /\ queue' = Tail(queue) /\ ttPc = "armed" /\ ttPc' = "evicting" /\ ttHead' = Head(queue)
      /\ UNCHANGED entries
  BY DEF TTPopHead, PoppedQueue, drainVars
<1> QED
  BY <1>1, <1>2, TailElements DEF Queued, Extracted, Popped

\* CancelWait: the request forgets its entry; whoever else owns it closes it later.
LEMMA CancelOwners ==
  ASSUME TypeInv, OwnerInv, NEW r \in Requests, CancelWait(r)
  PROVE  OwnerInv'
<1>1. /\ Queued' = Queued \ {r} /\ IsInjective(queue')
      /\ \A s \in Shards : Extracted(s)' = Extracted(s)
      /\ Popped' = Popped
  BY CancelMoves DEF OwnerInv
<1>2. /\ UNCHANGED <<entryDone, draining, retryDone, entries>>
      /\ pc' = [pc EXCEPT ![r] = "returned"] /\ pc[r] = "waiting"
  BY DEF CancelWait, drainVars, Waiting
<1>3. Places'
  BY <1>1, <1>2 DEF OwnerInv, Places
<1>4. Owned' \subseteq Owned /\ \A q \in Owned : q # r => q \in Owned'
  BY <1>1 DEF Owned
<1>5. pc'[r] = "returned" /\ \A q \in Requests \ {r} : pc'[q] = pc[q]
  BY <1>2 DEF TypeInv, RequestTypes
<1>6. DoneOnce'
  BY <1>2, <1>4, <1>5 DEF OwnerInv, DoneOnce, Waiting
<1> QED
  BY <1>3, <1>6 DEF OwnerInv

\* The steps of a shard.
LEMMA ShardOwners ==
  ASSUME TypeInv, PhaseInv, OwnerInv, NEW s \in Shards,
         \/ StopBuffering(s) \/ TimerFires(s)
         \/ \E g \in 1..generation[s] : MaxDurationExceeded(s, g)
         \/ DrainEntriesForShard(s) \/ LaunchDrain(s) \/ DrainEntry(s) \/ DrainComplete(s)
         \/ \E r \in Requests : DrainEntryDone(s, r)
         \/ PrimaryStops(s) \/ PrimaryServes(s) \/ HealthReport(s) \/ GapElapses(s)
  PROVE  OwnerInv'
<1>1. CASE \/ StopBuffering(s) \/ TimerFires(s)
           \/ \E g \in 1..generation[s] : MaxDurationExceeded(s, g)
           \/ LaunchDrain(s) \/ DrainComplete(s)
           \/ PrimaryStops(s) \/ PrimaryServes(s) \/ HealthReport(s) \/ GapElapses(s)
  <2>1. UNCHANGED <<queue, entries, entryDone, pc, retryDone, draining, ttPc, ttHead>>
    BY <1>1 DEF StopBuffering, TimerFires, MaxDurationExceeded, LaunchDrain, DrainComplete,
       PrimaryStops, PrimaryServes, HealthReport, GapElapses, reqVars, entryVars, bufVars,
       drainVars, ttVars
  <2>2. Popped' = Popped
    BY <2>1 DEF Popped
  <2> QED
    BY <2>1, <2>2, OwnersKept
<1>2. CASE DrainEntriesForShard(s)
  <2>1. /\ IsInjective(queue') /\ IsInjective(entries'[s]) /\ Extracted(s) = {}
        /\ Queued' = {r \in Queued : ShardOf[r] # s}
        /\ Extracted(s)' = {r \in Queued : ShardOf[r] = s}
        /\ \A t \in Shards \ {s} : entries'[t] = entries[t] /\ Extracted(t)' = Extracted(t)
        /\ Popped' = Popped
    BY <1>2, ExtractMoves DEF OwnerInv
  <2>2. UNCHANGED <<entryDone, pc, retryDone, draining>>
    BY <1>2 DEF DrainEntriesForShard, reqVars, entryVars
  <2>3. Places'
    BY <2>1 DEF OwnerInv, Places
  <2>4. Owned' = Owned
    BY <2>1 DEF Owned
  <2>5. DoneOnce'
    BY <2>2, <2>4 DEF OwnerInv, DoneOnce, Waiting
  <2> QED
    BY <2>3, <2>5 DEF OwnerInv
<1>3. CASE DrainEntry(s)
  <2> DEFINE h == Head(entries[s])
  <2>1. /\ h \in Extracted(s) /\ h \in Requests /\ IsInjective(entries'[s])
        /\ Extracted(s)' = Extracted(s) \ {h} /\ draining'[s] = draining[s] \cup {h}
        /\ \A t \in Shards \ {s} : /\ entries'[t] = entries[t] /\ Extracted(t)' = Extracted(t)
                                   /\ draining'[t] = draining[t]
        /\ UNCHANGED queue /\ Queued' = Queued /\ Popped' = Popped
    BY <1>3, DrainMoves DEF OwnerInv
  <2>2. UNCHANGED <<pc, retryDone>> /\ entryDone' = [entryDone EXCEPT ![h] = "retry"]
    BY <1>3 DEF DrainEntry, reqVars
  <2> HIDE DEF h
  <2>3. Places'
    BY <2>1 DEF OwnerInv, Places
  <2>4. h \in Owned /\ ShardOf[h] = s /\ entryDone[h] = "open" /\ pc[h] \in {"waiting", "returned"}
    BY <2>1, OwnedParts DEF OwnerInv, Places, DoneOnce
  <2>5. Owned' = Owned \ {h}
    <3>1. h \notin Queued /\ h \notin Popped /\ \A t \in Shards \ {s} : h \notin Extracted(t)
      BY <2>1, <2>4 DEF OwnerInv, Places
    <3> QED
      BY <2>1, <3>1 DEF Owned
  <2>6. entryDone'[h] = "retry" /\ \A q \in Requests \ {h} : entryDone'[q] = entryDone[q]
    BY <2>1, <2>2 DEF TypeInv, EntryTypes
  <2>7. \A t \in Shards : draining[t] \subseteq Requests
    BY DEF TypeInv, DrainTypes
  <2>8. DoneOnce'
    BY <2>1, <2>2, <2>4, <2>5, <2>6, <2>7 DEF OwnerInv, DoneOnce, Waiting
  <2> QED
    BY <2>3, <2>8 DEF OwnerInv
<1>4. ASSUME NEW r \in Requests, DrainEntryDone(s, r) PROVE OwnerInv'
  <2>1. UNCHANGED <<queue, entries, entryDone, pc, retryDone, ttPc, ttHead>>
    BY <1>4 DEF DrainEntryDone, reqVars, entryVars, ttVars
  <2>2. \A t \in Shards : draining'[t] \subseteq draining[t]
    BY <1>4 DEF DrainEntryDone, TypeInv, DrainTypes
  <2>3. Popped' = Popped
    BY <2>1 DEF Popped
  <2> QED
    BY <2>1, <2>2, <2>3, OwnersKept
<1> QED
  BY <1>1, <1>2, <1>3, <1>4

\* The steps of the timeout thread and of Shutdown.
LEMMA ThreadOwners ==
  ASSUME TypeInv, OwnerInv,
         \/ TTCheck \/ TTNotified \/ TTPopHead \/ TTRecheck \/ TTRelease \/ TTClose \/ TTStop
         \/ ShutdownStart \/ ShutdownCancel \/ ShutdownWait
  PROVE  OwnerInv'
<1>1. CASE TTCheck \/ TTNotified \/ TTRecheck \/ TTRelease \/ TTStop
           \/ ShutdownCancel \/ ShutdownWait
  <2>1. UNCHANGED <<queue, entries, entryDone, pc, retryDone, draining>>
    BY <1>1 DEF TTCheck, TTNotified, TTRecheck, TTRelease, TTStop, ShutdownCancel, ShutdownWait,
       reqVars, entryVars, bufVars, drainVars
  <2>2. Popped' = Popped
    BY <1>1 DEF TTCheck, TTNotified, TTRecheck, TTRelease, TTStop, ShutdownCancel, ShutdownWait,
       ttVars, Popped
  <2> QED
    BY <2>1, <2>2, OwnersKept
<1>2. CASE TTPopHead
  <2>1. /\ Head(queue) \in Queued /\ IsInjective(queue')
        /\ Queued' = Queued \ {Head(queue)} /\ Popped = {} /\ Popped' = {Head(queue)}
        /\ \A s \in Shards : Extracted(s)' = Extracted(s)
    BY <1>2, PopMoves DEF OwnerInv
  <2>2. UNCHANGED <<entries, entryDone, pc, retryDone, draining>>
    BY <1>2 DEF TTPopHead, reqVars, entryVars, drainVars
  <2>3. Places'
    BY <2>1, <2>2 DEF OwnerInv, Places
  <2>4. Owned' = Owned
    BY <2>1 DEF Owned
  <2>5. DoneOnce'
    BY <2>2, <2>4 DEF OwnerInv, DoneOnce, Waiting
  <2> QED
    BY <2>3, <2>5 DEF OwnerInv
<1>3. CASE TTClose
  <2>1. Popped = {ttHead} /\ Popped' = {} /\ UNCHANGED <<queue, entries, pc, retryDone, draining>>
    BY <1>3 DEF TTClose, Popped, reqVars, bufVars, drainVars
  <2>2. Queued' = Queued /\ \A s \in Shards : Extracted(s)' = Extracted(s)
    BY <2>1 DEF Queued, Extracted
  <2>3. Places'
    BY <2>1, <2>2 DEF OwnerInv, Places
  <2>4. /\ ttHead \in Owned /\ ttHead \in Requests /\ entryDone[ttHead] = "open"
        /\ pc[ttHead] \in {"waiting", "returned"}
    BY <2>1, OwnedParts DEF OwnerInv, DoneOnce
  <2>5. Owned' = Owned \ {ttHead}
    <3>1. ttHead \notin Queued /\ \A s \in Shards : ttHead \notin Extracted(s)
      BY <2>1 DEF OwnerInv, Places
    <3> QED
      BY <2>1, <2>2, <3>1 DEF Owned
  <2>6. entryDone'[ttHead] = "MTB02" /\ \A q \in Requests \ {ttHead} : entryDone'[q] = entryDone[q]
    BY <1>3, <2>4 DEF TTClose, TypeInv, EntryTypes
  <2>7. \A t \in Shards : draining[t] \subseteq Requests
    BY DEF TypeInv, DrainTypes
  <2>8. DoneOnce'
    BY <2>1, <2>4, <2>5, <2>6, <2>7 DEF OwnerInv, DoneOnce, Waiting
  <2> QED
    BY <2>3, <2>8 DEF OwnerInv
<1>4. CASE ShutdownStart
  <2>1. /\ queue' = <<>> /\ UNCHANGED <<entries, ttPc, ttHead, pc, retryDone, draining>>
        /\ \A q \in Requests : entryDone'[q] = IF q \in Queued THEN "MTB03" ELSE entryDone[q]
    BY <1>4 DEF ShutdownStart, reqVars, drainVars, ttVars
  <2>2. Queued' = {} /\ IsInjective(queue')
    BY <2>1 DEF Queued, Range, IsInjective
  <2>3. Popped' = Popped /\ \A s \in Shards : Extracted(s)' = Extracted(s)
    BY <2>1 DEF Popped, Extracted
  <2>4. Places'
    BY <2>1, <2>2, <2>3 DEF OwnerInv, Places
  <2>5. Owned' = Owned \ Queued
    <3>1. Queued \cap Popped = {} /\ \A s \in Shards : Queued \cap Extracted(s) = {}
      BY DEF OwnerInv, Places
    <3> QED
      BY <2>2, <2>3, <3>1 DEF Owned
  <2>6. \A q \in Queued : /\ q \in Requests /\ entryDone[q] = "open"
                          /\ pc[q] \in {"waiting", "returned"}
    BY OwnedParts DEF OwnerInv, DoneOnce
  <2>7. \A t \in Shards : draining[t] \subseteq Requests
    BY DEF TypeInv, DrainTypes
  <2>8. DoneOnce'
    BY <2>1, <2>5, <2>6, <2>7 DEF OwnerInv, DoneOnce, Waiting
  <2> QED
    BY <2>4, <2>8 DEF OwnerInv
<1> QED
  BY <1>1, <1>2, <1>3, <1>4

\* Every step preserves the ownership.
LEMMA StepOwners == TypeInv /\ PhaseInv /\ OwnerInv /\ [Step]_<<vars, scenario>> => OwnerInv'
<1> SUFFICES ASSUME TypeInv, PhaseInv, OwnerInv, [Step]_<<vars, scenario>> PROVE OwnerInv'
  OBVIOUS
<1>1. CASE UNCHANGED <<vars, scenario>>
  <2>1. UNCHANGED <<queue, entries, entryDone, pc, retryDone, draining, ttPc, ttHead>>
    BY <1>1 DEF vars, reqVars, entryVars, bufVars, drainVars, ttVars
  <2>2. Popped' = Popped
    BY <2>1 DEF Popped
  <2> QED
    BY <2>1, <2>2, OwnersKept
<1>2. CASE Step
  BY <1>2, RequestOwners, EnqueueOwners, CancelOwners, ShardOwners, ThreadOwners DEF Step, Next
<1> QED
  BY <1>1, <1>2

\* Nobody owns anything at first.
LEMMA InitOwners == Init => OwnerInv
<1> SUFFICES ASSUME Init PROVE OwnerInv
  OBVIOUS
<1>1. Queued = {} /\ Popped = {} /\ IsInjective(queue)
  BY DEF Init, Queued, Popped, Range, IsInjective
<1>2. \A s \in Shards : Extracted(s) = {} /\ IsInjective(entries[s]) /\ draining[s] = {}
  BY DEF Init, Extracted, Range, IsInjective
<1>3. Places
  BY <1>1, <1>2 DEF Places
<1>4. Owned = {}
  BY <1>1, <1>2 DEF Owned
<1>5. DoneOnce
  BY <1>2, <1>4 DEF DoneOnce, Waiting, Init
<1> QED
  BY <1>3, <1>5 DEF OwnerInv

\* Types, phases and ownership.
BufferInv == TypeInv /\ PhaseInv /\ OwnerInv

\* They always hold.
LEMMA BufferAlways == Spec => []BufferInv
<1>1. Init => BufferInv
  BY InitTypes, InitOwners DEF Init, PhaseInv, BufferInv
<1>2. BufferInv /\ [Step]_<<vars, scenario>> => BufferInv'
  BY StepTypes, StepPhases, StepOwners DEF BufferInv
<1> QED
  BY <1>1, <1>2, PTL DEF Spec, Step

\* An entry has one owner and its owner finds done open, for any number of
\* requests, shards, evictions, timeouts, drains and cancellations: the channel is
\* never closed twice and no waiter is lost.
THEOREM EntriesHaveOneOwner == Spec => []OneOwner
<1>1. BufferInv => OneOwner
  BY OwnerInvSuffices DEF BufferInv
<1> QED
  BY <1>1, BufferAlways, PTL
-----------------------------------------------------------------------------
\* Why buffering ends.

\* Buffering of a shard ends only for a report of a serving primary, for the timer
\* of this very failover, or in Shutdown: a drain that goes back to IDLE was
\* DRAINING, and a timer callback of an earlier failover carries its generation.
THEOREM BufferingEndsOnlyForCause == Spec => BufferingEndsForCause
<1>1. BufferInv /\ [Step]_<<vars, scenario>> =>
        [\A s \in Shards : state[s] = "BUFFERING" /\ state'[s] # "BUFFERING" =>
           \/ s \in reports /\ s \notin reports'
           \/ <<s, generation[s]>> \in fired /\ <<s, generation[s]>> \notin fired'
           \/ shutdown' # shutdown]_vars
  <2> SUFFICES ASSUME BufferInv, Next, NEW s \in Shards, state[s] = "BUFFERING",
                      state'[s] # "BUFFERING"
               PROVE  \/ s \in reports /\ s \notin reports'
                      \/ <<s, generation[s]>> \in fired /\ <<s, generation[s]>> \notin fired'
                      \/ shutdown' # shutdown
    BY DEF Step
  <2>1. ASSUME NEW r \in Requests,
               \/ WaitIfAlreadyBuffering(r) \/ Send(r) \/ Enqueue(r) \/ WakeUp(r)
               \/ CancelWait(r) \/ ClientCancels(r)
        PROVE  FALSE
    BY <2>1 DEF WaitIfAlreadyBuffering, Send, SendFails, SendReturns, Enqueue, WakeUp,
       CancelWait, ClientCancels, shardVars
  <2>2. ASSUME NEW r \in Requests, WaitForFailoverEnd(r) PROVE FALSE
    <3>1. UNCHANGED state \/ state' = [state EXCEPT ![ShardOf[r]] = "BUFFERING"]
      BY <2>2 DEF WaitForFailoverEnd
    <3> QED
      BY <3>1 DEF BufferInv, TypeInv, ShardTypes
  <2>3. ASSUME NEW t \in Shards, StopBuffering(t) PROVE s \in reports /\ s \notin reports'
    BY <2>3 DEF StopBuffering, Stop, BufferInv, TypeInv, ShardTypes
  <2>4. ASSUME NEW t \in Shards, NEW g \in 1..generation[t], MaxDurationExceeded(t, g)
        PROVE  <<s, generation[s]>> \in fired /\ <<s, generation[s]>> \notin fired'
    <3>1. t = s /\ generation[s] = g
      BY <2>4 DEF MaxDurationExceeded, Stop, ForGeneration, BufferInv, TypeInv, ShardTypes
    <3> QED
      BY <2>4, <3>1 DEF MaxDurationExceeded
  <2>5. ASSUME NEW t \in Shards, LaunchDrain(t) \/ DrainComplete(t) PROVE FALSE
    <3>1. state[t] = "DRAINING"
      BY <2>5 DEF LaunchDrain, DrainComplete, BufferInv, PhaseInv
    <3>2. UNCHANGED state \/ state' = [state EXCEPT ![t] = "IDLE"]
      BY <2>5 DEF LaunchDrain, DrainComplete
    <3> QED
      BY <3>1, <3>2 DEF BufferInv, TypeInv, ShardTypes
  <2>6. ASSUME NEW t \in Shards,
               \/ TimerFires(t) \/ DrainEntriesForShard(t) \/ DrainEntry(t)
               \/ \E r \in Requests : DrainEntryDone(t, r)
               \/ PrimaryStops(t) \/ PrimaryServes(t) \/ HealthReport(t) \/ GapElapses(t)
        PROVE  FALSE
    BY <2>6 DEF TimerFires, DrainEntriesForShard, DrainEntry, DrainEntryDone, PrimaryStops,
       PrimaryServes, HealthReport, GapElapses, shardVars
  <2>7. CASE \/ TTCheck \/ TTNotified \/ TTPopHead \/ TTRecheck \/ TTRelease \/ TTClose \/ TTStop
             \/ ShutdownStart \/ ShutdownCancel \/ ShutdownWait
    BY <2>7 DEF TTCheck, TTNotified, TTPopHead, TTRecheck, TTRelease, TTClose, TTStop,
       ShutdownStart, ShutdownCancel, ShutdownWait, shardVars
  <2> QED
    BY <2>1, <2>2, <2>3, <2>4, <2>5, <2>6, <2>7 DEF Next
<1> QED
  BY <1>1, BufferAlways, PTL DEF Spec, Step, BufferingEndsForCause

-----------------------------------------------------------------------------
\* Backpressure of a drain.

\* A retry is counted by its drain until the request has returned, or Shutdown has
\* cancelled every entry.
RetryInv ==
  /\ \A s \in Shards : IsFiniteSet(draining[s]) /\ Cardinality(draining[s]) <= DrainConcurrency
  /\ \A r \in Requests : entryDone[r] = "retry" => r \in draining[ShardOf[r]] \cup cancelled
  /\ \A r \in cancelled : shutdown \in {"no", "cancel"} => pc[r] = "returned"

\* It bounds the retries.
LEMMA RetryInvSuffices == BufferInv /\ RetryInv => DrainBackpressure
<1> SUFFICES ASSUME BufferInv, RetryInv, NEW s \in Shards, shutdown \in {"no", "cancel"}
             PROVE  Cardinality({r \in Requests : /\ pc[r] = "send" /\ ShardOf[r] = s
                                                  /\ retryDone[r] = "bufferCancel"})
                      <= DrainConcurrency
  BY DEF DrainBackpressure
<1> DEFINE R == {r \in Requests : pc[r] = "send" /\ ShardOf[r] = s /\ retryDone[r] = "bufferCancel"}
<1>1. R \in SUBSET draining[s]
  <2> SUFFICES ASSUME NEW r \in Requests, pc[r] = "send", ShardOf[r] = s,
                      retryDone[r] = "bufferCancel"
               PROVE  r \in draining[s]
    OBVIOUS
  <2>1. entryDone[r] = "retry"
    BY DEF BufferInv, OwnerInv, DoneOnce
  <2> QED
    BY <2>1 DEF RetryInv
<1>2. IsFiniteSet(draining[s]) /\ Cardinality(draining[s]) <= DrainConcurrency
  BY DEF RetryInv
<1>3. Cardinality(R) <= Cardinality(draining[s])
  BY <1>1, <1>2, FS_Subset
<1>4. Cardinality(R) \in Nat /\ Cardinality(draining[s]) \in Nat /\ DrainConcurrency \in Nat
  BY <1>1, <1>2, FS_Subset, FS_CardinalityType, BufferAssumption
<1> QED
  BY <1>2, <1>3, <1>4

\* Steps that close no channel with a retry and end no drain.
LEMMA RetriesKept ==
  ASSUME RetryInv, UNCHANGED <<draining, shutdown>>, cancelled \subseteq cancelled',
         \A r \in Requests : entryDone'[r] = "retry" => entryDone[r] = "retry",
         \A r \in cancelled' : shutdown \in {"no", "cancel"} => pc'[r] = "returned"
  PROVE  RetryInv'
BY DEF RetryInv

\* A step of one request: it leaves "returned" never, and cancels its own entry at
\* most when it returns.
LEMMA RequestRetries ==
  ASSUME BufferInv, RetryInv, NEW r \in Requests,
         \/ WaitIfAlreadyBuffering(r) \/ Send(r) \/ WaitForFailoverEnd(r) \/ Enqueue(r)
         \/ WakeUp(r) \/ CancelWait(r) \/ ClientCancels(r)
  PROVE  RetryInv'
<1>1. UNCHANGED <<draining, shutdown>>
  BY DEF WaitIfAlreadyBuffering, Send, SendFails, SendReturns, WaitForFailoverEnd, Enqueue, WakeUp,
     CancelWait, ClientCancels, bufVars, drainVars
<1>2. \A q \in Requests : entryDone'[q] = "retry" => entryDone[q] = "retry"
  BY DEF WaitIfAlreadyBuffering, Send, SendFails, SendReturns, WaitForFailoverEnd, Enqueue, WakeUp,
     CancelWait, ClientCancels, entryVars, BufferInv, TypeInv, EntryTypes
<1>3. /\ pc[r] # "returned" /\ \A q \in Requests \ {r} : pc'[q] = pc[q]
      /\ \/ cancelled' = cancelled
         \/ cancelled' = cancelled \cup {r} /\ pc'[r] = "returned"
  BY DEF WaitIfAlreadyBuffering, Send, SendFails, SendReturns, WaitForFailoverEnd, Enqueue, WakeUp,
     CancelWait, ClientCancels, Return, BufferCancel, Waiting, entryVars, BufferInv, TypeInv,
     RequestTypes
<1>4. \A q \in cancelled' : shutdown \in {"no", "cancel"} => pc'[q] = "returned"
  BY <1>3 DEF RetryInv, BufferInv, TypeInv, EntryTypes
<1> QED
  BY <1>1, <1>2, <1>3, <1>4, RetriesKept

\* drainEntry counts the entry it lets go, and gives it back after the retry.
LEMMA DrainRetries ==
  ASSUME BufferInv, RetryInv, NEW s \in Shards,
         DrainEntry(s) \/ \E r \in Requests : DrainEntryDone(s, r)
  PROVE  RetryInv'
<1>1. CASE DrainEntry(s)
  <2> DEFINE h == Head(entries[s])
  <2>1. /\ h \in Requests /\ h \in Extracted(s) /\ draining'[s] = draining[s] \cup {h}
        /\ \A t \in Shards \ {s} : draining'[t] = draining[t]
    BY <1>1, DrainMoves DEF BufferInv, OwnerInv
  <2>2. /\ entryDone' = [entryDone EXCEPT ![h] = "retry"] /\ UNCHANGED <<cancelled, shutdown, pc>>
        /\ Cardinality(draining[s]) < DrainConcurrency
    BY <1>1 DEF DrainEntry, bufVars, reqVars
  <2> HIDE DEF h
  <2>3. ShardOf[h] = s
    BY <2>1 DEF BufferInv, OwnerInv, Places
  <2>4. IsFiniteSet(draining'[s]) /\ Cardinality(draining'[s]) <= DrainConcurrency
    <3>1. IsFiniteSet(draining[s]) /\ Cardinality(draining[s]) \in Nat
      BY FS_CardinalityType DEF RetryInv
    <3>2. /\ IsFiniteSet(draining[s] \cup {h})
          /\ \/ Cardinality(draining[s] \cup {h}) = Cardinality(draining[s])
             \/ Cardinality(draining[s] \cup {h}) = Cardinality(draining[s]) + 1
      BY <3>1, FS_AddElement
    <3>3. DrainConcurrency \in Nat
      BY BufferAssumption
    <3>4. Cardinality(draining[s] \cup {h}) <= DrainConcurrency
      BY <2>2, <3>1, <3>2, <3>3
    <3> QED
      BY <2>1, <3>2, <3>4
  <2>5. \A q \in Requests \ {h} : entryDone'[q] = entryDone[q]
    BY <2>2 DEF BufferInv, TypeInv, EntryTypes
  <2>6. \A q \in Requests : draining[ShardOf[q]] \subseteq draining'[ShardOf[q]]
    BY <2>1, BufferAssumption
  <2> QED
    BY <2>1, <2>2, <2>3, <2>4, <2>5, <2>6 DEF RetryInv
<1>2. ASSUME NEW r \in Requests, DrainEntryDone(s, r) PROVE RetryInv'
  <2>1. /\ r \in cancelled /\ UNCHANGED <<entryDone, cancelled, shutdown, pc>>
        /\ draining'[s] = draining[s] \ {r} /\ \A t \in Shards \ {s} : draining'[t] = draining[t]
    BY <1>2 DEF DrainEntryDone, entryVars, reqVars, BufferInv, TypeInv, DrainTypes
  <2>2. IsFiniteSet(draining'[s]) /\ Cardinality(draining'[s]) <= DrainConcurrency
    <3>1. IsFiniteSet(draining[s]) /\ Cardinality(draining[s]) \in Nat
      BY FS_CardinalityType DEF RetryInv
    <3>2. /\ IsFiniteSet(draining[s] \ {r})
          /\ Cardinality(draining[s] \ {r}) <= Cardinality(draining[s])
          /\ Cardinality(draining[s] \ {r}) \in Nat
      BY <3>1, FS_Subset, FS_CardinalityType
    <3> QED
      BY <2>1, <3>1, <3>2, BufferAssumption DEF RetryInv
  <2>3. \A q \in Requests : q # r => (q \in draining[ShardOf[q]] => q \in draining'[ShardOf[q]])
    BY <2>1, BufferAssumption
  <2> QED
    BY <2>1, <2>2, <2>3 DEF RetryInv
<1> QED
  BY <1>1, <1>2

\* Every step keeps the retries counted.
LEMMA StepRetries == BufferInv /\ RetryInv /\ [Step]_<<vars, scenario>> => RetryInv'
<1> SUFFICES ASSUME BufferInv, RetryInv, [Step]_<<vars, scenario>> PROVE RetryInv'
  OBVIOUS
<1>1. ASSUME NEW s \in Shards,
             \/ StopBuffering(s) \/ TimerFires(s)
             \/ \E g \in 1..generation[s] : MaxDurationExceeded(s, g)
             \/ DrainEntriesForShard(s) \/ LaunchDrain(s) \/ DrainComplete(s)
             \/ PrimaryStops(s) \/ PrimaryServes(s) \/ HealthReport(s) \/ GapElapses(s)
      PROVE  RetryInv'
  <2>1. UNCHANGED <<entryDone, pc, draining, cancelled, shutdown>>
    BY <1>1 DEF StopBuffering, TimerFires, MaxDurationExceeded, DrainEntriesForShard, LaunchDrain,
       DrainComplete, PrimaryStops, PrimaryServes, HealthReport, GapElapses, reqVars, entryVars,
       bufVars, drainVars
  <2> QED
    BY <2>1 DEF RetryInv
<1>2. CASE \/ TTCheck \/ TTNotified \/ TTPopHead \/ TTRecheck \/ TTRelease \/ TTStop
           \/ UNCHANGED <<vars, scenario>>
  <2>1. UNCHANGED <<entryDone, pc, draining, cancelled, shutdown>>
    BY <1>2 DEF TTCheck, TTNotified, TTPopHead, TTRecheck, TTRelease, TTStop, vars, reqVars,
       entryVars, bufVars, drainVars
  <2> QED
    BY <2>1 DEF RetryInv
<1>3. CASE TTClose
  <2>1. /\ UNCHANGED <<pc, draining, cancelled, shutdown>>
        /\ \A r \in Requests : entryDone'[r] = "retry" => entryDone[r] = "retry"
    BY <1>3 DEF TTClose, reqVars, bufVars, drainVars, BufferInv, TypeInv, EntryTypes
  <2> QED
    BY <2>1 DEF RetryInv
<1>4. CASE ShutdownStart
  <2>1. /\ UNCHANGED <<pc, draining, cancelled>> /\ shutdown = "no" /\ shutdown' = "cancel"
        /\ \A r \in Requests : entryDone'[r] = "retry" => entryDone[r] = "retry"
    BY <1>4 DEF ShutdownStart, reqVars, drainVars
  <2> QED
    BY <2>1 DEF RetryInv
<1>5. CASE ShutdownCancel
  <2>1. UNCHANGED <<draining>> /\ shutdown' = "wait" /\ cancelled' = Requests
    BY <1>5 DEF ShutdownCancel, drainVars
  <2> QED
    BY <2>1 DEF RetryInv
<1>6. CASE ShutdownWait
  <2>1. UNCHANGED <<entryDone, draining, cancelled>> /\ shutdown' = "done"
    BY <1>6 DEF ShutdownWait, drainVars, entryVars
  <2> QED
    BY <2>1 DEF RetryInv
<1> QED
  BY <1>1, <1>2, <1>3, <1>4, <1>5, <1>6, RequestRetries, DrainRetries DEF Step, Next

\* At most DrainConcurrency drained requests of a shard are being retried at any
\* moment before Shutdown cancels them, however often each of them bounces.
THEOREM DrainsApplyBackpressure == Spec => []DrainBackpressure
<1>1. Init => RetryInv
  BY FS_EmptySet, BufferAssumption DEF Init, RetryInv
<1> QED
  BY <1>1, BufferAlways, StepRetries, RetryInvSuffices, PTL DEF Spec, Step
-----------------------------------------------------------------------------
\* Slots.

\* The slots count a finite set of entries.
SlotInv == IsFiniteSet(Held) /\ SlotsAccounted

\* The entry whose slot the timeout thread is about to release.
Evicting == IF ttPc = "evicting" THEN {ttHead} ELSE {}

\* Who holds a slot.
LEMMA HeldParts ==
  \A x : x \in Held <=> \/ x \in Queued \/ x \in Evicting
                        \/ \E s \in Shards : x \in Extracted(s) \/ x \in draining[s]
BY DEF Held, Evicting

\* Who holds a slot in the next state.
LEMMA HeldPartsNext ==
  \A x : x \in Held' <=> \/ x \in Queued' \/ x \in Evicting'
                         \/ \E s \in Shards : x \in Extracted(s)' \/ x \in draining'[s]
BY DEF Held, Evicting

\* The entries that hold a slot are the same: so is their number.
LEMMA SlotsKept ==
  ASSUME SlotInv, Held' = Held, UNCHANGED <<slots, scenario>>, Stopped => Stopped'
  PROVE  SlotInv'
BY DEF SlotInv, SlotsAccounted, Size

\* One entry stops holding its slot, and the slot is given back.
LEMMA SlotReleased ==
  ASSUME TypeInv, SlotInv, NEW x \in Held, Held' = Held \ {x}, slots' = slots - 1,
         UNCHANGED scenario, Stopped => Stopped'
  PROVE  SlotInv'
<1>1. Cardinality(Held) \in Nat /\ slots \in Int /\ Size \in Nat
  BY FS_CardinalityType DEF SlotInv, TypeInv, QueueTypes, WorldTypes, ScenarioType, Size
<1>2. IsFiniteSet(Held \ {x}) /\ Cardinality(Held \ {x}) = Cardinality(Held) - 1
  BY FS_RemoveElement DEF SlotInv
<1>3. Size' = Size
  BY DEF Size
<1>4. slots <= Size /\ Cardinality(Held) <= slots /\ (~Stopped => slots = Cardinality(Held))
  BY DEF SlotInv, SlotsAccounted
<1>5. /\ slots' <= Size' /\ Cardinality(Held \ {x}) <= slots'
      /\ ~Stopped' => slots' = Cardinality(Held \ {x})
  BY <1>1, <1>2, <1>3, <1>4
<1> QED
  BY <1>2, <1>5 DEF SlotInv, SlotsAccounted

\* A step that moves no entry keeps the slots.
LEMMA SlotsUntouched ==
  ASSUME SlotInv, UNCHANGED <<queue, entries, draining, slots, shutdown, scenario>>,
         Evicting' = Evicting
  PROVE  SlotInv'
<1>1. Queued' = Queued /\ \A s \in Shards : Extracted(s)' = Extracted(s)
  BY DEF Queued, Extracted
<1>2. Held' = Held
  BY <1>1, HeldParts, HeldPartsNext
<1> QED
  BY <1>2, SlotsKept DEF Stopped

\* enqueue takes a free slot, or the one of the oldest entry.
LEMMA EnqueueSlots ==
  ASSUME BufferInv, SlotInv, NEW r \in Requests, Enqueue(r), UNCHANGED scenario
  PROVE  SlotInv'
<1>1. /\ pc[r] = "enqueue" /\ r \notin Owned /\ entryDone[r] = "open"
      /\ queue \in Seq(Requests) /\ IsInjective(queue)
  BY DEF BufferInv, OwnerInv, DoneOnce, Places, Enqueue, TypeInv, QueueTypes
<1>2. UNCHANGED <<entries, ttPc, ttHead, draining, shutdown>> /\ Evicting' = Evicting
      /\ \A s \in Shards : Extracted(s)' = Extracted(s)
  BY DEF Enqueue, drainVars, Evicting, Extracted
<1>3. r \notin Held
  <2>1. \A s \in Shards : r \notin draining[s]
    BY <1>1 DEF BufferInv, OwnerInv, DoneOnce
  <2>2. Evicting \subseteq Popped
    BY DEF Evicting, Popped
  <2> QED
    BY <1>1, <2>1, <2>2, HeldParts, OwnedParts
<1>4. /\ Cardinality(Held) \in Nat /\ slots \in Int /\ Size \in Nat /\ Size' = Size
      /\ Stopped' <=> Stopped
  BY <1>2, FS_CardinalityType
  DEF SlotInv, BufferInv, TypeInv, QueueTypes, WorldTypes, ScenarioType, Size, Stopped
<1>5. slots <= Size /\ Cardinality(Held) <= slots /\ (~Stopped => slots = Cardinality(Held))
  BY DEF SlotInv, SlotsAccounted
<1>6. CASE UNCHANGED <<queue, slots>>
  BY <1>2, <1>6, SlotsUntouched
<1>7. CASE ~Stopped /\ slots < Size /\ slots' = slots + 1 /\ queue' = Append(queue, r)
  <2>1. Queued' = Queued \cup {r}
    BY <1>1, <1>7, AppendElements DEF Queued
  <2>2. Held' = Held \cup {r}
    BY <1>2, <2>1, HeldParts, HeldPartsNext
  <2>3. IsFiniteSet(Held \cup {r}) /\ Cardinality(Held \cup {r}) = Cardinality(Held) + 1
    BY <1>3, FS_AddElement DEF SlotInv
  <2>4. slots' <= Size' /\ Cardinality(Held \cup {r}) = slots'
    BY <1>4, <1>5, <1>7, <2>3
  <2>5. Cardinality(Held \cup {r}) <= slots'
    BY <1>4, <1>7, <2>4
  <2> QED
    BY <2>2, <2>3, <2>4, <2>5 DEF SlotInv, SlotsAccounted
<1>8. CASE queue # <<>> /\ UNCHANGED slots /\ queue' = Append(Tail(queue), r)
  <2> DEFINE h == Head(queue)
  <2>1. /\ h \in Queued /\ h \in Requests /\ Tail(queue) \in Seq(Requests)
        /\ Range(Tail(queue)) = Queued \ {h}
    BY <1>1, <1>8, TailElements DEF Queued
  <2>2. Queued' = (Queued \ {h}) \cup {r}
    <3>1. PICK q \in Seq(Requests) : q = Tail(queue) /\ Range(q) = Queued \ {h}
      BY <2>1
    <3>2. Range(Append(q, r)) = Range(q) \cup {r}
      BY AppendElements
    <3> QED
      BY <1>8, <3>1, <3>2 DEF Queued
  <2> HIDE DEF h
  <2>3. /\ h \notin Evicting /\ \A s \in Shards : h \notin Extracted(s) /\ h \notin draining[s]
    <3>1. h \in Owned
      BY <2>1, OwnedParts
    <3>2. Evicting \subseteq Popped
      BY DEF Evicting, Popped
    <3> QED
      BY <2>1, <3>1, <3>2 DEF BufferInv, OwnerInv, Places, DoneOnce
  <2>4. Held' = (Held \ {h}) \cup {r} /\ h \in Held /\ r \notin Held \ {h}
    BY <1>2, <1>3, <2>1, <2>2, <2>3, HeldParts, HeldPartsNext
  <2>5. IsFiniteSet(Held \ {h}) /\ Cardinality(Held \ {h}) = Cardinality(Held) - 1
    BY <2>4, FS_RemoveElement DEF SlotInv
  <2>6. /\ IsFiniteSet((Held \ {h}) \cup {r})
        /\ Cardinality((Held \ {h}) \cup {r}) = Cardinality(Held \ {h}) + 1
    BY <2>4, <2>5, FS_AddElement
  <2>7. Cardinality((Held \ {h}) \cup {r}) = Cardinality(Held)
    BY <1>4, <2>5, <2>6
  <2> QED
    BY <1>4, <1>5, <1>8, <2>4, <2>6, <2>7 DEF SlotInv, SlotsAccounted
<1> QED
  BY <1>6, <1>7, <1>8 DEF Enqueue

\* removeEntry gives back the slot of an entry it still finds in the queue.
LEMMA CancelSlots ==
  ASSUME BufferInv, SlotInv, NEW r \in Requests, CancelWait(r), UNCHANGED scenario
  PROVE  SlotInv'
<1>1. /\ Queued' = Queued \ {r} /\ \A s \in Shards : Extracted(s)' = Extracted(s)
  BY CancelMoves DEF BufferInv, OwnerInv
<1>2. /\ UNCHANGED <<draining, shutdown, ttPc, ttHead>> /\ Evicting' = Evicting
      /\ slots' = IF r \in Queued THEN slots - 1 ELSE slots
  BY DEF CancelWait, SlotsAfterRemoval, drainVars, ttVars, Evicting
<1>3. CASE r \in Queued
  <2>1. r \in Held /\ r \in Owned
    BY <1>3, HeldParts, OwnedParts
  <2>2. r \notin Evicting /\ \A s \in Shards : r \notin Extracted(s) /\ r \notin draining[s]
    BY <1>3, <2>1 DEF BufferInv, OwnerInv, Places, DoneOnce, Evicting, Popped
  <2>3. Held' = Held \ {r}
    BY <1>1, <1>2, <2>2, HeldParts, HeldPartsNext
  <2> QED
    BY <1>2, <1>3, <2>1, <2>3, SlotReleased DEF BufferInv, Stopped
<1>4. CASE r \notin Queued
  <2>1. Held' = Held
    BY <1>1, <1>2, <1>4, HeldParts, HeldPartsNext
  <2> QED
    BY <1>2, <1>4, <2>1, SlotsKept DEF Stopped
<1> QED
  BY <1>3, <1>4

\* A drain takes its entries with their slots, and gives each back after its retry.
LEMMA DrainSlots ==
  ASSUME BufferInv, SlotInv, NEW s \in Shards, UNCHANGED scenario,
         DrainEntriesForShard(s) \/ DrainEntry(s) \/ \E r \in Requests : DrainEntryDone(s, r)
  PROVE  SlotInv'
<1>1. CASE DrainEntriesForShard(s)
  <2>1. /\ Queued' = {r \in Queued : ShardOf[r] # s} /\ Extracted(s) = {}
        /\ Extracted(s)' = {r \in Queued : ShardOf[r] = s}
        /\ \A t \in Shards \ {s} : Extracted(t)' = Extracted(t)
    BY <1>1, ExtractMoves DEF BufferInv, OwnerInv
  <2>2. UNCHANGED <<draining, slots, shutdown>> /\ Evicting' = Evicting
    BY <1>1 DEF DrainEntriesForShard, ttVars, Evicting
  <2>3. Held' = Held
    BY <2>1, <2>2, HeldParts, HeldPartsNext
  <2> QED
    BY <2>2, <2>3, SlotsKept DEF Stopped
<1>2. CASE DrainEntry(s)
  <2>1. /\ Head(entries[s]) \in Extracted(s) /\ Queued' = Queued
        /\ Extracted(s)' = Extracted(s) \ {Head(entries[s])}
        /\ draining'[s] = draining[s] \cup {Head(entries[s])}
        /\ \A t \in Shards \ {s} : Extracted(t)' = Extracted(t) /\ draining'[t] = draining[t]
    BY <1>2, DrainMoves DEF BufferInv, OwnerInv
  <2>2. UNCHANGED <<slots, shutdown>> /\ Evicting' = Evicting
    BY <1>2 DEF DrainEntry, bufVars, ttVars, Evicting
  <2>3. Held' = Held
    BY <2>1, <2>2, HeldParts, HeldPartsNext
  <2> QED
    BY <2>2, <2>3, SlotsKept DEF Stopped
<1>3. ASSUME NEW r \in Requests, DrainEntryDone(s, r) PROVE SlotInv'
  <2>1. /\ r \in draining[s] /\ slots' = slots - 1 /\ UNCHANGED <<queue, shutdown, entries>>
        /\ draining'[s] = draining[s] \ {r} /\ \A t \in Shards \ {s} : draining'[t] = draining[t]
        /\ Evicting' = Evicting
    BY <1>3 DEF DrainEntryDone, BufferInv, TypeInv, DrainTypes, ttVars, Evicting
  <2>2. Queued' = Queued /\ \A t \in Shards : Extracted(t)' = Extracted(t)
    BY <2>1 DEF Queued, Extracted
  <2>3. r \notin Owned /\ \A t \in Shards \ {s} : r \notin draining[t]
    BY <2>1 DEF BufferInv, OwnerInv, DoneOnce
  <2>4. r \notin Queued /\ r \notin Evicting /\ \A t \in Shards : r \notin Extracted(t)
    BY <2>3, OwnedParts DEF Evicting, Popped
  <2>5. Held' = Held \ {r} /\ r \in Held
    BY <2>1, <2>2, <2>3, <2>4, HeldParts, HeldPartsNext
  <2> QED
    BY <2>1, <2>5, SlotReleased DEF BufferInv, Stopped
<1> QED
  BY <1>1, <1>2, <1>3

\* The timeout thread gives back the slot of the entry it popped; Shutdown keeps
\* the slots of the entries it evicts.
LEMMA ThreadSlots ==
  ASSUME BufferInv, SlotInv, UNCHANGED scenario, TTPopHead \/ TTRelease \/ ShutdownStart
  PROVE  SlotInv'
<1>1. CASE TTPopHead
  <2>1. /\ Head(queue) \in Queued /\ Queued' = Queued \ {Head(queue)}
        /\ \A s \in Shards : Extracted(s)' = Extracted(s)
        /\ ttPc' = "evicting" /\ ttHead' = Head(queue) /\ ttPc = "armed"
    BY <1>1, PopMoves DEF BufferInv, OwnerInv, TTPopHead
  <2>2. UNCHANGED <<draining, slots, shutdown>> /\ Evicting = {} /\ Evicting' = {Head(queue)}
    BY <1>1, <2>1 DEF TTPopHead, drainVars, Evicting
  <2>3. Held' = Held
    BY <2>1, <2>2, HeldParts, HeldPartsNext
  <2> QED
    BY <2>2, <2>3, SlotsKept DEF Stopped
<1>2. CASE TTRelease
  <2>1. /\ Evicting = {ttHead} /\ Popped = {ttHead} /\ Evicting' = {} /\ slots' = slots - 1
        /\ UNCHANGED <<queue, shutdown, entries, draining>>
    BY <1>2 DEF TTRelease, Evicting, Popped, drainVars
  <2>2. Queued' = Queued /\ \A t \in Shards : Extracted(t)' = Extracted(t)
    BY <2>1 DEF Queued, Extracted
  <2>3. ttHead \in Owned
    BY <2>1, OwnedParts
  <2>4. /\ ttHead \notin Queued
        /\ \A t \in Shards : ttHead \notin Extracted(t) /\ ttHead \notin draining[t]
    BY <2>1, <2>3 DEF BufferInv, OwnerInv, Places, DoneOnce
  <2>5. Held' = Held \ {ttHead} /\ ttHead \in Held
    BY <2>1, <2>2, <2>4, HeldParts, HeldPartsNext
  <2> QED
    BY <2>1, <2>5, SlotReleased DEF BufferInv, Stopped
<1>3. CASE ShutdownStart
  <2>1. /\ queue' = <<>> /\ UNCHANGED <<entries, draining, slots>> /\ Evicting' = Evicting
        /\ shutdown' = "cancel"
    BY <1>3 DEF ShutdownStart, drainVars, ttVars, Evicting
  <2>2. Queued' = {} /\ \A s \in Shards : Extracted(s)' = Extracted(s)
    BY <2>1 DEF Queued, Range, Extracted
  <2>3. Held' \subseteq Held
    BY <2>1, <2>2, HeldParts, HeldPartsNext
  <2>4. PICK left \in SUBSET Held : Held' = left
    BY <2>3
  <2>5. IsFiniteSet(left) /\ Cardinality(left) <= Cardinality(Held)
    BY FS_Subset DEF SlotInv
  <2>6. /\ Cardinality(Held) \in Nat /\ Cardinality(left) \in Nat
        /\ slots \in Int /\ Size' = Size /\ Stopped'
    BY <2>1, <2>5, FS_CardinalityType
    DEF SlotInv, BufferInv, TypeInv, QueueTypes, Size, Stopped
  <2>7. Cardinality(left) <= slots /\ slots <= Size
    BY <2>5, <2>6 DEF SlotInv, SlotsAccounted
  <2> QED
    BY <2>1, <2>4, <2>5, <2>6, <2>7 DEF SlotInv, SlotsAccounted
<1> QED
  BY <1>1, <1>2, <1>3

\* Every step keeps the slots accounted for.
LEMMA StepSlots == BufferInv /\ SlotInv /\ [Step]_<<vars, scenario>> => SlotInv'
<1> SUFFICES ASSUME BufferInv, SlotInv, [Step]_<<vars, scenario>> PROVE SlotInv'
  OBVIOUS
<1>1. UNCHANGED scenario
  BY DEF Step
<1>2. ASSUME NEW r \in Requests,
             \/ WaitIfAlreadyBuffering(r) \/ Send(r) \/ WaitForFailoverEnd(r) \/ WakeUp(r)
             \/ ClientCancels(r)
      PROVE  SlotInv'
  <2>1. UNCHANGED <<queue, entries, draining, slots, shutdown, ttPc, ttHead>>
    BY <1>2 DEF WaitIfAlreadyBuffering, Send, SendFails, SendReturns, WaitForFailoverEnd, WakeUp,
       ClientCancels, bufVars, drainVars, ttVars
  <2> QED
    BY <1>1, <2>1, SlotsUntouched DEF Evicting
<1>3. ASSUME NEW s \in Shards,
             \/ StopBuffering(s) \/ TimerFires(s)
             \/ \E g \in 1..generation[s] : MaxDurationExceeded(s, g)
             \/ LaunchDrain(s) \/ DrainComplete(s)
             \/ PrimaryStops(s) \/ PrimaryServes(s) \/ HealthReport(s) \/ GapElapses(s)
      PROVE  SlotInv'
  <2>1. UNCHANGED <<queue, entries, draining, slots, shutdown, ttPc, ttHead>>
    BY <1>3 DEF StopBuffering, TimerFires, MaxDurationExceeded, LaunchDrain, DrainComplete,
       PrimaryStops, PrimaryServes, HealthReport, GapElapses, bufVars, drainVars, ttVars
  <2> QED
    BY <1>1, <2>1, SlotsUntouched DEF Evicting
<1>4. CASE TTCheck \/ TTNotified \/ TTRecheck \/ TTClose \/ TTStop \/ UNCHANGED <<vars, scenario>>
  <2>1. /\ UNCHANGED <<queue, entries, draining, slots, shutdown>> /\ Evicting' = Evicting
    BY <1>4 DEF TTCheck, TTNotified, TTRecheck, TTClose, TTStop, vars, bufVars, drainVars, ttVars,
       Evicting
  <2> QED
    BY <1>1, <2>1, SlotsUntouched
<1>5. CASE ShutdownCancel \/ ShutdownWait
  <2>1. /\ UNCHANGED <<queue, entries, draining, slots, ttPc, ttHead>> /\ Stopped'
    BY <1>5 DEF ShutdownCancel, ShutdownWait, drainVars, ttVars, Stopped
  <2>2. Queued' = Queued /\ Evicting' = Evicting /\ \A s \in Shards : Extracted(s)' = Extracted(s)
    BY <2>1 DEF Queued, Extracted, Evicting
  <2>3. Held' = Held
    BY <2>1, <2>2, HeldParts, HeldPartsNext
  <2> QED
    BY <1>1, <2>1, <2>3, SlotsKept
<1> QED
  BY <1>1, <1>2, <1>3, <1>4, <1>5, EnqueueSlots, CancelSlots, DrainSlots, ThreadSlots DEF Step, Next

\* The semaphore counts exactly the entries that hold a slot: it is never released
\* by somebody who does not hold it, and none is lost before Shutdown.
THEOREM SlotsAlwaysAccounted == Spec => []SlotsAccounted
<1>1. Init => SlotInv
  <2> SUFFICES ASSUME Init PROVE SlotInv
    OBVIOUS
  <2>1. Queued = {} /\ Evicting = {} /\ \A s \in Shards : Extracted(s) = {} /\ draining[s] = {}
    BY DEF Init, Queued, Evicting, Extracted, Range
  <2>2. Held = {}
    BY <2>1, HeldParts
  <2>3. slots = 0 /\ Size \in Nat
    BY BufferAssumption DEF Init, Size, ScenarioType
  <2> QED
    BY <2>2, <2>3, FS_EmptySet DEF SlotInv, SlotsAccounted
<1>2. SlotInv => SlotsAccounted
  BY DEF SlotInv
<1> QED
  BY <1>1, <1>2, BufferAlways, StepSlots, PTL DEF Spec, Step

=============================================================================
