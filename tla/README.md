# A TLA+ development of the Multigres shard

Multigres shards, pools and keeps highly available a set of PostgreSQL servers.
This directory models the parts of it whose correctness rests on the interplay of
several processes or goroutines: how a shard agrees on its leader, its cohort and
its durability policy, and how that agreement keeps committed writes; how a node
whose WAL has forked comes back; and how the pooler and the gateway carry client
requests through it, in connection pools, drains, notification streams and the
failover buffer.

All source paths are relative to the repository's `src/`; `PROJECT.json` maps
every definition to its lines.

## The system

A *shard* is a set of *poolers* (`multipooler`), each beside one Postgres. One of
the Postgres servers is the primary. `multiorch` instances watch the poolers and
act as *coordinators*; any number may run at once and none is trusted to be alone.
`multigateway` routes client statements to the primary's pooler.

The state of a shard is a *rule*: a number `(coordinator term, leader subterm)`, a
leader, a cohort and a durability policy. It lives in a Postgres table, so it is
replicated by the very WAL it governs. A rule is written in two steps, a proposal
and a decision, both waiting for synchronous standbys.

A **failover** (docs/ha/consensus-overview.md, rule-change.md): a coordinator reads
the poolers' statuses, authors a *revocation* of a new term, and asks every pooler
to accept it (Recruit). A pooler that accepts stops replicating and persists the
promise. When the recruits are a majority of the cohort, and those left out cannot
satisfy the durability policy, the coordinator proposes the recruit with the
highest rule and LSN as the leader (Promote) and tells the others (SetPrimary).

### Inventory

| component | state | operations | what makes it correct |
|---|---|---|---|
| rule positions (`go/common/consensus/compare.go`, `revocation.go`) | none | comparisons, `ValidateRevocation`, `NewTermRevocation` | one order for all; a promise admits one attempt per term |
| durability (`durability.go`, `policy_*.go`, `cohort_safety.go`) | none | `SatisfiedBy`, `BuildSyncReplicationConfig`, `BuildPolicyTransition`, `CheckSufficientRecruitment` | recruitments meet commit quorums, old and new |
| proposals (`proposals.go`, `outgoing_rule.go`) | none | `BuildSafeProposal`, `CheckProposalPossible` | the leader proposed holds every committed write |
| promises (`consensus_promises.go`) | revocation and recruit floor, on disk | `AcceptRevocation`, `SetRecruitBlockedUntil` | never taken back, survive a crash |
| rule store (`rule_store.go`, `sync_standby_manager.go`) | the rule, `synchronous_standby_names` | `UpdateRule`, `maybeFinalizeStuckProposal`, `ReconcileGUC` | ordered history; the GUC is never behind the rule |
| consensus RPCs (`rpc_consensus.go`, `rpc_manager.go`) | Postgres role, `primary_conninfo`, replication primary, suspected divergence | `Recruit`, `Promote`, `SetPrimary`, `UpdateConsensusRule` | a recruit never acknowledges a revoked primary |
| Postgres monitor (`postgres_monitor.go`) | in-memory markers | one remedial action per tick | repairs without undoing a promise; eventually repairs |
| coordinator (`multiorch/consensus`) | one round | `AppointLeader`, `AppointInitialLeader` | safe with any number of rivals |
| propagation (`recovery/leader_info_propagation.go`) | none | repeated `SetPrimary` | everyone learns of the leader; late calls do no harm |
| bootstrap and cohort reconciliation (`recovery/actions`, `recovery/analysis`) | init claim in the topology | claim, add, remove | the cohort can always lose its leader |
| node recovery (`postgres_monitor.go`, `rewind_sentinel.go`, `quarantine.go`, `rpc_manager.go`) | sentinel, `restore_command`, suspicion, back-off, failure streak | one remedial action per tick; restart as standby with `pg_rewind` | no suspect reads, no half-rewound node unmarked, no node stuck |
| rewind readiness (`manager.go`, `consensus/manager.go`) | the recorded primary's flag, checkpoint goroutines | promote, checkpoint, mark | a rewind source has a checkpoint on its timeline |
| failover buffer (`multigateway/buffer`) | queue, semaphore, a cycle per shard, timers | buffer, drain, evict, shut down | each entry answered once; slots conserved; nobody waits for ever |
| connection pool (`pools/connpool`) | counters, stacks, waiter list | get, recycle, resize, close, three workers | counters match; no idle connection beside a waiter |
| serving state (`poolerserver`, `connpoolmanager`, `pools/reserved`) | status and drain phase, lent counts, reservations | admit, reserve, kill, drain, reopen | a drain ends, and only when what it drains is gone |
| pub/sub listener (`pubsub`, `NotificationStream`) | subscribers, one connection, requests | subscribe, unsubscribe, stop, reconnect | the backend listens to what is subscribed |
| recovery loop, health streams | cached health | detect, recheck, act | acts on what still holds |
| migration, query executor (`multipooler/internal`) | see `PROJECT.json` | | out of scope so far |
| routing, query path (`multigateway`) | see `PROJECT.json` | | out of scope so far |
| pgctld, topology, backup, admin, parser | | | I/O, generated or pure string processing |

The hard behaviours are listed, each at its line, under `hazards` in
`PROJECT.json`: rival coordinators, checks repeated because the WAL moves between
them, rule changes interrupted half way, late and repeated `SetPrimary`, what
survives a crash and what does not, `pg_rewind` that discards acknowledged WAL,
state read under one lock and used under another, stale timers and goroutines,
queues and counters at their limits, and waits that depend on each other.

## Modules

| module | models |
|---|---|
| `RulePositions` | numbers, positions, revocations, the merge of replication primaries: pure operators |
| `Durability` | policies, recruitment, policy transitions, cohort safety: pure operators |
| `Proposals` | what may be proposed from a set of recruits: pure operators over the two above |
| `TermPromises` | abstract specification of the promise book: attempts, terms, acceptances |
| `ShardConsensus` | the shard: poolers, their Postgres, concurrent failover rounds, leader-led rule changes, crashes; implements `TermPromises` |
| `AbandonedRecruits` | `ShardConsensus` with multiorch's repair of followers whose round went no further |
| `NodeRecovery` | one node's way back to its leader, step by step, with crashes between steps |
| `RewindReadiness` | when a promoted node may call itself a rewind source |
| `FailoverBuffer` | the gateway's buffer during failovers |
| `ConnPool` | the connection pool of one user, at its atomic operations |
| `ServingDrain` | admission, reservations, drains and reopening of the pools |
| `PubSubListener` | the LISTEN/NOTIFY loop and the stream handlers |
| `CohortMembership` | bootstrap and cohort reconciliation, using `Proposals` to say what a failover could do |
| `MC*` | instances for TLC |
| `TermPromisesProofs` | theorems about the promise book |
| `ShardConsensusProofs` | theorems about `Durability` and `ShardConsensus`, and the refinement of `TermPromises` |
| `ShardLeaderProofs` | that the shard loses no commit: one history per term, fencing, leader completeness |
| `NodeRecoveryProofs` | theorems about `NodeRecovery` and `RewindReadiness` |
| `FailoverBufferProofs`, `ConnPoolProofs`, `ServingDrainProofs`, `PubSubListenerProofs` | theorems about the module of that name |

### ShardConsensus and the code

* `wal[p]` is the WAL Postgres has flushed, `prim[p]` the term it was promoted in
  (0 for a standby), `conn[p]` its `primary_conninfo`, `guc[p]` its
  `synchronous_standby_names`. A WAL record carries the term of its writer and the
  rule position from there on. `acked` and `durable` are what Postgres has reported
  as committed. `Committed` counts client writes and the records of rules of the
  primary's own term, not those by which it finishes another term's rule (see the
  last of the observations).
* `rev[p]` and `floor[p]` are the persisted promises. `suspect[p]` and `rp[p]`
  are in memory and lost by `PoolerCrash`. `op[p]` is the operation that holds the
  pooler's action lock; the RPCs and the monitor wait for it.
* `rounds[r]` is the coordinator's side of one failover. Each round has a
  coordinator; `coordinator_initiated_at`, which tells a coordinator's own attempts
  apart, is the round's number. All rounds may be active together.
* `StartRound` takes the statuses of any subset of the poolers, and `Recruit` may
  come arbitrarily later, so a round works from stale statuses. The answer of a
  recruit may be lost. `SetPrimary` may deliver any position some pooler has shown
  or some round has proposed, to any pooler, at any time and repeatedly.
* A commit that waits for standbys is not visible on its primary. When the context
  of a rule write ends (`AbortOperation`), the pooler gives up the lock but the
  Postgres backend keeps waiting, so the row stays invisible until it is
  acknowledged; `FOR UPDATE NOWAIT` fails meanwhile (`RuleWritesDrained`). A standby
  or a restarted node sees all its WAL.
* `Recruit` is one step. On a standby, a rule that streams in between its two
  checks only makes the recruit fail with the connection restored, which changes
  nothing. On a primary the second check sees the WAL that was invisible to the
  first; if it fails, the node stays demoted without a promise.
* The bounds are constants: `NumRounds`, `MaxWrites`, `MaxCrashes`,
  `MaxCohortChanges`, `MaxAborts`, `MaxRewindLoss`; and one rewind of each pooler.

External, modelled from how the code uses it: streaming, synchronous commit,
`pg_promote` and `pg_rewind`. `pg_rewind` takes a diverged WAL back to an earlier
common point and may lose up to `MaxRewindLoss` common records, since it goes back
to a checkpoint. Receiving, flushing and acknowledging a record is one step.

Abstracted: the fittest leader is any eligible one; back-off and grace periods are
left out since rounds start at any time; the relay of the rewind-ready flag is
collapsed to "the primary of that term has switched timelines"; clients write when
`IsActiveLeader` holds.

### AbandonedRecruits and the code

Extends the shard by `RecruitAbandonedAnalyzer` (`Stranded`) and
`ReconnectRecruitAbandonedAction`: the highest position any pooler reports names the
leader, the leader's writes progress, the follower's promise revokes what would be
relayed to it, so the leader rewrites its own rule at the next subterm
(`UpdateConsensusRule` with the same cohort) and the propagation of `ShardConsensus`
brings the follower back. Nothing crashes here: a crash in the middle of an advance
leaves a proposal to the next failover, which `Retry` covers. The age of the
revocation and the freshness of health reports are left out, so the repair may come
at any time. An advance times out, and clients write, only on a primary that a later
round has passed over; that is where either can do harm.

### NodeRecovery and the code

One pooler whose WAL is a prefix shared with the leader and a `fork` of its own.
`MonitorTick` is one pass of `monitorPostgresIteration`: `Remedy` is
`determineRemedialAction`, one `Tick*` action per remedial action, and the result
counts towards or resets the streak that quarantines (`trackRecoveryOutcome`).
`restartAsStandbyLocked` is taken apart into its steps (`pc`): pause and measure,
set the recruit floor, stop Postgres, write the sentinel, provide `restore_command`,
dry run, rewind, drop `restore_command`, set `primary_conninfo`, start, verify, clear
the suspicion, remove the sentinel. Any step may fail, and Postgres or the pooler may
die after any of them; what is in memory is then lost. `SetPrimary`,
`StartReplication`, `StopReplication` and the demotion compete for the action lock.

Abstracted: the leader is fixed and `MinAttempts` stands for both the number of
attempts and the time that must pass before quarantine; `pg_rewind` behaves as the
code's comments say (back to a common checkpoint; a directory left half-way starts but
is corrupt). Raising the suspicion and recomputing the serving status are one step; in
the code a recomputation that fails is logged and made up for by the next tick.
Restoring from and creating a backup, and the promotion of a static leader, are not
modelled.

### RewindReadiness and the code

`promoteLocked` records the proposal, promotes Postgres and upgrades the record;
`promoteStandbyToPrimary` leaves a goroutine that checkpoints and then marks the
record without the action lock (`MarkSelfRewindReady`, which compares positions); the
monitor marks it too (`rewindSourceReady`). The node may be deposed, and promoted
again, before an earlier goroutine ends.

### FailoverBuffer and the code

A request is the loop in `withBuffering`: wait if its shard is already buffering, send,
wait for the end of the failover, send again, up to `MaxBufferingRetries`. The queue
and `bufferSizeSema` are shared; each shard has its state, its generation, its
max-duration timer and a drain of `DrainConcurrency` goroutines; the timeout thread
evicts the head when its window is over. The steps between the shard's mutex, the
queue's mutex and the channels are separate actions. Whether a request fails is
decided by whether the shard has a serving primary (external), and health reports of
one reach the buffer late. Time is the order in which timers fire. One shard is run:
shards share only the queue and the semaphore, whose entries carry their shard.

### ConnPool and the code

A goroutine (client, one of the workers, the administrator) is a program counter and
the connection it carries; each atomic load, compare-and-swap, stack operation and
critical section of the waiter list is a step. Borrowing, dialling, settings,
waiting, returning with hand-over and ageing of skipped waiters, the expire, idle and
scrub workers, `SetCapacity` and `CloseWithContext` are modelled. Connections with
equal settings are interchangeable, so a stack is a number. Left out: the reopening
and refreshing of a pool (no caller passes the callback it needs), metrics, and the
order in which the scrubber walks a stack.

### ServingDrain and the code

A request is admitted (`StartRequest`), borrows a connection, is counted, uses it and
releases it, each a step of its own. `lent` is the manager's drain tracking: both
counts and both channels. `OnStateChange` is the two-stage drain with its grace
period; `KillConnection` is shared by the forced drain and the idle killer, and its
`Release` races that of the reservation's client. A reopen replaces the pools.

`expiry` stands for the expiry times of the reservations. One that has not been looked
up for a while is quiet (`GoesQuiet`); one that stays so for the inactivity timeout is
past its expiry (`ExpiryPasses`), whether or not a statement runs on it: `Get` then
refuses it and the next tick of the idle killer collects it (`CollectTimedOut`). Every
`Get` that succeeds resets the time (`GetReserved`), as `reserved_pool.go:310` does, so
a session that runs one statement after another is never timed out. With an inactivity
timeout of zero (`timeouts = FALSE`) nothing ever expires.

`OnStateChange` and the reopen exclude each other through the action lock. The model
starts with a serving pooler. Left out: why a reservation is released and its
relabelling, eviction of idle users' pools, and the bound on `withReopenRetry`.

### PubSubListener and the code

`lst` is the lifecycle under the mutex, `queue` and `cur` the requests of the current
event loop and the one whose LISTEN or UNLISTEN waits for the backend, `subs` the
subscribers with their channels, `stream` the `NotificationStream` handlers. A request
is queued, executed and answered in separate steps, so the loop may stop, or be
replaced, in between. Connecting is one step. A panic ends the pooler and so the
behaviour. `UnsubscribeAll` has no caller and is left out.

### Scenarios

`FailoverBuffer`, `ConnPool`, `ServingDrain` and `PubSubListener` take a set of
*scenarios*: a scenario fixes a configuration and the bounds (who arrives, how many
failovers, whether dials fail, how many reservations ...) and is chosen once, by
`Init`. One run then covers several small configurations, each rich in one respect,
where a single one that is rich in all would be out of reach. The scenarios are
defined in the `MC` modules.

## What the runs show

| run | instance | properties |
|---|---|---|
| `Failover` | 3 poolers, AT_LEAST_2; 2 rounds by 2 coordinators, or 1 round, 1 write, 1 crash | `RuleAgreement`, `LeaderCompleteness`, `RevokedTermsFenced` |
| `Retry` | 2 poolers, 2 rounds, 1 write, 1 crash, 1 aborted rule change | `TypeOK`, `RuleHistoryOrdered`, `OneWinner`, `PromisesKept` |
| `CohortChange` | 3 poolers, cohort of 2, 1 round, 1 change, 1 abort | `CommitQuorumCoversRule`, `RevokedTermsFenced` |
| `Settling` | 3 poolers, 1 round, 1 write, 1 advance that may time out, fairness | `ProposedRoundSettles`, `AbandonedRecruitRejoins` |
| `Cohorts` | 5 poolers, AT_LEAST_2, 2 coordinators | `SafeChangesKeepFailover` |
| `CohortsMultiCell` | 3 poolers in 2 cells, MULTI_CELL_AT_LEAST_2 | `SafeChangesKeepFailover` is violated |
| `RewindReady` | 4 terms | `ReadyMeansCheckpointed`, `LeaderBecomesReady` |
| `Recovery` | 3 crashes or failed steps, quarantine after 2 attempts, an administrator | `NodeTypeOK`, `InterruptedRewindMarked`, `NoSuspectReads`, `NoArchiveReplayAfterRewind`, `InterruptedRewindResolves`, `DivergedNodeRejoins` |
| `Buffering` | scenarios: one request over two failovers; two requests for one slot, with a cancel; two buffered and drained one by one; shutdown | `OneOwner`, `SlotsAccounted`, `DrainBackpressure`, `BufferingEndsForCause`, `EveryRequestAnswered`, `ShardReturnsToIdle` |
| `Pooling` | scenarios: three clients on one connection; with different settings; settings that fail; resizing 2 to 1 beside the idle worker or the scrubber, 1 to 2 beside the expire worker, with failing dials | `PoolTypeOK`, `CountersMatch`, `ActiveWithinCapacity`, `IdleReachesWaiter`, `CloseWakesWaiters` |
| `Draining` | 2 sessions; scenarios: no grace period, with sessions that let go and sessions that do not; a forced drain of two transactions; two changes in a row with both killers; three in a row over one connection; a reopen | `ReservationsCounted`, `OutlastsLent`, `ForcedDrainLeavesNone`, `ChangeCompletes` |
| `PubSub` | 2 channels; scenarios: two streams over a restart and a lost connection; one stream with two requests; two with two requests in peace; a backend that hangs | `ListensMatch`, `StreamNotStranded`, `EveryRequestReturns`, `StopCompletes`, `SubscribedIsListened` |

Three poolers under AT_LEAST_2 are the smallest shard in which a majority can miss
a member, and the member it misses may be the old primary, a recruit whose answer
was lost, or the only standby that acknowledged. Two rounds are needed for two
coordinators to collide on a term; the two-pooler shard makes room for the crash,
the write and the abort with two rounds, which is what a stuck proposal, its
recovery and the recovery's interruption take. In `Failover` the two rounds and the
write with the crash exclude each other (`Budget`), and the second round starts before
the first has promoted anybody (`Rivals`): all together is out of reach for three
poolers, and rounds in sequence are what `Retry` explores. The symmetry sets permute only poolers that the initial state
does not tell apart.

Three faults let a recovery be interrupted, its repair be interrupted, and the repair
of that fail. Two requests for one slot make every eviction happen; a drain of two
entries one by one is the smallest with a goroutine that has to wait. Three clients
on one connection give a borrower, a waiter that is skipped and the one it is skipped
for. Two sessions and two reservations let a reservation be killed while its
connection already serves the other session; three changes in a row over one
connection let a forced drain catch a reservation before it is counted and a graceful
drain follow.

The type invariants of `FailoverBuffer`, `ServingDrain`, `PubSubListener` and
`RewindReadiness` are stated in their modules; the runs spend their time on the
properties that relate pieces of state, and the proofs carry the types they need in
their inductive invariants.

Deadlock is not checked where the bounded rounds, requests and failovers run out and
the system has nothing left to do; it is checked in the cohort runs and in
`Recovery`, where the monitor always ticks.

**Fairness.** Nothing is ever assumed of clients, crashes, failures, the start of a
round or an administrator.

* `ShardConsensus`, `AbandonedRecruits`: delivering a Promote, since the coordinator
  sends it at once and waits for it; the steps of a running rule change, a sequential
  function; the monitor, a ticker; streaming, which Postgres does continuously; the
  propagation to each pooler of the highest position known, and the search for
  abandoned recruits, which multiorch repeats on tickers; deadlines pass. The run has
  no crash and one round: a round overtaken by another need not settle.
* `NodeRecovery`: the monitor's ticker, the operation in progress, the back-off's
  clock; strong fairness of `SetPrimary` for a rewind-ready leader, because multiorch
  sends it periodically while the action lock is taken again and again by others.
* `RewindReadiness`: the monitor's ticker, the steps of `promoteLocked`, and the
  checkpoint Postgres makes after a promotion by itself.
* `FailoverBuffer`: goroutines that can run do; timers fire; a send returns. A primary
  need not come back.
* `ConnPool`: goroutines that can run do and the expire worker ticks. Borrowers need
  not return what they have borrowed.
* `ServingDrain`: goroutines run (`ServerStep`, the drain, the killers, `Open`) and time
  passes. Weak fairness of `ExpiryStep` times out a reservation only if it rests: each
  lookup disables `ExpiryPasses` for it, so it never forces out a busy transaction. No
  statement has to end and no transaction either; what a drain without a grace period
  needs of the sessions is a condition of `ChangeCompletes` (`LetsGo`), not fairness. A
  grace period is used only where it is configured.
* `PubSubListener`: goroutines run, a closed channel is noticed, and the backend
  answers where the scenario says so. Clients and state changes are free.

### Disagreement found

`cohortSurvivesMemberLoss` (`cohort_safety.go:69`) asks only
for a sufficient recruitment of the members that stay, while a failover also needs
them to satisfy the policy of the rule it writes (`proposals.go:537`). With
AT_LEAST_N the first implies the second in the cohorts that pass the bootstrap and
removal checks (run `Cohorts`, N = 2). With MULTI_CELL_AT_LEAST_2 it does not: two
poolers in one cell and one in another pass bootstrap, but if the single one leads
and is lost the other two can never propose. Run `CohortsMultiCell` shows it.

Smaller disagreements between comments and code, noted for the reader: the comments
at `rpc_consensus.go:268` and `:505` say a nil status passes `ValidateRevocation`,
which refuses a nil position (`revocation.go:357`); `docs/ha/propagation.md` calls
finishing a stuck proposal not yet implemented, and `maybeFinalizeStuckProposal`
does it.

### Observations

Comments and docs of the repository state more than the code keeps. Each item names
the definition that states it; checking that definition alone, in the configuration
of the named run, gives a counterexample in the model.

* `IdleShardHoldsNoEntry` (`Buffering`). `waitIfAlreadyBuffering` and
  `waitForFailoverEnd` drop the shard's mutex before they enqueue
  (`shard_buffer.go:81`); a request that saw BUFFERING may enqueue after
  `stopBuffering` has collected the entries, and then waits for its window although
  the primary is back. `docs/query_serving/failover_buffering.md` has "DRAINING ->
  IDLE, all entries retried".
* `NoDrainOutlivesShutdown` (`Buffering`). `Shutdown` (`buffer.go:203`) says it keeps
  a concurrent `stopBuffering` from starting a drain after the wait; one that has
  left BUFFERING but not reached `drainWg.Go` (`shard_buffer.go:230`) does it.
* `FailedRewindsQuarantine` (`Recovery` with `RewindBroken = TRUE` and
  `MayStop = FALSE`). While the rewind back-off has not passed, a tick of a node with a
  sentinel decides on no action and `monitorPostgresIteration`
  (`postgres_monitor.go:384`) resets the streak because Postgres runs;
  `trackRecoveryOutcome` (`:778`) says that must not happen while the sentinel is
  there, or the node would "spin indefinitely without ever being quarantined".
* `HalfRewoundHeld` (`Recovery`). The suspicion is in memory only and `SetPrimary`
  (`rpc_consensus.go:942`) does not look at the sentinel: after a pooler restart, a
  `SetPrimary` before the first tick lets a half-rewound directory stream, which
  `postgres_monitor.go:1036` sets out to prevent.
* `RecruitableHoldsAckedWAL` (`Recovery`). `SetRecruitBlockedUntil`
  (`consensus_promises.go:93`) overwrites an outstanding floor; a second rewind before
  the node has caught up lowers it below WAL the node has acknowledged, where
  `rpc_manager.go:992` wants the node kept out "until it catches back up".
* `CloseDrains` (`Pooling`). `getNew` (`pool.go:792`) compares with the capacity, then
  swaps only `active`: a dial may win after Close has found the pool drained;
  `pool.go:386` says Close does not return before all connections are back.
* `WaiterHasLender` (`Pooling`). A redial or settings that fail (`pool.go:587`) give
  the slot back and wake nobody: a client waits with nothing lent and capacity free
  (`pool.go:842`; `docs/query_serving/connection_pooling.md:620` knows of it).
* `StarvingNoticed` (four clients with either settings, two connections).
  `maybeStarvingCount` (`waitlist.go:112`) counts waiters of age 0 only, so waiters
  skipped once are not seen by the expire worker of `pool.go:323`.
* `CloseWakesWaiters` with capacity 0 (one connection, capacity changed to 0).
  `CloseWithContext` (`pool.go:408`) takes it for closed already, while the rebalancer
  sets it on live pools; the waiters stay.
* `NothingInFlight` (`Draining`). An admitted request is counted only once it has
  borrowed (`pooler.go:303`): the cutover passes it, where `:182` says "zero in-flight
  work".
* `NotServingRejects` (`Draining`). A second not-serving state, with a new rule only,
  puts a pooler that is not serving back into the first stage (`pooler.go:218`), in
  which it admits single queries; the matrix at `:291` and `state_manager.go:199` say
  otherwise.
* `StagesTerminate` (`Draining`). Without a grace period "each stage still terminates
  because it rejects the new work" (`pooler.go:221`), but a statement of an existing
  transaction is not new work (`:320`), and `Get` resets the expiry time at each one
  (`reserved_pool.go:310`). A transaction that goes on, each statement ending and the
  next arriving before the inactivity timeout, holds the drain up for ever; with a zero
  inactivity timeout an idle one does, too. `ChangeCompletes`, the property that holds,
  is unconditional with a grace period; without one it asks for an inactivity timeout,
  for single queries that end, and for sessions that do not look their reservation up
  again and again.
* `KillsOwnBackend` (`Draining`). `KillConnection` (`reserved_pool.go:327`) terminates
  the backend before the compare-and-swap of `Release`; if the client has released in
  between, the backend may already serve another transaction.
* `CountsNotNegative` (`Draining`). A reservation is in the map before it is counted
  (`reserved_pool.go:200`); a forced drain in between makes the count negative, which
  `connpoolmanager/manager.go:1055` logs as a bug.
* `OutlastsLentAlways` (`Draining`). Such a kill leaves the count one too low until the
  reservation's client counts it (`reserved_pool.go:205`); a transaction that begins in
  between is not seen by the next graceful drain, which `pooler.go:182` wants to wait
  for it. `OutlastsLent`, the property that holds, leaves out what follows such a kill
  (`mgr.early`).
* `ReservationsCounted` and `OutlastsLent` without their condition on reopening
  (`Draining`). Closing the reserved pool (`reserved_pool.go:454`) calls no release
  hook, so the count keeps reservations nobody will release; `Open`
  (`connpoolmanager/manager.go:205`) installs closed channels whatever the counts, so
  the next drain ends at once.
* `NoPanic` (`PubSub`). The fresh queue of every `Start` (`listener.go:67`) keeps old
  requests from being replayed, not an old handler from submitting a new one
  (`service.go:1133`): its closed channel is registered with the new loop, which then
  sends on it or closes it again.
* A finalised decision may be lost, though no rule and no client write is. Leader A
  writes the proposal of its rule, which a quorum gets, and then, alone, the decision
  and client writes that stay uncommitted. A later leader B finds the proposal stuck and
  finishes it: `maybeFinalizeStuckProposal` (`rule_store.go:1024`) writes the same
  decision again, in its own term, and commits it; B dies before it writes a rule of
  its own. Of the recruits of a third round A and B's standby then stand at the same
  position, and `BuildSafeProposal` prefers A for its longer WAL (`proposals.go:418`), whose
  LSNs are of another timeline: B's record, committed, is in no later primary. The
  decision it carried is in A's WAL as well, and since a client write needs a rule of
  its primary's own term to be decided first, nothing else can go this way. So
  `Committed` leaves such records out; `LeaderCompleteness` with
  them fails, in a shard of three poolers with three rounds, two writes and an abort.

## What is proved

With TLAPS, for every value of the constants their `ASSUME`s admit. In all of them the
sets of poolers, clients, requests, streams and channels, and every bound, are
arbitrary; where a cardinality is counted the set is finite. Each theorem that states
a property of a run says so in `PROJECT.json`.

**The shard** (`ShardConsensusProofs`, `TermPromisesProofs`)

* `ShardTypes`: `Spec => []TypeOK`. Besides the types, `TypeOK` says that WALs are
  never empty and that a primary has released a non-empty part of its own WAL, which
  every read of a position relies on; it is inductive as it stands. The maximum of
  a finite set of naturals is obtained from well-foundedness.
* `PromisesAuthored`: `Spec => []PromiseInv`. A stored promise equals, in every
  field, the revocation of the round it names, and idle rounds have none. It is the
  strengthening the refinement needs: `ValidateRevocation` compares a coordinator
  and a start time, and only this invariant turns their equality into "the same
  round".
* `ShardImplementsPromises`: `Spec => Promises!Spec`, and `ShardKeepsPromises`, the
  property `PromisesKept` of run `Retry`. `Recruit` maps to `Accept`, `StartRound`
  to `Author`, everything else leaves the promise book unchanged.
* `AcceptancesHold` and `AtMostOneWinner` about `TermPromises`: the inductive
  invariant is that an accepted attempt is still the pooler's promise or has a lower
  term than it, with the disjointness of acceptances of one term; majorities of any
  cohort then intersect. `OneWinnerPerTerm` carries it over to the shard (`OneWinner`).
* `RuleHistory`: `RuleHistoryOrdered`, cohort changes, aborts and rewinds included. The
  strengthening (`OperationOwnsWal`) says that a primary streams from nobody and that
  its WAL ends where the operation holding its action lock has left it, before what
  that operation is about to write; a rewind or a stream only ever leaves a prefix of
  a WAL that is ordered already.
* `FixedCohortAgreement` and `FixedCohortCommitQuorum`: `RuleAgreement` and
  `CommitQuorumCoversRule` for shards with `MaxCohortChanges = 0`, that is for
  failovers in any number and interleaving. Every rule then has the first cohort and
  policy, so two rounds that proposed at one term had two majorities of one cohort and
  are the same round (`OneWinnerPerTerm`); every rule in a WAL is the first one or one
  a round proposed. With leader-led changes the cohorts of two rounds differ and the
  argument needs that a change which was not completed is found by the next round:
  that case stays with run `CohortChange`.
* `RecruitmentMeetsEveryQuorum`, `RecruitmentFencesCommits`,
  `TransitionSatisfiesBoth`: the quorum arithmetic of `durability.go`, for both
  policies, any cohort and any cells.

**No commit is lost** (`ShardLeaderProofs`), for shards with `MaxCohortChanges = 0`

* `FixedCohortOnePrimary`: no two poolers are primaries of one term, and whoever holds
  a record of a term has the WAL of its primary up to there.
* `FixedCohortFencing` (`RevokedTermsFenced`, an action property): once a round has a
  proposal, no primary of an earlier term commits anything any more.
* `FixedCohortLeaderCompleteness` (`LeaderCompleteness`): every primary of a later term
  holds the last commit of each earlier one. `FixedCohortCommitsShared`: so does every
  WAL with a record of a later term, and the WALs of the shard agree record by record up
  to there.

All hold for any number of poolers, cells, rounds, crashes, aborts and writes
under either policy. The inductive invariant (`SafeInv`, on top of the theorems above)
has three parts, each needed by the next.

1. *Elections and WALs* (`ElectionInv`, `WalInv`). A pooler accepts rounds in the order
   of their terms; a proposal is built from a sufficient set of recruits; every
   position in a WAL is the first one or what a proposed round leads to; positions
   never descend along a WAL. This is what makes `CompareRulePosition` and LSNs a sound
   measure of who knows more. LSNs alone are not: positions are compared first, and
   the records of one term are of one history because the term has one primary.
2. *Connections and recruits* (`ConnInv`, `RecruitsInv`). Who has accepted a revocation
   follows only a primary which that revocation lets lead, whatever `SetPrimary`
   arrives late and whatever the monitor reconciles. Who has answered
   Recruit has not fallen behind its answer, except by a rewind, which leaves the floor
   behind that keeps it out of recruitment.
3. *The ledger* (`LedgerInv`), for the last commit of each term: a quorum has reached
   it; a later round that is still recruiting either cannot miss it, whoever answers
   next, or can no longer propose; every leader that was proposed later has reached it;
   every WAL with a record of a later term has it.

Two kinds of step make the ledger. A commit starts one when Postgres releases it. That
is sound because those whom the last round with a proposal has not recruited cannot
commit (`CheckUnrecruitedCannotCommit`), and its recruits no longer stream from a
primary of an earlier term (`LastFollowsNone`, `Fenced`). A new proposal keeps the ledgers
because the most advanced recruit of a set that meets every quorum has reached the
commit (`ProposalReaches`).

The case that takes most care is a round that was authored against a rule which
meanwhile has been replaced: its revocation does not revoke the newer rule, so its
recruits may go on following. It then cannot propose (`Overtaken`), since
`BuildSafeProposal` refuses answers that lead to a rule other than the one that was
revoked, and one of its answers will.

What the hypothesis and the bounds leave out: changes of the cohort by a leader, where
the quorums of successive rules differ (run `CohortChange`); and a second rewind of one
pooler, which the model does not take, and which can undo the floor of the first
(`RecruitableHoldsAckedWAL`, above).

**A node's recovery** (`NodeRecoveryProofs`)

* `NodeTypes`, `NoReadsUnderSuspicion`, `InterruptedRewindsMarked`, `NoArchiveReplay`
  (an action property). None of the last three is inductive alone: each is
  strengthened by what holds while a given step of `restartAsStandbyLocked` is next,
  for instance that the sentinel is written before the step that installs
  `restore_command`.
* `ReadyIsCheckpointed`: within the term that is recorded there is one timeline only,
  so a goroutine left over from an earlier promotion, whose term does not match, marks
  nothing.

**The failover buffer** (`FailoverBufferProofs`)

* `EntriesHaveOneOwner`, `SlotsAlwaysAccounted`, `DrainsApplyBackpressure`,
  `BufferingEndsOnlyForCause` (an action property). Ownership comes first and is
  strengthened by the program counters of the request and of the timeout thread; the
  semaphore then follows from what each step does to the set `Held`, and the
  backpressure from every retry being counted by its drain until the request has
  returned or Shutdown has cancelled it (`RetryInv`).

**The connection pool** (`ConnPoolProofs`)

* `PoolTypes`, `CountersAlwaysMatch`, `CapacityRespected`. The counters are
  cardinalities of sets of goroutines; each step moves one goroutine, or one and a
  waiter, between program counters. The capacity needs what a goroutine between its
  read of the capacity and its compare-and-swap has read.

**The drain** (`ServingDrainProofs`)

* `ReservationsAlwaysCounted`, `DrainOutlastsLent`, `ForcedDrainKillsAll`. The count of
  reservations is not the size of the pool's map between the steps: the invariant
  balances it against the reservations that still owe a release (`Owed`) and those
  that are registered but not counted (`Uncounted`). Trying to prove `OutlastsLent` as
  it was first stated showed it to be false beyond the bounds of the run: see
  `OutlastsLentAlways` above. A scenario that reaches the case is now part of the run.

**The listener** (`PubSubListenerProofs`)

* `ListensAlwaysMatch`, `StreamsNeverStranded`. `ListensMatch` is strengthened by
  which channel the backend is behind by while a command is under way;
  `StreamNotStranded` by what a handler is about to believe or to give up, and by
  the ownership of requests: one that is still with the loop belongs to a handler that
  waits for this very loop.

Assumptions: the set of poolers is finite, the bounds are naturals, the initial
rule is well formed, of a term other than 0 (which stands for no rule), and its leader can build its synchronous configuration
(`ConstantsAssumption`, `PoolersAssumption`); the theorems about `TermPromises` name
theirs, `PromisesAssumption`, as a hypothesis. Elsewhere: scenarios have their types,
sets that are counted are finite, and the value that stands for "none" is not one of
the values it is told from (`BufferAssumption`, `ConnPoolAssumption`,
`ScenarioAssumption`). TLC evaluates every assumption in the runs.

**Only model-checked.** `RuleAgreement`, `CommitQuorumCoversRule` and
`RevokedTermsFenced` while leaders change the cohort, whose inductive invariants have to
relate the WALs of all poolers to the quorums of every earlier rule;
`SafeChangesKeepFailover`. Liveness (`ProposedRoundSettles`,
`AbandonedRecruitRejoins`, `InterruptedRewindResolves`, `DivergedNodeRejoins`,
`LeaderBecomesReady`, `EveryRequestAnswered`, `ShardReturnsToIdle`,
`IdleReachesWaiter`, `CloseWakesWaiters`, `ChangeCompletes`, `EveryRequestReturns`,
`StopCompletes`, `SubscribedIsListened`) rests on fairness and is out of the prover's
reach.

## What is not modelled

In the shard: `ResignLeadership`; externally certified rule changes; replication
slots; timeline identifiers (two promotions never collide on one); cohort
ineligibility inside `Recruit`. Three or more rounds are out of TLC's reach for three
poolers: that the recruit floor alone protects a write is explored for one node
(`NodeRecovery`), and for the shard follows from `FixedCohortLeaderCompleteness`. Multiorch's recovery loop (detection, recheck,
grace periods) is not a module: rounds, propagation and repairs may happen at any time
their own conditions allow, which includes all it does. In the pooler: fair sharing of
connections between users and the rebalancer, the state manager's derivation of the
serving state, and the restore from backups.

Not modelled because TLA+ has nothing to say about it that a test does not say better:
the SQL grammar and its generated parser, the syntax trees with their generated
clones and rewriters, the protocol buffers, the wire protocol and the type codecs,
which are pure functions over strings and trees and make up most of the repository's
lines (the parser table, the AST and the protobuf code alone are well over 100,000
of them); planning and executing statements, which is sequential per session; pgctld,
backups, provisioning and administration, which drive external programs. The
development covers the concurrent core of the pooler, of multiorch and of the
gateway's failover path, a small share of the repository by lines. `PROJECT.json`
lists every component with its status and reason.

## Plan

1. (done) Positions, durability, proposals, the promise book, the shard, cohorts;
   types and promises proved.
2. (done) `AbandonedRecruits`, `NodeRecovery`, `RewindReadiness`, `FailoverBuffer`,
   `ConnPool`, `ServingDrain`, `PubSubListener`.
3. (done) Proofs: ownership, slots and backpressure of `FailoverBuffer`, the counters of
   `ConnPool`, the rewind invariants, the counts and drains of `ServingDrain`, the
   listener; rule histories; agreement, fencing and leader completeness for a fixed
   cohort. To do: the same across cohort changes, from `TransitionSatisfiesBoth`.
4. Certified rule changes in `Proposals` and `ShardConsensus`; `ResignLeadership`; the
   watch-driven pooler cache and the choice of a pooler in the gateway.
5. A composition of `FailoverBuffer` and `ServingDrain`: a buffered request is retried
   on a pooler that serves.
