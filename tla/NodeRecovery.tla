---------------------------- MODULE NodeRecovery ----------------------------
(***************************************************************************)
(* How one pooler brings its own postgres back: the postgres monitor's     *)
(* tick, the rewind sequence restartAsStandbyLocked, the SetPrimary and    *)
(* replication RPCs that share the action lock with them, and what is left *)
(* on disk when the pooler or postgres dies between two steps.             *)
(*                                                                         *)
(* Everything here runs under the action lock, so only crashes, streaming  *)
(* and the passing of time interleave with the steps of one operation      *)
(* (pc # "idle").  The node's WAL is a prefix shared with the leader and a *)
(* suffix of its own (fork); the leader's rule is the shared record        *)
(* number RuleLsn.                                                         *)
(***************************************************************************)
EXTENDS Integers

CONSTANTS
  RuleLsn,       \* shared position of the record that carries the leader's rule
  MaxLsn,        \* bound on the shared WAL the leader has
  MaxFork,       \* bound on the WAL of a deposed primary
  MaxFaults,     \* bound on crashes and failed steps
  MinAttempts,   \* failed recoveries before the node is quarantined
  MayStop,       \* whether an administrator stops replication
  RewindBroken   \* whether every pg_rewind fails

ASSUME RecoveryAssumption ==
  /\ RuleLsn \in Nat \ {0} /\ MaxLsn \in Nat /\ RuleLsn <= MaxLsn
  /\ MaxFork \in Nat /\ MaxFaults \in Nat /\ MinAttempts \in Nat \ {0}
  /\ MayStop \in BOOLEAN /\ RewindBroken \in BOOLEAN

VARIABLES
  pg,            \* what postgres runs as
  dir,           \* the data directory: "half" while pg_rewind has only begun
  shared, fork,  \* the node's WAL
  unclean,       \* the last shutdown needs crash recovery
  conn,          \* primary_conninfo points at the leader
  restore,       \* restore_command: "rewind" when a rewind left it
  sentinel,      \* the rewind sentinel exists
  floor,         \* recruitBlockedUntil
  acked,         \* highest shared position the node ever held (observer)
  suspect,       \* suspectedDivergence
  recorded,      \* the recorded leader, and whether it is rewind-ready
  backoff,       \* rewindReadyAt has not passed
  attempts,      \* unrecoverableFailedAttempts
  quarantined,   \* lifecycle QUARANTINED and restarts disabled
  manual,        \* walReceiverManuallyStopped
  serving,       \* the record's serving status
  pc,            \* next step of the operation holding the action lock
  by,            \* who called restartAsStandbyLocked
  marked,        \* the tick that called it had discovered a sentinel
  saved,         \* serving status that resume restores
  wasLeader,     \* the node's old rule names it leader
  faults         \* crashes and failures so far

wal     == <<shared, fork, acked>>
memory  == <<suspect, recorded, backoff, manual>>
verdict == <<attempts, quarantined>>
call    == <<by, marked, saved>>
vars == <<pg, dir, wal, unclean, conn, restore, sentinel, floor, memory,
          verdict, serving, pc, call, wasLeader, faults>>

Steps == {"pause", "floor", "stop", "sentinel", "prepare", "dryrun", "rewinding",
          "cleanup", "conninfo", "restart", "verify", "clear", "unmark"}

-----------------------------------------------------------------------------
\* Positions and the recruit floor.

Rule == IF shared >= RuleLsn /\ fork = 0 THEN 1 ELSE 0

\* The rule the node holds and its LSN, as ConsensusStatus reports them.
CurrentPosition == [rule |-> Rule, lsn |-> shared + fork]

\* recruitPositionFloorIfOutstanding is nil: rule first, then LSN.
FloorMet ==
  \/ Rule > floor.rule
  \/ Rule = floor.rule /\ shared + fork >= floor.lsn

\* reconciledServingStatus.
Reconciled(status, suspected) ==
  CASE suspected /\ status = "SERVING" -> "DRAINING"
    [] ~suspected /\ status = "DRAINING" -> "SERVING"
    [] OTHER -> status

\* WAL receiver cannot stream: its WAL forked, or its directory is half copied.
NotStreaming == fork > 0 \/ dir = "half"

\* The node may be a deposed primary or a standby, before or after the failover.
Init ==
  /\ pg \in {"standby", "primary"} /\ wasLeader \in BOOLEAN
  /\ shared \in {RuleLsn - 1, RuleLsn} /\ fork \in {0, 1} /\ acked = shared
  /\ pg = "primary" => wasLeader
  /\ wasLeader \/ fork = 1 => shared = RuleLsn - 1
  /\ dir = "whole" /\ unclean = FALSE /\ sentinel = FALSE
  /\ conn \in BOOLEAN /\ (pg = "primary" => ~conn)
  /\ restore \in {"none", "provisioned"} /\ (pg = "primary" => restore = "none")
  /\ floor = [rule |-> 0, lsn |-> 0]
  /\ suspect = FALSE /\ recorded = "none" /\ backoff = FALSE /\ manual = FALSE
  /\ attempts = 0 /\ quarantined = FALSE /\ serving = "SERVING"
  /\ pc = "idle" /\ by = "monitor" /\ marked = FALSE /\ saved = "SERVING"
  /\ faults = 0

-----------------------------------------------------------------------------
\* The monitor's decision (determineRemedialAction).

\* Mutant: a standby that cannot stream is left waiting.
StandbyStuckDivergedNever == FALSE

\* Not streaming from the leader primary_conninfo points at, past the debounce.
StandbyStuckDiverged == conn /\ NotStreaming

\* determineRoleAction first, then determineReplicationSettingsAction.
RunningRemedy ==
  CASE pg = "primary" /\ recorded = "ready" -> "demote"
    [] pg = "primary" /\ recorded = "known" -> "none"
    [] pg = "standby" /\ wasLeader /\ Rule = 0 /\ recorded = "none" -> "resign"
    [] serving # Reconciled(serving, suspect) -> "reconcile"
    [] pg = "standby" /\ suspect /\ recorded = "ready" /\ ~backoff -> "rewind"
    [] pg = "standby" /\ ~suspect /\ recorded # "none" /\ ~manual /\ ~conn -> "fixConn"
    [] pg = "standby" /\ ~suspect /\ recorded # "none" /\ ~manual /\ StandbyStuckDiverged
         -> "markDiverged"
    [] pg = "standby" /\ restore # "none" -> "disableRestore"
    [] OTHER -> "none"

\* Mutant: a node whose rewind was interrupted is held and left to itself.
RemedyHolding ==
  IF sentinel /\ ~suspect THEN "markInterrupted"
  ELSE IF pg = "down" THEN "start"
  ELSE IF sentinel THEN "none" ELSE RunningRemedy

Remedy ==
  IF sentinel /\ ~suspect THEN "markInterrupted"
  ELSE IF pg = "down" THEN "start" ELSE RunningRemedy

Tick(remedy) == pc = "idle" /\ Remedy = remedy

\* trackRecoveryOutcome for a benign action.
Benign ==
  /\ attempts' = IF pg # "down" /\ ~sentinel /\ ~quarantined THEN 0 ELSE attempts
  /\ UNCHANGED quarantined

\* Mutant: the verdict comes one failure late.
RecoveryFailedLate(running, hadSentinel) ==
  IF quarantined THEN UNCHANGED <<attempts, quarantined>>
  ELSE IF running /\ ~hadSentinel THEN attempts' = 0 /\ UNCHANGED quarantined
  ELSE attempts' = attempts + 1 /\ quarantined' = (attempts + 1 > MinAttempts)

\* trackRecoveryOutcome for a failed start or rewind; running and hadSentinel
\* are what the tick discovered before it acted.  MinAttempts stands for both of the
\* classifier's gates (number of attempts and time since the first).
RecoveryFailed(running, hadSentinel) ==
  IF quarantined THEN UNCHANGED <<attempts, quarantined>>
  ELSE IF running /\ ~hadSentinel THEN attempts' = 0 /\ UNCHANGED quarantined
  ELSE attempts' = attempts + 1 /\ quarantined' = (attempts + 1 >= MinAttempts)

\* markSuspectedDivergence: reads stop in the same step.
\* Mutant: the flag is raised and the node keeps serving.
MarkSuspectedDivergenceServing ==
  suspect' = TRUE /\ UNCHANGED serving

MarkSuspectedDivergence ==
  suspect' = TRUE /\ serving' = Reconciled(serving, TRUE)

TickNone ==
  /\ Tick("none")
  /\ attempts' = IF pg # "down" THEN 0 ELSE attempts
  /\ backoff' = (backoff /\ suspect)
  /\ UNCHANGED <<pg, dir, wal, unclean, conn, restore, sentinel, floor, suspect,
                 recorded, manual, quarantined, serving, pc, call, wasLeader, faults>>

TickMarkInterrupted ==
  /\ Tick("markInterrupted") /\ MarkSuspectedDivergence /\ Benign
  /\ UNCHANGED <<pg, dir, wal, unclean, conn, restore, sentinel, floor, recorded,
                 backoff, manual, pc, call, wasLeader, faults>>

TickMarkDiverged ==
  /\ Tick("markDiverged") /\ MarkSuspectedDivergence /\ Benign
  /\ UNCHANGED <<pg, dir, wal, unclean, conn, restore, sentinel, floor, recorded,
                 backoff, manual, pc, call, wasLeader, faults>>

\* The rule still names this node but postgres is a standby: it only signals.
TickResign ==
  /\ Tick("resign") /\ Benign
  /\ UNCHANGED <<pg, dir, wal, unclean, conn, restore, sentinel, floor, memory,
                 serving, pc, call, wasLeader, faults>>

TickReconcileState ==
  /\ Tick("reconcile") /\ Benign
  /\ serving' = Reconciled(serving, suspect)
  /\ UNCHANGED <<pg, dir, wal, unclean, conn, restore, sentinel, floor, memory,
                 pc, call, wasLeader, faults>>

TickFixPrimaryConnInfo ==
  /\ Tick("fixConn") /\ Benign
  /\ conn' = TRUE
  /\ UNCHANGED <<pg, dir, wal, unclean, restore, sentinel, floor, memory, serving,
                 pc, call, wasLeader, faults>>

TickDisableRestoreCommand ==
  /\ Tick("disableRestore") /\ Benign
  /\ restore' = "none"
  /\ UNCHANGED <<pg, dir, wal, unclean, conn, sentinel, floor, memory, serving,
                 pc, call, wasLeader, faults>>

\* Configuration a start begins from: a suspected divergence starts "held",
\* without restore_command, and without primary_conninfo unless dropping it failed.
\* Mutant: only primary_conninfo is dropped.
HeldRestoreKept == restore

HeldRestore == IF suspect THEN "none" ELSE restore

\* takeRemedialAction(StartPostgres) and startPostgres: pgctld starts a standby;
\* crash recovery against another known leader raises the suspicion.
TickStart ==
  /\ Tick("start") /\ ~quarantined
  /\ pg' = "standby" /\ unclean' = FALSE
  /\ restore' = HeldRestore
  /\ \/ conn' = (conn /\ ~suspect) /\ UNCHANGED faults
     \/ suspect /\ conn /\ faults < MaxFaults /\ faults' = faults + 1 /\ UNCHANGED conn
  /\ suspect' = (suspect \/ (unclean /\ recorded # "none"))
  /\ serving' = Reconciled(Reconciled(serving, TRUE), suspect')
  /\ UNCHANGED <<dir, wal, sentinel, floor, recorded, backoff, manual, verdict,
                 pc, call, wasLeader>>

TickStartFails ==
  /\ Tick("start") /\ ~quarantined
  /\ faults < MaxFaults /\ faults' = faults + 1
  /\ restore' \in {restore, HeldRestore} /\ conn' \in {conn, conn /\ ~suspect}
  /\ serving' = Reconciled(serving, TRUE)
  /\ RecoveryFailed(FALSE, sentinel)
  /\ UNCHANGED <<pg, dir, wal, unclean, sentinel, floor, memory, pc, call, wasLeader>>

\* The tick takes the action lock and enters restartAsStandbyLocked.
TickRewindToLeader ==
  /\ Tick("rewind") /\ ~quarantined
  /\ backoff' = TRUE
  /\ pc' = "pause" /\ by' = "monitor" /\ marked' = sentinel
  /\ UNCHANGED <<pg, dir, wal, unclean, conn, restore, sentinel, floor, suspect,
                 recorded, manual, verdict, serving, saved, wasLeader, faults>>

TickDemoteStalePrimary ==
  /\ Tick("demote") /\ MarkSuspectedDivergence
  /\ pc' = "pause" /\ by' = "demote" /\ marked' = sentinel
  /\ UNCHANGED <<pg, dir, wal, unclean, conn, restore, sentinel, floor, recorded,
                 backoff, manual, verdict, saved, wasLeader, faults>>

-----------------------------------------------------------------------------
\* restartAsStandbyLocked.  All three callers enter with suspectedDivergence set.

At(step) == pc = step

\* pauseReplication and resetRestoreCommand, before the position is measured.
PauseBeforeMeasure ==
  /\ At("pause") /\ pg # "down"
  /\ conn' = (conn /\ pg = "primary")
  /\ restore' = IF pg = "standby" THEN "none" ELSE restore
  /\ pc' = "floor"
  /\ UNCHANGED <<pg, dir, wal, unclean, sentinel, floor, memory, verdict, serving,
                 call, wasLeader, faults>>

\* SetRecruitBlockedUntil overwrites whatever floor was there.
SetRecruitBlockedUntil ==
  /\ At("floor") /\ pg # "down"
  /\ floor' = CurrentPosition
  /\ pc' = "stop"
  /\ UNCHANGED <<pg, dir, wal, unclean, conn, restore, sentinel, memory, verdict,
                 serving, call, wasLeader, faults>>

\* Pause, then pgctldStopWithEscalation.
StopPostgres ==
  /\ At("stop")
  /\ pg' = "down" /\ unclean' = (unclean /\ pg = "down")
  /\ saved' = serving /\ serving' = "DISABLED"
  /\ pc' = "sentinel"
  /\ UNCHANGED <<dir, wal, conn, restore, sentinel, floor, memory, verdict, by,
                 marked, wasLeader, faults>>

\* Mutant: the marker is left for after the rewind.
WriteRewindSentinelLater ==
  /\ At("sentinel")
  /\ pc' = "prepare"
  /\ UNCHANGED <<pg, dir, wal, unclean, conn, restore, sentinel, floor, memory,
                 verdict, serving, call, wasLeader, faults>>

WriteRewindSentinel ==
  /\ At("sentinel")
  /\ sentinel' = TRUE
  /\ pc' = "prepare"
  /\ UNCHANGED <<pg, dir, wal, unclean, conn, restore, floor, memory, verdict,
                 serving, call, wasLeader, faults>>

\* Best effort: without a backup configuration nothing is set.
PrepareRewindRestoreSource ==
  /\ At("prepare")
  /\ restore' \in {"rewind", restore}
  /\ pc' = "dryrun"
  /\ UNCHANGED <<pg, dir, wal, unclean, conn, sentinel, floor, memory, verdict,
                 serving, call, wasLeader, faults>>

\* The dry run recovers an unclean directory and reports whether the servers
\* diverged; only then does pg_rewind start changing the directory.
DryRun ==
  /\ At("dryrun") /\ ~RewindBroken
  /\ unclean' = FALSE
  /\ IF NotStreaming THEN dir' = "half" /\ pc' = "rewinding"
                     ELSE UNCHANGED dir /\ pc' = "cleanup"
  /\ UNCHANGED <<pg, wal, conn, restore, sentinel, floor, memory, verdict, serving,
                 call, wasLeader, faults>>

\* External: pg_rewind drops the fork and goes back to the last shared
\* checkpoint, at or before the fork; it copies the source's auto.conf.
PgRewind ==
  /\ At("rewinding")
  /\ dir' = "whole" /\ fork' = 0 /\ shared' \in 0..shared
  /\ conn' = FALSE /\ restore' \in {"none", "rewind"}
  /\ pc' = "cleanup"
  /\ UNCHANGED <<pg, unclean, sentinel, floor, acked, memory, verdict, serving,
                 call, wasLeader, faults>>

\* runPgRewind's deferred removal and the one after it.
DropRestoreCommand ==
  /\ At("cleanup")
  /\ restore' = "none"
  /\ pc' = "conninfo"
  /\ UNCHANGED <<pg, dir, wal, unclean, conn, sentinel, floor, memory, verdict,
                 serving, call, wasLeader, faults>>

\* primary_conninfo goes into auto.conf before the start; best effort.
WritePrimaryConnInfo ==
  /\ At("conninfo")
  /\ \/ conn' = (conn \/ ~manual) /\ UNCHANGED faults
     \/ faults < MaxFaults /\ faults' = faults + 1 /\ UNCHANGED conn
  /\ pc' = "restart"
  /\ UNCHANGED <<pg, dir, wal, unclean, restore, sentinel, floor, memory, verdict,
                 serving, call, wasLeader>>

\* pgctld.Restart as standby, then resume.
RestartStandby ==
  /\ At("restart")
  /\ pg' = "standby" /\ serving' = saved
  /\ pc' = "verify"
  /\ UNCHANGED <<dir, wal, unclean, conn, restore, sentinel, floor, memory, verdict,
                 call, wasLeader, faults>>

\* The standby is verified and setPrimaryConnInfoLocked succeeds.
SetPrimaryConnInfo ==
  /\ At("verify") /\ pg # "down" /\ ~manual
  /\ conn' = TRUE
  /\ pc' = "clear"
  /\ UNCHANGED <<pg, dir, wal, unclean, restore, sentinel, floor, memory, verdict,
                 serving, call, wasLeader, faults>>

ClearSuspectedDivergence ==
  /\ At("clear")
  /\ suspect' = FALSE
  /\ pc' = "unmark"
  /\ UNCHANGED <<pg, dir, wal, unclean, conn, restore, sentinel, floor, recorded,
                 backoff, manual, verdict, serving, call, wasLeader, faults>>

\* removeRewindSentinel (a failure is only logged), then the caller's epilogue:
\* SetPrimary and the demote path re-fan the serving state; the monitor's
\* classifier resets unless it had discovered a sentinel.
RemoveRewindSentinel ==
  /\ At("unmark")
  /\ \/ sentinel' = FALSE /\ UNCHANGED faults
     \/ faults < MaxFaults /\ faults' = faults + 1 /\ UNCHANGED sentinel
  /\ serving' = IF by = "monitor" THEN serving ELSE Reconciled(serving, suspect)
  /\ attempts' = IF by # "rpc" /\ ~marked /\ ~quarantined THEN 0 ELSE attempts
  /\ pc' = "idle"
  /\ UNCHANGED <<pg, dir, wal, unclean, conn, restore, floor, memory, quarantined,
                 call, wasLeader>>

\* A step cannot succeed: postgres is down, replication is stopped by hand, or
\* pg_rewind keeps failing.
Refused ==
  \/ pc \in {"pause", "floor", "verify"} /\ pg = "down"
  \/ pc = "verify" /\ manual
  \/ pc = "dryrun" /\ RewindBroken

\* Any step before the outcome returns an error: resume restores the serving
\* status and a rewind under way drops its restore_command, unless that fails too.
Fail ==
  /\ pc \in Steps \ {"clear", "unmark"}
  /\ \/ Refused /\ UNCHANGED faults
     \/ faults < MaxFaults /\ faults' = faults + 1
  /\ serving' = IF pc \in {"pause", "floor", "stop", "verify"} THEN serving ELSE saved
  /\ restore' \in IF pc \in {"dryrun", "rewinding"} /\ restore = "rewind"
                  THEN {"none"} \cup (IF faults' > faults THEN {"rewind"} ELSE {})
                  ELSE {restore}
  /\ IF by = "monitor" THEN RecoveryFailed(TRUE, marked)
     ELSE /\ attempts' = IF by = "demote" /\ ~marked /\ ~quarantined THEN 0 ELSE attempts
          /\ UNCHANGED quarantined
  /\ pc' = "idle"
  /\ UNCHANGED <<pg, dir, wal, unclean, conn, sentinel, floor, memory, call, wasLeader>>

-----------------------------------------------------------------------------
\* The RPCs that share the action lock.

\* SetPrimary of the leader's rule, after validation: the rule is recorded, a
\* cohort member loses restore_command, and then
\*  - a position that is not higher only repairs primary_conninfo drift;
\*  - a suspected divergence defers until the leader is rewind-ready, then rewinds;
\*  - otherwise the standby is pointed at the leader and its serving state re-fanned.
RecordTermPrimary(ready) ==
  recorded' = IF ready \/ recorded = "ready" THEN "ready" ELSE "known"

SetPrimaryUnreachable(ready) ==
  /\ pc = "idle" /\ pg = "down"
  /\ RecordTermPrimary(ready)
  /\ UNCHANGED <<pg, dir, wal, unclean, conn, restore, sentinel, floor, suspect,
                 backoff, manual, verdict, serving, pc, call, wasLeader, faults>>

SetPrimaryNotHigher(ready) ==
  /\ pc = "idle" /\ pg = "standby" /\ Rule = 1
  /\ RecordTermPrimary(ready)
  /\ restore' = "none"
  /\ conn' = (conn \/ ~manual)
  /\ UNCHANGED <<pg, dir, wal, unclean, sentinel, floor, suspect, backoff, manual,
                 verdict, serving, pc, call, wasLeader, faults>>

SetPrimaryDiverged(ready) ==
  /\ pc = "idle" /\ pg # "down" /\ Rule = 0
  /\ suspect \/ pg = "primary" \/ wasLeader
  /\ RecordTermPrimary(ready)
  /\ restore' = "none"
  /\ suspect' = TRUE
  /\ serving' = IF suspect /\ pg = "standby" /\ ~wasLeader THEN serving
                ELSE Reconciled(serving, TRUE)
  /\ IF ready THEN pc' = "pause" /\ by' = "rpc" ELSE UNCHANGED <<pc, by>>
  /\ UNCHANGED <<pg, dir, wal, unclean, conn, sentinel, floor, backoff, manual,
                 verdict, marked, saved, wasLeader, faults>>

SetPrimaryStandby(ready) ==
  /\ pc = "idle" /\ pg = "standby" /\ Rule = 0 /\ ~suspect /\ ~wasLeader
  /\ RecordTermPrimary(ready)
  /\ restore' = "none"
  /\ conn' = (conn \/ ~manual)
  /\ serving' = IF manual THEN serving ELSE Reconciled(serving, FALSE)
  /\ UNCHANGED <<pg, dir, wal, unclean, sentinel, floor, suspect, backoff, manual,
                 verdict, pc, call, wasLeader, faults>>

SetPrimary(ready) ==
  \/ SetPrimaryUnreachable(ready) \/ SetPrimaryNotHigher(ready)
  \/ SetPrimaryDiverged(ready) \/ SetPrimaryStandby(ready)

StopReplication ==
  /\ MayStop /\ pc = "idle" /\ pg = "standby"
  /\ manual' = TRUE /\ conn' = FALSE
  /\ UNCHANGED <<pg, dir, wal, unclean, restore, sentinel, floor, suspect, recorded,
                 backoff, verdict, serving, pc, call, wasLeader, faults>>

StartReplication ==
  /\ pc = "idle" /\ manual
  /\ manual' = FALSE
  /\ UNCHANGED <<pg, dir, wal, unclean, conn, restore, sentinel, floor, suspect,
                 recorded, backoff, verdict, serving, pc, call, wasLeader, faults>>

\* Recruit of a primary: demoteToStandbyLocked restarts it as a standby and marks
\* its WAL only afterwards.
DemoteToStandby ==
  /\ pc = "idle" /\ pg = "primary" /\ recorded = "none" /\ FloorMet
  /\ pg' = "standby" /\ restore' = "none"
  /\ serving' = IF serving = "SERVING" THEN "DRAINING" ELSE serving
  /\ pc' = "demoted"
  /\ UNCHANGED <<dir, wal, unclean, conn, sentinel, floor, memory, verdict, call,
                 wasLeader, faults>>

MarkDemoted ==
  /\ pc = "demoted"
  /\ MarkSuspectedDivergence
  /\ pc' = "idle"
  /\ UNCHANGED <<pg, dir, wal, unclean, conn, restore, sentinel, floor, recorded,
                 backoff, manual, verdict, call, wasLeader, faults>>

-----------------------------------------------------------------------------
\* Postgres, the pooler process and time.

Stream ==
  /\ pg = "standby" /\ conn /\ ~NotStreaming /\ shared < MaxLsn
  /\ shared' = shared + 1
  /\ acked' = IF shared' > acked THEN shared' ELSE acked
  /\ UNCHANGED <<pg, dir, fork, unclean, conn, restore, sentinel, floor, memory,
                 verdict, serving, pc, call, wasLeader, faults>>

PrimaryWrites ==
  /\ pg = "primary" /\ fork < MaxFork
  /\ fork' = fork + 1
  /\ UNCHANGED <<pg, dir, shared, acked, unclean, conn, restore, sentinel, floor,
                 memory, verdict, serving, pc, call, wasLeader, faults>>

PostgresCrash ==
  /\ pg # "down" /\ faults < MaxFaults /\ faults' = faults + 1
  /\ pg' = "down" /\ unclean' = TRUE
  /\ UNCHANGED <<dir, wal, conn, restore, sentinel, floor, memory, verdict, serving,
                 pc, call, wasLeader>>

\* A restarted pooler has its files and nothing else; Open serves at once.
PoolerCrash ==
  /\ faults < MaxFaults /\ faults' = faults + 1
  /\ suspect' = FALSE /\ recorded' = "none" /\ backoff' = FALSE /\ manual' = FALSE
  /\ attempts' = 0 /\ quarantined' = FALSE /\ serving' = "SERVING"
  /\ pc' = "idle"
  /\ UNCHANGED <<pg, dir, wal, unclean, conn, restore, sentinel, floor, call, wasLeader>>

BackoffElapses ==
  /\ backoff /\ backoff' = FALSE
  /\ UNCHANGED <<pg, dir, wal, unclean, conn, restore, sentinel, floor, suspect,
                 recorded, manual, verdict, serving, pc, call, wasLeader, faults>>

MonitorTick ==
  \/ TickNone \/ TickMarkInterrupted \/ TickMarkDiverged \/ TickResign
  \/ TickReconcileState \/ TickFixPrimaryConnInfo \/ TickDisableRestoreCommand
  \/ TickStart \/ TickStartFails \/ TickRewindToLeader \/ TickDemoteStalePrimary

OperationStep ==
  \/ PauseBeforeMeasure \/ SetRecruitBlockedUntil \/ StopPostgres
  \/ WriteRewindSentinel \/ PrepareRewindRestoreSource \/ DryRun \/ PgRewind
  \/ DropRestoreCommand \/ WritePrimaryConnInfo \/ RestartStandby
  \/ SetPrimaryConnInfo \/ ClearSuspectedDivergence \/ RemoveRewindSentinel
  \/ Fail \/ MarkDemoted

Next ==
  \/ MonitorTick \/ OperationStep
  \/ \E ready \in BOOLEAN : SetPrimary(ready)
  \/ StopReplication \/ StartReplication \/ DemoteToStandby
  \/ Stream \/ PrimaryWrites \/ PostgresCrash \/ PoolerCrash \/ BackoffElapses

Spec == Init /\ [][Next]_vars

\* The monitor ticks periodically and a step holding the lock goes on; multiorch
\* repeats SetPrimary until the node follows.  Faults are bounded, so they end.
FairSpec ==
  /\ Spec
  /\ WF_vars(MonitorTick) /\ WF_vars(OperationStep) /\ WF_vars(BackoffElapses)
  /\ SF_vars(SetPrimary(TRUE))

-----------------------------------------------------------------------------
\* Properties.

\* Every variable keeps the values the code can give it.
NodeTypeOK ==
  /\ pg \in {"down", "standby", "primary"} /\ dir \in {"whole", "half"}
  /\ shared \in 0..MaxLsn /\ fork \in Nat /\ acked \in 0..MaxLsn
  /\ unclean \in BOOLEAN /\ conn \in BOOLEAN /\ sentinel \in BOOLEAN
  /\ restore \in {"none", "provisioned", "rewind"}
  /\ floor \in [rule : {0, 1}, lsn : Nat]
  /\ suspect \in BOOLEAN /\ recorded \in {"none", "known", "ready"}
  /\ backoff \in BOOLEAN /\ manual \in BOOLEAN
  /\ attempts \in 0..MinAttempts /\ quarantined \in BOOLEAN
  /\ serving \in {"SERVING", "DRAINING", "DISABLED"}
  /\ pc \in Steps \cup {"idle", "demoted"}
  /\ by \in {"monitor", "demote", "rpc"} /\ marked \in BOOLEAN
  /\ saved \in {"SERVING", "DRAINING", "DISABLED"}
  /\ wasLeader \in BOOLEAN /\ faults \in 0..MaxFaults

\* Whatever crash interrupts a rewind, a directory that pg_rewind has begun to
\* change and a restore_command a rewind installed are covered by the sentinel on
\* disk, the only trace that survives the process (rewind_sentinel.go).
InterruptedRewindMarked ==
  dir = "half" \/ restore = "rewind" => sentinel

\* Postgres never starts with an archive restore_command while an unfinished
\* rewind is recorded on disk, whichever path starts it and whatever was lost in
\* between (startPostgres, restartAsStandbyLocked).
NoArchiveReplayAfterRewind ==
  [][pg = "down" /\ pg' = "standby" /\ sentinel => restore' = "none"]_vars

\* A node that suspects its WAL diverged does not serve reads: the mark, the
\* restart paths and every resume agree on it (markSuspectedDivergence, fixDrift).
NoSuspectReads ==
  serving = "SERVING" => ~suspect

\* An interrupted rewind does not stay so for ever: the node is rewound again and
\* rejoins, or it is quarantined, unless an administrator holds it
\* (trackRecoveryOutcome, StopReplication).
InterruptedRewindResolves ==
  sentinel ~> (~sentinel \/ quarantined \/ manual)

\* A node whose WAL forked from the leader's, stale primary or phantom standby,
\* sheds the fork or is quarantined, unless an administrator holds it
\* (standbyStuckDiverged, SetPrimary, demote).
DivergedNodeRejoins ==
  fork > 0 ~> (fork = 0 \/ quarantined \/ manual)

-----------------------------------------------------------------------------
(* What comments and docs say and the code does not do.  None of these     *)
(* holds: see "Observations" in the README.                               *)

\* A node whose monitor keeps failing to rewind it is quarantined: with the
\* sentinel present the failed attempts keep counting (trackRecoveryOutcome).
FailedRewindsQuarantine ==
  []<><<by = "monitor" /\ Fail>>_vars => <>quarantined

\* A half-rewound directory is only brought up held: without a leader to stream
\* from (determineRemedialAction, startPostgres).
HalfRewoundHeld ==
  dir = "half" /\ pg = "standby" /\ pc = "idle" => ~conn

\* A standby that Recruit would accept holds every WAL position it ever
\* acknowledged (SetRecruitBlockedUntil, recruitPositionFloorIfOutstanding).
RecruitableHoldsAckedWAL ==
  pg = "standby" /\ dir = "whole" /\ FloorMet => shared >= acked
=============================================================================
