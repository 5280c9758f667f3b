------------------------- MODULE NodeRecoveryProofs -------------------------
(***************************************************************************)
(* What survives the crashes of a node that is being rewound, for any      *)
(* number of crashes and failed steps and any length of WAL.  Each of the  *)
(* three invariants is strengthened by what holds while one of the steps   *)
(* of restartAsStandbyLocked is next.  At the end, of RewindReadiness: a   *)
(* node that advertises itself as a rewind source has checkpointed on its  *)
(* current timeline, for any number of terms.  A goroutine left over from  *)
(* an earlier promotion is told apart by its term: within the term that is *)
(* recorded there is one timeline only.                                    *)
(***************************************************************************)
EXTENDS NodeRecovery, RewindReadiness, TLAPS

-----------------------------------------------------------------------------
\* Types.

\* The flags of NodeTypeOK.
FlagsOK ==
  /\ unclean \in BOOLEAN /\ conn \in BOOLEAN /\ sentinel \in BOOLEAN
  /\ suspect \in BOOLEAN /\ backoff \in BOOLEAN /\ manual \in BOOLEAN
  /\ quarantined \in BOOLEAN /\ marked \in BOOLEAN /\ wasLeader \in BOOLEAN

\* The rest of NodeTypeOK.
DataOK ==
  /\ pg \in {"down", "standby", "primary"} /\ dir \in {"whole", "half"}
  /\ shared \in 0..MaxLsn /\ fork \in Nat /\ acked \in 0..MaxLsn
  /\ restore \in {"none", "provisioned", "rewind"}
  /\ floor \in [rule : {0, 1}, lsn : Nat]
  /\ recorded \in {"none", "known", "ready"} /\ attempts \in 0..MinAttempts
  /\ serving \in {"SERVING", "DRAINING", "DISABLED"}
  /\ pc \in Steps \cup {"idle", "demoted"} /\ by \in {"monitor", "demote", "rpc"}
  /\ saved \in {"SERVING", "DRAINING", "DISABLED"} /\ faults \in 0..MaxFaults

\* A node that is not quarantined has an attempt left.
AttemptsLeft == ~quarantined => attempts < MinAttempts

DataInv == DataOK /\ AttemptsLeft

\* Every step keeps the flags Boolean.
LEMMA FlagsStep == FlagsOK /\ [Next]_vars => FlagsOK'
<1> SUFFICES ASSUME FlagsOK, [Next]_vars PROVE FlagsOK'
  OBVIOUS
<1> USE DEF FlagsOK, wal, memory, verdict, call
<1>1. CASE TickNone \/ TickResign \/ TickReconcileState \/ TickFixPrimaryConnInfo
           \/ TickDisableRestoreCommand
  <2>1. CASE TickNone
    BY <2>1, ZenonT(60) DEF TickNone
  <2>2. CASE TickResign
    BY <2>2, ZenonT(60) DEF TickResign, Benign
  <2>3. CASE TickReconcileState
    BY <2>3, ZenonT(60) DEF TickReconcileState, Benign
  <2>4. CASE TickFixPrimaryConnInfo
    BY <2>4, ZenonT(60) DEF TickFixPrimaryConnInfo, Benign
  <2>5. CASE TickDisableRestoreCommand
    BY <2>5, ZenonT(60) DEF TickDisableRestoreCommand, Benign
  <2> QED
    BY <1>1, <2>1, <2>2, <2>3, <2>4, <2>5
<1>2. CASE TickMarkInterrupted \/ TickMarkDiverged \/ TickDemoteStalePrimary \/ MarkDemoted
  <2>1. CASE TickMarkInterrupted
    BY <2>1, ZenonT(60) DEF TickMarkInterrupted, MarkSuspectedDivergence, Benign
  <2>2. CASE TickMarkDiverged
    BY <2>2, ZenonT(60) DEF TickMarkDiverged, MarkSuspectedDivergence, Benign
  <2>3. CASE TickDemoteStalePrimary
    BY <2>3, ZenonT(60) DEF TickDemoteStalePrimary, MarkSuspectedDivergence
  <2>4. CASE MarkDemoted
    BY <2>4, ZenonT(60) DEF MarkDemoted, MarkSuspectedDivergence
  <2> QED
    BY <1>2, <2>1, <2>2, <2>3, <2>4
<1>3. CASE TickStart
  BY <1>3 DEF TickStart
<1>4. CASE TickStartFails
  <2>1. conn' \in BOOLEAN
    <3>1. conn' = conn \/ conn' = (conn /\ ~suspect)
      BY <1>4 DEF TickStartFails
    <3> QED
      BY <3>1
  <2>2. quarantined' \in BOOLEAN
    BY <1>4 DEF TickStartFails, RecoveryFailed
  <2> QED
    BY <1>4, <2>1, <2>2 DEF TickStartFails
<1>5. CASE TickRewindToLeader
  BY <1>5 DEF TickRewindToLeader
<1>6. CASE PauseBeforeMeasure \/ SetRecruitBlockedUntil \/ StopPostgres \/ WriteRewindSentinel
           \/ PrepareRewindRestoreSource
  <2>1. CASE PauseBeforeMeasure
    BY <2>1, ZenonT(60) DEF PauseBeforeMeasure
  <2>2. CASE SetRecruitBlockedUntil
    BY <2>2, ZenonT(60) DEF SetRecruitBlockedUntil
  <2>3. CASE StopPostgres
    BY <2>3, ZenonT(60) DEF StopPostgres
  <2>4. CASE WriteRewindSentinel
    BY <2>4, ZenonT(60) DEF WriteRewindSentinel
  <2>5. CASE PrepareRewindRestoreSource
    BY <2>5, ZenonT(60) DEF PrepareRewindRestoreSource
  <2> QED
    BY <1>6, <2>1, <2>2, <2>3, <2>4, <2>5
<1>7. CASE DryRun \/ PgRewind \/ DropRestoreCommand \/ WritePrimaryConnInfo
  <2>1. CASE DryRun
    BY <2>1, ZenonT(60) DEF DryRun
  <2>2. CASE PgRewind
    BY <2>2, ZenonT(60) DEF PgRewind
  <2>3. CASE DropRestoreCommand
    BY <2>3, ZenonT(60) DEF DropRestoreCommand
  <2>4. CASE WritePrimaryConnInfo
    BY <2>4, ZenonT(60) DEF WritePrimaryConnInfo
  <2> QED
    BY <1>7, <2>1, <2>2, <2>3, <2>4
<1>8. CASE RestartStandby \/ SetPrimaryConnInfo \/ ClearSuspectedDivergence
           \/ RemoveRewindSentinel
  <2>1. CASE RestartStandby
    BY <2>1, ZenonT(60) DEF RestartStandby
  <2>2. CASE SetPrimaryConnInfo
    BY <2>2, ZenonT(60) DEF SetPrimaryConnInfo
  <2>3. CASE ClearSuspectedDivergence
    BY <2>3, ZenonT(60) DEF ClearSuspectedDivergence
  <2>4. CASE RemoveRewindSentinel
    BY <2>4, ZenonT(60) DEF RemoveRewindSentinel
  <2> QED
    BY <1>8, <2>1, <2>2, <2>3, <2>4
<1>9. CASE Fail
  <2>1. quarantined' \in BOOLEAN
    BY <1>9 DEF Fail, RecoveryFailed
  <2> QED
    BY <1>9, <2>1 DEF Fail
<1>10. ASSUME NEW ready \in BOOLEAN, SetPrimary(ready) PROVE FlagsOK'
  <2>1. CASE SetPrimaryUnreachable(ready)
    BY <2>1, ZenonT(60) DEF SetPrimaryUnreachable
  <2>2. CASE SetPrimaryNotHigher(ready)
    BY <2>2, ZenonT(60) DEF SetPrimaryNotHigher
  <2>3. CASE SetPrimaryDiverged(ready)
    BY <2>3, ZenonT(60) DEF SetPrimaryDiverged
  <2>4. CASE SetPrimaryStandby(ready)
    BY <2>4, ZenonT(60) DEF SetPrimaryStandby
  <2> QED
    BY <1>10, <2>1, <2>2, <2>3, <2>4 DEF SetPrimary
<1>11. CASE StopReplication \/ StartReplication \/ DemoteToStandby \/ BackoffElapses
  <2>1. CASE StopReplication
    BY <2>1, ZenonT(60) DEF StopReplication
  <2>2. CASE StartReplication
    BY <2>2, ZenonT(60) DEF StartReplication
  <2>3. CASE DemoteToStandby
    BY <2>3, ZenonT(60) DEF DemoteToStandby
  <2>4. CASE BackoffElapses
    BY <2>4, ZenonT(60) DEF BackoffElapses
  <2> QED
    BY <1>11, <2>1, <2>2, <2>3, <2>4
<1>12. CASE Stream \/ PrimaryWrites \/ PostgresCrash \/ PoolerCrash
  <2>1. CASE Stream
    BY <2>1, ZenonT(60) DEF Stream
  <2>2. CASE PrimaryWrites
    BY <2>2, ZenonT(60) DEF PrimaryWrites
  <2>3. CASE PostgresCrash
    BY <2>3, ZenonT(60) DEF PostgresCrash
  <2>4. CASE PoolerCrash
    BY <2>4, ZenonT(60) DEF PoolerCrash
  <2> QED
    BY <1>12, <2>1, <2>2, <2>3, <2>4
<1>13. CASE UNCHANGED vars
  BY <1>13 DEF vars
<1> QED
  BY <1>1, <1>2, <1>3, <1>4, <1>5, <1>6, <1>7, <1>8, <1>9, <1>10, <1>11, <1>12, <1>13
     DEF Next, MonitorTick, OperationStep

\* reconciledServingStatus returns a serving status, and never SERVING to a node
\* under suspicion.
LEMMA ReconciledStatus ==
  ASSUME NEW status \in {"SERVING", "DRAINING", "DISABLED"}, NEW suspected \in BOOLEAN
  PROVE  /\ Reconciled(status, suspected) \in {"SERVING", "DRAINING", "DISABLED"}
         /\ suspected => Reconciled(status, suspected) # "SERVING"
BY DEF Reconciled

\* Every step keeps the other variables in their types, and a failed recovery
\* reaches MinAttempts only by quarantining the node.
LEMMA DataStep == FlagsOK /\ DataInv /\ [Next]_vars => DataInv'
<1> SUFFICES ASSUME FlagsOK, DataInv, [Next]_vars PROVE DataInv'
  OBVIOUS
<1> USE RecoveryAssumption DEF DataInv, DataOK, AttemptsLeft, Steps, wal, memory, verdict, call
<1>1. CASE TickNone \/ TickResign \/ TickFixPrimaryConnInfo \/ TickDisableRestoreCommand
  BY <1>1 DEF TickNone, TickResign, TickFixPrimaryConnInfo, TickDisableRestoreCommand, Benign
<1>2. CASE TickMarkInterrupted \/ TickMarkDiverged \/ TickReconcileState
  BY <1>2 DEF TickMarkInterrupted, TickMarkDiverged, TickReconcileState,
     MarkSuspectedDivergence, Benign, Reconciled
<1>3. CASE TickStart
  BY <1>3 DEF TickStart, HeldRestore, Reconciled
<1>4. CASE TickStartFails
  <2>1. /\ ~quarantined /\ attempts' = attempts + 1
        /\ ~quarantined' => ~(attempts + 1 >= MinAttempts)
    BY <1>4, Zenon DEF TickStartFails, RecoveryFailed
  <2>2. AttemptsLeft' /\ attempts' \in 0..MinAttempts
    BY <2>1
  <2>3. serving' \in {"SERVING", "DRAINING", "DISABLED"}
    BY <1>4, ReconciledStatus DEF TickStartFails
  <2>4. restore' \in {restore, HeldRestore}
    BY <1>4 DEF TickStartFails
  <2>5. /\ faults' = faults + 1 /\ faults < MaxFaults
        /\ UNCHANGED <<pg, dir, shared, fork, acked, floor, recorded, pc, by, saved>>
    BY <1>4 DEF TickStartFails
  <2> QED
    BY <2>2, <2>3, <2>4, <2>5 DEF HeldRestore
<1>5. CASE TickRewindToLeader \/ TickDemoteStalePrimary \/ MarkDemoted
  BY <1>5 DEF TickRewindToLeader, TickDemoteStalePrimary, MarkDemoted,
     MarkSuspectedDivergence, Reconciled
<1>6. CASE PauseBeforeMeasure \/ StopPostgres \/ WriteRewindSentinel
           \/ PrepareRewindRestoreSource
  BY <1>6 DEF PauseBeforeMeasure, StopPostgres, WriteRewindSentinel,
     PrepareRewindRestoreSource
<1>7. CASE SetRecruitBlockedUntil
  BY <1>7 DEF SetRecruitBlockedUntil, CurrentPosition, Rule
<1>8. CASE DryRun
  BY <1>8 DEF DryRun
<1>9. CASE PgRewind
  BY <1>9 DEF PgRewind
<1>10. CASE DropRestoreCommand \/ WritePrimaryConnInfo \/ RestartStandby
            \/ SetPrimaryConnInfo \/ ClearSuspectedDivergence
  BY <1>10 DEF DropRestoreCommand, WritePrimaryConnInfo, RestartStandby, SetPrimaryConnInfo,
     ClearSuspectedDivergence
<1>11. CASE RemoveRewindSentinel
  BY <1>11 DEF RemoveRewindSentinel, Reconciled
<1>12. CASE Fail
  <2>1. AttemptsLeft' /\ attempts' \in 0..MinAttempts
    BY <1>12 DEF Fail, RecoveryFailed, FlagsOK
  <2>2. restore' \in {"none", "provisioned", "rewind"}
    BY <1>12 DEF Fail
  <2> QED
    BY <1>12, <2>1, <2>2 DEF Fail
<1>13. ASSUME NEW ready \in BOOLEAN, SetPrimary(ready) PROVE DataInv'
  BY <1>13 DEF SetPrimary, SetPrimaryUnreachable, SetPrimaryNotHigher, SetPrimaryDiverged,
     SetPrimaryStandby, RecordTermPrimary, Reconciled
<1>14. CASE StopReplication \/ StartReplication \/ DemoteToStandby \/ BackoffElapses
  BY <1>14 DEF StopReplication, StartReplication, DemoteToStandby, BackoffElapses
<1>15. CASE Stream \/ PrimaryWrites
  BY <1>15 DEF Stream, PrimaryWrites
<1>16. CASE PostgresCrash \/ PoolerCrash
  BY <1>16 DEF PostgresCrash, PoolerCrash
<1>17. CASE UNCHANGED vars
  BY <1>17 DEF vars
<1> QED
  BY <1>1, <1>2, <1>3, <1>4, <1>5, <1>6, <1>7, <1>8, <1>9, <1>10, <1>11, <1>12, <1>13, <1>14,
     <1>15, <1>16, <1>17 DEF Next, MonitorTick, OperationStep

\* Every variable keeps the values the code can give it; in particular the
\* classifier's count of failed attempts never passes its threshold.
THEOREM NodeTypes == Spec => []NodeTypeOK
<1>1. Init => FlagsOK /\ DataInv
  <2> SUFFICES ASSUME Init PROVE FlagsOK /\ DataInv
    OBVIOUS
  <2>1. FlagsOK
    BY DEF Init, FlagsOK
  <2>2. shared \in 0..MaxLsn /\ fork \in Nat /\ acked \in 0..MaxLsn
    BY RecoveryAssumption DEF Init
  <2>3. attempts \in 0..MinAttempts /\ attempts < MinAttempts /\ faults \in 0..MaxFaults
    BY RecoveryAssumption DEF Init
  <2>4. floor \in [rule : {0, 1}, lsn : Nat]
    BY DEF Init
  <2> QED
    BY <2>1, <2>2, <2>3, <2>4 DEF Init, DataInv, DataOK, AttemptsLeft, Steps
<1>2. FlagsOK /\ DataInv /\ [Next]_vars => (FlagsOK /\ DataInv)'
  BY FlagsStep, DataStep
<1>3. FlagsOK /\ DataInv => NodeTypeOK
  BY DEF FlagsOK, DataInv, DataOK, NodeTypeOK
<1> QED
  BY <1>1, <1>2, <1>3, PTL DEF Spec

-----------------------------------------------------------------------------
\* Reads of a node under suspicion.

\* From the first step of restartAsStandbyLocked until the suspicion is cleared it
\* stands, and what resume will restore is no serving state.
SuspectedThroughout ==
  /\ pc \in Steps \ {"unmark"} => suspect
  /\ pc \in {"sentinel", "prepare", "dryrun", "rewinding", "cleanup", "conninfo", "restart"}
       => saved # "SERVING"

ReadsInv == SuspectedThroughout /\ NoSuspectReads

\* Every step preserves it: the callers raise the suspicion before the first step,
\* and StopPostgres saves a status that is not SERVING.
LEMMA ReadsStep == NodeTypeOK /\ ReadsInv /\ [Next]_vars => ReadsInv'
<1> SUFFICES ASSUME NodeTypeOK, ReadsInv, [Next]_vars PROVE ReadsInv'
  OBVIOUS
<1> USE DEF ReadsInv, SuspectedThroughout, NoSuspectReads, Steps, memory, call
<1>1. CASE \/ TickNone \/ TickResign \/ TickFixPrimaryConnInfo \/ TickDisableRestoreCommand
           \/ StopReplication \/ StartReplication \/ BackoffElapses
           \/ Stream \/ PrimaryWrites \/ PostgresCrash
           \/ UNCHANGED vars
  <2>1. UNCHANGED <<suspect, serving, saved, pc>>
    BY <1>1 DEF TickNone, TickResign, TickFixPrimaryConnInfo, TickDisableRestoreCommand,
       StopReplication, StartReplication, BackoffElapses, Stream, PrimaryWrites,
       PostgresCrash, vars
  <2> QED
    BY <2>1
<1>2. CASE TickMarkInterrupted \/ TickMarkDiverged \/ TickDemoteStalePrimary \/ MarkDemoted
  <2>1. suspect' /\ serving' # "SERVING" /\ pc' \in {pc, "idle", "pause"}
    BY <1>2 DEF TickMarkInterrupted, TickMarkDiverged, TickDemoteStalePrimary, MarkDemoted,
       MarkSuspectedDivergence, Reconciled
  <2>2. pc \in {"idle", "demoted"}
    BY <1>2 DEF TickMarkInterrupted, TickMarkDiverged, TickDemoteStalePrimary, MarkDemoted,
       Tick
  <2> QED
    BY <2>1, <2>2
<1>3. CASE TickReconcileState
  BY <1>3 DEF TickReconcileState, Tick, Reconciled
<1>4. CASE TickStart \/ TickStartFails
  <2>1. pc' = "idle" /\ serving' = "SERVING" => ~suspect'
    BY <1>4 DEF TickStart, TickStartFails, Tick, Reconciled
  <2>2. pc' = "idle"
    BY <1>4 DEF TickStart, TickStartFails, Tick
  <2> QED
    BY <2>1, <2>2
<1>5. CASE TickRewindToLeader
  <2>1. suspect
    BY <1>5 DEF TickRewindToLeader, Tick, Remedy, RunningRemedy
  <2> QED
    BY <1>5, <2>1 DEF TickRewindToLeader
<1>6. CASE PauseBeforeMeasure \/ SetRecruitBlockedUntil
  BY <1>6 DEF PauseBeforeMeasure, SetRecruitBlockedUntil, At
<1>7. CASE StopPostgres
  BY <1>7 DEF StopPostgres, At
<1>8. CASE WriteRewindSentinel \/ PrepareRewindRestoreSource \/ DryRun \/ PgRewind
           \/ DropRestoreCommand \/ WritePrimaryConnInfo
  BY <1>8 DEF WriteRewindSentinel, PrepareRewindRestoreSource, DryRun, PgRewind,
     DropRestoreCommand, WritePrimaryConnInfo, At
<1>9. CASE RestartStandby \/ SetPrimaryConnInfo \/ ClearSuspectedDivergence
  BY <1>9 DEF RestartStandby, SetPrimaryConnInfo, ClearSuspectedDivergence, At
<1>10. CASE RemoveRewindSentinel
  BY <1>10 DEF RemoveRewindSentinel, At, Reconciled
<1>11. CASE Fail
  BY <1>11 DEF Fail
<1>12. ASSUME NEW ready \in BOOLEAN, SetPrimary(ready) PROVE ReadsInv'
  BY <1>12 DEF SetPrimary, SetPrimaryUnreachable, SetPrimaryNotHigher, SetPrimaryDiverged,
     SetPrimaryStandby, Reconciled
<1>13. CASE DemoteToStandby
  BY <1>13 DEF DemoteToStandby
<1>14. CASE PoolerCrash
  BY <1>14 DEF PoolerCrash
<1> QED
  BY <1>1, <1>2, <1>3, <1>4, <1>5, <1>6, <1>7, <1>8, <1>9, <1>10, <1>11, <1>12, <1>13, <1>14
     DEF Next, MonitorTick, OperationStep

\* A node that suspects its WAL diverged does not serve reads, whatever crashes and
\* failed steps come between the mark and the end of the rewind.
THEOREM NoReadsUnderSuspicion == Spec => []NoSuspectReads
<1>1. Init => ReadsInv
  BY DEF Init, ReadsInv, SuspectedThroughout, NoSuspectReads, Steps
<1>2. ReadsInv => NoSuspectReads
  BY DEF ReadsInv
<1> QED
  BY <1>1, <1>2, ReadsStep, NodeTypes, PTL DEF Spec

-----------------------------------------------------------------------------
\* The sentinel.

\* The sentinel stands from before pg_rewind is prepared until it is removed, and
\* by then the directory is whole again and no restore_command is left.
MarkedThroughout ==
  /\ pc \in {"prepare", "dryrun", "rewinding", "cleanup", "conninfo", "restart", "verify",
             "clear", "unmark"} => sentinel
  /\ pc \in {"cleanup", "conninfo", "restart", "verify", "clear", "unmark"} => dir = "whole"
  /\ pc \in {"conninfo", "restart", "verify", "clear", "unmark"} => restore = "none"

MarkInv == MarkedThroughout /\ InterruptedRewindMarked

\* Every step preserves it.
LEMMA MarkStep == NodeTypeOK /\ MarkInv /\ [Next]_vars => MarkInv'
<1> SUFFICES ASSUME NodeTypeOK, MarkInv, [Next]_vars PROVE MarkInv'
  OBVIOUS
<1> USE DEF MarkInv, MarkedThroughout, InterruptedRewindMarked
<1>1. CASE \/ TickNone \/ TickMarkInterrupted \/ TickMarkDiverged \/ TickResign
           \/ TickReconcileState \/ TickFixPrimaryConnInfo
           \/ StopReplication \/ StartReplication \/ BackoffElapses
           \/ Stream \/ PrimaryWrites \/ PostgresCrash
           \/ UNCHANGED vars
  <2>1. UNCHANGED <<dir, restore, sentinel, pc>>
    BY <1>1 DEF TickNone, TickMarkInterrupted, TickMarkDiverged, TickResign,
       TickReconcileState, TickFixPrimaryConnInfo, StopReplication, StartReplication,
       BackoffElapses, Stream, PrimaryWrites, PostgresCrash, vars
  <2> QED
    BY <2>1
<1>2. CASE TickDisableRestoreCommand \/ TickStart \/ TickStartFails
  <2>1. /\ pc = "idle" /\ pc' = "idle" /\ UNCHANGED <<dir, sentinel>>
        /\ restore' \in {"none", restore}
    BY <1>2 DEF TickDisableRestoreCommand, TickStart, TickStartFails, Tick, HeldRestore
  <2> QED
    BY <2>1
<1>3. CASE TickRewindToLeader \/ TickDemoteStalePrimary \/ MarkDemoted
  BY <1>3 DEF TickRewindToLeader, TickDemoteStalePrimary, MarkDemoted
<1>4. CASE PauseBeforeMeasure \/ SetRecruitBlockedUntil \/ StopPostgres
  BY <1>4 DEF PauseBeforeMeasure, SetRecruitBlockedUntil, StopPostgres
<1>5. CASE WriteRewindSentinel \/ PrepareRewindRestoreSource
  BY <1>5 DEF WriteRewindSentinel, PrepareRewindRestoreSource, At
<1>6. CASE DryRun
  <2>1. sentinel /\ UNCHANGED <<restore, sentinel>>
    BY <1>6 DEF DryRun, At
  <2>2. \/ pc' = "rewinding"
        \/ pc' = "cleanup" /\ dir' = dir /\ dir # "half"
    BY <1>6 DEF DryRun, NotStreaming
  <2> QED
    BY <2>1, <2>2 DEF NodeTypeOK
<1>7. CASE PgRewind
  BY <1>7 DEF PgRewind, At
<1>8. CASE DropRestoreCommand \/ WritePrimaryConnInfo \/ RestartStandby
           \/ SetPrimaryConnInfo \/ ClearSuspectedDivergence
  BY <1>8 DEF DropRestoreCommand, WritePrimaryConnInfo, RestartStandby, SetPrimaryConnInfo,
     ClearSuspectedDivergence, At
<1>9. CASE RemoveRewindSentinel
  BY <1>9 DEF RemoveRewindSentinel, At
<1>10. CASE Fail
  <2>1. pc' = "idle" /\ restore' \in {"none", restore} /\ UNCHANGED <<dir, sentinel>>
    BY <1>10 DEF Fail
  <2> QED
    BY <2>1
<1>11. ASSUME NEW ready \in BOOLEAN, SetPrimary(ready) PROVE MarkInv'
  BY <1>11 DEF SetPrimary, SetPrimaryUnreachable, SetPrimaryNotHigher, SetPrimaryDiverged,
     SetPrimaryStandby
<1>12. CASE DemoteToStandby \/ PoolerCrash
  BY <1>12 DEF DemoteToStandby, PoolerCrash
<1> QED
  BY <1>1, <1>2, <1>3, <1>4, <1>5, <1>6, <1>7, <1>8, <1>9, <1>10, <1>11, <1>12
     DEF Next, MonitorTick, OperationStep

\* The sentinel's invariant, from the start.
LEMMA MarkAlways == Spec => []MarkInv
<1>1. Init => MarkInv
  BY DEF Init, MarkInv, MarkedThroughout, InterruptedRewindMarked
<1> QED
  BY <1>1, MarkStep, NodeTypes, PTL DEF Spec

\* Whatever crash interrupts a rewind, a directory that pg_rewind has begun to
\* change and a restore_command it left are covered by the sentinel on disk.
THEOREM InterruptedRewindsMarked == Spec => []InterruptedRewindMarked
<1>1. MarkInv => InterruptedRewindMarked
  BY DEF MarkInv
<1> QED
  BY <1>1, MarkAlways, PTL

\* Postgres never starts with an archive restore_command while an unfinished rewind
\* is recorded on disk: a start of the monitor is held back by the suspicion the
\* sentinel raises first, and a rewind drops the command before its restart.
THEOREM NoArchiveReplay == Spec => NoArchiveReplayAfterRewind
<1>1. MarkInv /\ [Next]_vars
        => [pg = "down" /\ pg' = "standby" /\ sentinel => restore' = "none"]_vars
  <2> SUFFICES ASSUME MarkInv, Next, pg = "down", pg' = "standby", sentinel
               PROVE  restore' = "none"
    OBVIOUS
  <2>1. CASE TickStart
    BY <2>1 DEF TickStart, Tick, Remedy, HeldRestore
  <2>2. CASE RestartStandby
    BY <2>2 DEF RestartStandby, At, MarkInv, MarkedThroughout
  <2>3. CASE MonitorTick /\ ~TickStart
    <3>1. pg' = pg
      BY <2>3 DEF MonitorTick, TickNone, TickMarkInterrupted, TickMarkDiverged, TickResign,
         TickReconcileState, TickFixPrimaryConnInfo, TickDisableRestoreCommand, TickStartFails,
         TickRewindToLeader, TickDemoteStalePrimary
    <3> QED
      BY <3>1
  <2>4. CASE OperationStep /\ ~RestartStandby
    <3>1. pg' \in {pg, "down"}
      BY <2>4 DEF OperationStep, PauseBeforeMeasure, SetRecruitBlockedUntil, StopPostgres,
         WriteRewindSentinel, PrepareRewindRestoreSource, DryRun, PgRewind, DropRestoreCommand,
         WritePrimaryConnInfo, SetPrimaryConnInfo, ClearSuspectedDivergence,
         RemoveRewindSentinel, Fail, MarkDemoted
    <3> QED
      BY <3>1
  <2>5. ASSUME NEW ready \in BOOLEAN, SetPrimary(ready) PROVE FALSE
    BY <2>5 DEF SetPrimary, SetPrimaryUnreachable, SetPrimaryNotHigher, SetPrimaryDiverged,
       SetPrimaryStandby
  <2>6. CASE StopReplication \/ StartReplication \/ DemoteToStandby \/ Stream
             \/ PrimaryWrites \/ PostgresCrash \/ PoolerCrash \/ BackoffElapses
    BY <2>6 DEF StopReplication, StartReplication, DemoteToStandby, Stream, PrimaryWrites,
       PostgresCrash, PoolerCrash, BackoffElapses
  <2> QED
    BY <2>1, <2>2, <2>3, <2>4, <2>5, <2>6 DEF Next
<1> QED
  BY <1>1, MarkAlways, PTL DEF Spec, NoArchiveReplayAfterRewind

-----------------------------------------------------------------------------
(* When the node may serve as the source of another one's rewind.  This is *)
(* about RewindReadiness alone, whose behaviours are not constrained by    *)
(* those of NodeRecovery.                                                  *)

\* A promotion in progress is of the recorded term, which is not ready before
\* postgres has been promoted.
PromotionRecorded ==
  /\ promoting # "no" => rp.self /\ rp.term # 0
  /\ promoting = "recorded" => /\ ~rp.ready
                               /\ \A c \in checkpoints : c.term < rp.term

\* What a checkpoint goroutine knows is of the past, or of the current timeline.
CheckpointsOfPromotions ==
  \A c \in checkpoints :
    /\ c.term <= rp.term
    /\ c.term = rp.term => c.timeline = timeline
    /\ c.done /\ c.timeline = timeline => checkpointed = timeline

ReadyInv ==
  /\ ReadinessTypeOK
  /\ PromotionRecorded
  /\ CheckpointsOfPromotions
  /\ ReadyMeansCheckpointed

\* A checkpoint goroutine's record.
LEMMA CheckpointType ==
  ASSUME ReadinessTypeOK, NEW c \in checkpoints
  PROVE  /\ c.term \in 1..MaxTerm /\ c.timeline \in 1..timeline /\ c.done \in BOOLEAN
         /\ c = [term |-> c.term, timeline |-> c.timeline, done |-> c.done]
BY DEF ReadinessTypeOK

\* Every step preserves the invariant.
LEMMA ReadyStep == ReadyInv /\ [ReadinessNext]_readinessVars => ReadyInv'
<1> SUFFICES ASSUME ReadyInv, [ReadinessNext]_readinessVars PROVE ReadyInv'
  OBVIOUS
<1> USE DEF ReadyInv
<1>1. ASSUME NEW term \in 1..MaxTerm, RecordProposal(term) PROVE ReadyInv'
  <2>1. PICK ready \in BOOLEAN :
          /\ ready = (FALSE \/ (term = rp.term /\ rp.ready))
          /\ rp' = [term |-> term, self |-> TRUE, decided |-> FALSE, ready |-> ready]
    BY <1>1 DEF RecordProposal, RecordPrimary
  <2>2. /\ term > rp.term /\ promoting' = "recorded"
        /\ UNCHANGED <<role, timeline, checkpointed, checkpoints>>
    BY <1>1 DEF RecordProposal
  <2>3. rp.term \in 0..MaxTerm
    BY DEF ReadinessTypeOK
  <2>4. ready = FALSE
    <3>1. term # rp.term
      BY <2>2, <2>3
    <3> QED
      BY <2>1, <3>1, Zenon
  <2>5. /\ rp'.self = TRUE /\ rp'.term = term /\ rp'.ready = FALSE
        /\ rp' \in [term : 0..MaxTerm, self : BOOLEAN, decided : BOOLEAN, ready : BOOLEAN]
    BY <2>1, <2>4
  <2>6. ReadinessTypeOK'
    BY <2>2, <2>5 DEF ReadinessTypeOK
  <2>7. \A c \in checkpoints : c.term < term
    BY <2>2, <2>3, CheckpointType DEF CheckpointsOfPromotions
  <2>8. PromotionRecorded'
    BY <2>2, <2>3, <2>5, <2>7 DEF PromotionRecorded
  <2>9. CheckpointsOfPromotions'
    BY <2>2, <2>5, <2>7, CheckpointType DEF CheckpointsOfPromotions
  <2>10. ReadyMeansCheckpointed'
    BY <2>5 DEF ReadyMeansCheckpointed
  <2> QED
    BY <2>6, <2>8, <2>9, <2>10
<1>2. ASSUME NEW term \in 1..MaxTerm, NEW ready \in BOOLEAN, SetPrimaryOther(term, ready)
      PROVE  ReadyInv'
  BY <1>2 DEF SetPrimaryOther, RecordPrimary, ReadinessTypeOK,
     PromotionRecorded,
     CheckpointsOfPromotions, ReadyMeansCheckpointed
<1>3. CASE PromoteStandbyToPrimary
  <2> DEFINE new == [term |-> rp.term, timeline |-> timeline + 1, done |-> FALSE]
  <2>1. checkpoints' = checkpoints \cup {new} /\ timeline' = timeline + 1 /\ rp' = rp
        /\ checkpointed' = checkpointed
    BY <1>3 DEF PromoteStandbyToPrimary
  <2>2. new \in [term : 1..MaxTerm, timeline : 1..(timeline + 1), done : BOOLEAN]
    <3>1. rp.term \in 1..MaxTerm /\ timeline + 1 \in 1..(timeline + 1)
      BY <1>3 DEF PromoteStandbyToPrimary, ReadinessTypeOK,
         PromotionRecorded
    <3> QED
      BY <3>1
  <2>3. \A c \in checkpoints :
           c \in [term : 1..MaxTerm, timeline : 1..(timeline + 1), done : BOOLEAN]
    <3>1. 1..timeline \subseteq 1..(timeline + 1)
      BY DEF ReadinessTypeOK
    <3> QED
      BY <3>1, CheckpointType
  <2>4. ReadinessTypeOK'
    <3>1. checkpoints' \subseteq [term : 1..MaxTerm, timeline : 1..timeline', done : BOOLEAN]
      BY <2>1, <2>2, <2>3
    <3>2. role' = "primary" /\ promoting' = "promoted"
      BY <1>3 DEF PromoteStandbyToPrimary
    <3> QED
      BY <2>1, <3>1, <3>2 DEF ReadinessTypeOK
  <2>5. CheckpointsOfPromotions'
    BY <1>3, <2>1, CheckpointType
       DEF PromoteStandbyToPrimary, PromotionRecorded, CheckpointsOfPromotions,
       ReadinessTypeOK
  <2> QED
    BY <1>3, <2>1, <2>4, <2>5
       DEF PromoteStandbyToPrimary, PromotionRecorded,
       ReadyMeansCheckpointed
<1>4. CASE PromoteComplete
  <2>1. PICK ready \in BOOLEAN :
          /\ ready = (FALSE \/ (rp.term = rp.term /\ rp.ready))
          /\ rp' = [term |-> rp.term, self |-> TRUE, decided |-> TRUE, ready |-> ready]
    BY <1>4 DEF PromoteComplete, RecordPrimary
  <2>2. rp.self /\ promoting' = "no" /\ UNCHANGED <<role, timeline, checkpointed, checkpoints>>
    BY <1>4 DEF PromoteComplete, PromotionRecorded
  <2>3. rp.term \in 0..MaxTerm
    BY DEF ReadinessTypeOK
  <2>4. ready => rp.ready
    BY <2>1
  <2>5. /\ rp'.term = rp.term /\ rp'.ready = ready
        /\ rp' \in [term : 0..MaxTerm, self : BOOLEAN, decided : BOOLEAN, ready : BOOLEAN]
    BY <2>1, <2>3
  <2>6. ReadinessTypeOK' /\ CheckpointsOfPromotions'
    BY <2>2, <2>5 DEF ReadinessTypeOK, CheckpointsOfPromotions
  <2>7. PromotionRecorded' /\ ReadyMeansCheckpointed'
    BY <2>2, <2>4, <2>5 DEF PromotionRecorded, ReadyMeansCheckpointed
  <2> QED
    BY <2>6, <2>7
<1>5. CASE PromoteFails \/ PostgresDies
  <2>1. /\ promoting' = "no" /\ role' \in {"standby", role}
        /\ UNCHANGED <<rp, timeline, checkpointed, checkpoints>>
    BY <1>5 DEF PromoteFails, PostgresDies
  <2> QED
    BY <2>1 DEF ReadinessTypeOK, PromotionRecorded, CheckpointsOfPromotions,
       ReadyMeansCheckpointed
<1>6. CASE RecruitDemotes \/ PostgresCheckpoint
  <2>1. /\ checkpointed' = timeline /\ role' \in {"standby", role}
        /\ UNCHANGED <<rp, timeline, promoting, checkpoints>>
    BY <1>6 DEF RecruitDemotes, PostgresCheckpoint
  <2> QED
    BY <2>1 DEF ReadinessTypeOK, PromotionRecorded, CheckpointsOfPromotions,
       ReadyMeansCheckpointed
<1>7. CASE MonitorMarksReady
  <2>1. /\ promoting = "no" /\ checkpointed = timeline /\ rp' = [rp EXCEPT !.ready = TRUE]
        /\ UNCHANGED <<role, timeline, checkpointed, promoting, checkpoints>>
    BY <1>7 DEF MonitorMarksReady, RewindSourceReady
  <2>2. /\ rp'.term = rp.term
        /\ rp' \in [term : 0..MaxTerm, self : BOOLEAN, decided : BOOLEAN, ready : BOOLEAN]
    BY <2>1 DEF ReadinessTypeOK
  <2> QED
    BY <2>1, <2>2 DEF ReadinessTypeOK, PromotionRecorded, CheckpointsOfPromotions,
       ReadyMeansCheckpointed
<1>8. ASSUME NEW c \in checkpoints, CheckpointReturns(c) PROVE ReadyInv'
  <2> DEFINE returned == [c EXCEPT !.done = TRUE]
  <2>1. /\ returned.term = c.term /\ returned.timeline = c.timeline
        /\ returned \in [term : 1..MaxTerm, timeline : 1..timeline, done : BOOLEAN]
    <3>1. c \in [term : 1..MaxTerm, timeline : 1..timeline, done : BOOLEAN]
      BY DEF ReadinessTypeOK
    <3> QED
      BY <3>1
  <2>2. /\ checkpoints' = (checkpoints \ {c}) \cup {returned}
        /\ checkpointed' = timeline
        /\ UNCHANGED <<rp, role, timeline, promoting>>
    BY <1>8 DEF CheckpointReturns
  <2> HIDE DEF returned
  <2> QED
    BY <2>1, <2>2 DEF ReadinessTypeOK, PromotionRecorded, CheckpointsOfPromotions,
       ReadyMeansCheckpointed
<1>9. ASSUME NEW c \in checkpoints, CheckpointFails(c) PROVE ReadyInv'
  BY <1>9 DEF CheckpointFails, ReadinessTypeOK, PromotionRecorded,
     CheckpointsOfPromotions,
     ReadyMeansCheckpointed
<1>10. ASSUME NEW c \in checkpoints, MarkSelfRewindReady(c) PROVE ReadyInv'
  <2>1. PICK ready \in BOOLEAN : /\ ready = (rp.ready \/ MarksRecord(c.term))
                                 /\ rp' = [rp EXCEPT !.ready = ready]
    BY <1>10 DEF MarkSelfRewindReady
  <2>2. ready => rp.ready \/ (rp.self /\ rp.term = c.term)
    BY <2>1 DEF MarksRecord
  <2>3. /\ c.done
        /\ checkpoints' = checkpoints \ {c}
        /\ UNCHANGED <<role, timeline, checkpointed, promoting>>
    BY <1>10 DEF MarkSelfRewindReady
  <2>4. rp'.self = rp.self /\ rp'.term = rp.term /\ rp'.ready = ready
        /\ rp' \in [term : 0..MaxTerm, self : BOOLEAN, decided : BOOLEAN, ready : BOOLEAN]
    BY <2>1 DEF ReadinessTypeOK
  <2>5. ReadinessTypeOK' /\ CheckpointsOfPromotions'
    BY <2>3, <2>4 DEF ReadinessTypeOK, CheckpointsOfPromotions
  <2>6. PromotionRecorded' /\ ReadyMeansCheckpointed'
    BY <2>2, <2>3, <2>4, CheckpointType DEF PromotionRecorded, CheckpointsOfPromotions,
       ReadyMeansCheckpointed, ReadinessTypeOK
  <2> QED
    BY <2>5, <2>6
<1>11. CASE UNCHANGED readinessVars
  BY <1>11 DEF readinessVars, ReadinessTypeOK, PromotionRecorded,
     CheckpointsOfPromotions,
     ReadyMeansCheckpointed
<1> QED
  BY <1>1, <1>2, <1>3, <1>4, <1>5, <1>6, <1>7, <1>8, <1>9, <1>10, <1>11 DEF ReadinessNext

\* A node that advertises itself rewind-ready has a checkpoint on its current
\* timeline, however many promotions have left goroutines behind.
THEOREM ReadyIsCheckpointed == ReadinessSpec => []ReadyMeansCheckpointed
<1>1. ReadinessInit => ReadyInv
  BY ReadinessAssumption
     DEF ReadinessInit, ReadyInv, ReadinessTypeOK, PromotionRecorded,
     CheckpointsOfPromotions,
         ReadyMeansCheckpointed
<1>2. ReadyInv => ReadyMeansCheckpointed
  BY DEF ReadyInv
<1> QED
  BY <1>1, <1>2, ReadyStep, PTL DEF ReadinessSpec

=============================================================================
