--------------------------- MODULE RewindReadiness ---------------------------
(***************************************************************************)
(* When a leader advertises that it is safe to pg_rewind from.  Promote    *)
(* records the new term before it promotes postgres, upgrades the record   *)
(* when the rule commits, and leaves a goroutine behind that checkpoints   *)
(* and marks the record without the action lock; the postgres monitor      *)
(* marks it too.  Meanwhile the node may be deposed and promoted again.    *)
(* The names differ from those of NodeRecovery, the rest of what a node    *)
(* does about rewinds, since the theorems about the two are in one module. *)
(***************************************************************************)
EXTENDS Integers

CONSTANTS
  MaxTerm       \* bound on coordinator terms

ASSUME ReadinessAssumption == MaxTerm \in Nat

VARIABLES
  rp,           \* the recorded ReplicationPrimary
  role,         \* what postgres runs as
  timeline,     \* postgres's timeline: one more per pg_promote
  checkpointed, \* timeline of the latest checkpoint in the control file
  promoting,    \* the step of Promote that holds the action lock
  checkpoints   \* checkpoint goroutines that have not finished

readinessVars == <<rp, role, timeline, checkpointed, promoting, checkpoints>>

ReadinessInit ==
  /\ rp = [term |-> 0, self |-> FALSE, decided |-> FALSE, ready |-> FALSE]
  /\ role = "standby" /\ timeline = 1 /\ checkpointed = 1
  /\ promoting = "no" /\ checkpoints = {}

\* MergeReplicationPrimary for a higher position: readiness carries over only
\* within a coordinator term.
RecordPrimary(term, self, decided, ready) ==
  rp' = [term |-> term, self |-> self, decided |-> decided,
         ready |-> ready \/ (term = rp.term /\ rp.ready)]

\* promoteLocked records the proposal before anything else changes.
RecordProposal(term) ==
  /\ promoting = "no" /\ role = "standby" /\ term > rp.term
  /\ RecordPrimary(term, TRUE, FALSE, FALSE)
  /\ promoting' = "recorded"
  /\ UNCHANGED <<role, timeline, checkpointed, checkpoints>>

\* promoteStandbyToPrimary: pg_promote starts a timeline no checkpoint is on yet,
\* and the goroutine keeps the position this promotion was for.
PromoteStandbyToPrimary ==
  /\ promoting = "recorded"
  /\ role' = "primary" /\ timeline' = timeline + 1
  /\ checkpoints' = checkpoints \cup
       {[term |-> rp.term, timeline |-> timeline + 1, done |-> FALSE]}
  /\ promoting' = "promoted"
  /\ UNCHANGED <<rp, checkpointed>>

\* The rule commits and the record becomes a decision.
PromoteComplete ==
  /\ promoting = "promoted"
  /\ RecordPrimary(rp.term, TRUE, TRUE, FALSE)
  /\ promoting' = "no"
  /\ UNCHANGED <<role, timeline, checkpointed, checkpoints>>

\* The promotion hook, or the rule write after it, fails.
PromoteFails ==
  /\ promoting # "no"
  /\ promoting' = "no"
  /\ UNCHANGED <<rp, role, timeline, checkpointed, checkpoints>>

\* SetPrimary names another leader at a higher term.
SetPrimaryOther(term, ready) ==
  /\ promoting = "no" /\ role = "standby" /\ term > rp.term
  /\ RecordPrimary(term, FALSE, TRUE, ready)
  /\ UNCHANGED <<role, timeline, checkpointed, promoting, checkpoints>>

\* Recruit demotes the primary: a clean restart, so with a shutdown checkpoint.
RecruitDemotes ==
  /\ promoting = "no" /\ role = "primary"
  /\ role' = "standby" /\ checkpointed' = timeline
  /\ UNCHANGED <<rp, timeline, promoting, checkpoints>>

\* External: postgres dies, and the monitor starts it as a standby; an action
\* that holds the lock fails.
PostgresDies ==
  /\ role = "primary"
  /\ role' = "standby" /\ promoting' = "no"
  /\ UNCHANGED <<rp, timeline, checkpointed, checkpoints>>

\* The goroutine's CHECKPOINT returns, while the server it was sent to lives.
CheckpointReturns(c) ==
  /\ ~c.done /\ role = "primary" /\ timeline = c.timeline
  /\ checkpointed' = timeline
  /\ checkpoints' = (checkpoints \ {c}) \cup {[c EXCEPT !.done = TRUE]}
  /\ UNCHANGED <<rp, role, timeline, promoting>>

CheckpointFails(c) ==
  /\ ~c.done
  /\ checkpoints' = checkpoints \ {c}
  /\ UNCHANGED <<rp, role, timeline, checkpointed, promoting>>

\* Mutant: any record that names this node may be marked.
MarksRecordOfSelf(term) == rp.self

\* The record still names this node at the position the caller expects: the
\* proposal that was promoted, not yet upgraded to a decision.
MarksRecord(term) == rp.self /\ rp.term = term /\ ~rp.decided

\* MarkSelfRewindReady from the goroutine, under mu but not the action lock.
MarkSelfRewindReady(c) ==
  /\ c.done
  /\ rp' = [rp EXCEPT !.ready = @ \/ MarksRecord(c.term)]
  /\ checkpoints' = checkpoints \ {c}
  /\ UNCHANGED <<role, timeline, checkpointed, promoting>>

\* rewindSourceReady: the control file's checkpoint is on the current timeline.
RewindSourceReady == role = "primary" /\ checkpointed = timeline

\* Mutant: only the goroutine marks.
MonitorMarksReadyNever == FALSE /\ UNCHANGED readinessVars

\* remedialActionMarkRewindReady, decided and taken under the action lock.
MonitorMarksReady ==
  /\ promoting = "no" /\ RewindSourceReady /\ rp.self /\ ~rp.ready
  /\ rp' = [rp EXCEPT !.ready = TRUE]
  /\ UNCHANGED <<role, timeline, checkpointed, promoting, checkpoints>>

\* External: postgres's own lazy end-of-recovery checkpoint.
PostgresCheckpoint ==
  /\ role = "primary" /\ checkpointed # timeline
  /\ checkpointed' = timeline
  /\ UNCHANGED <<rp, role, timeline, promoting, checkpoints>>

ReadinessNext ==
  \/ \E term \in 1..MaxTerm :
       RecordProposal(term) \/ \E ready \in BOOLEAN : SetPrimaryOther(term, ready)
  \/ PromoteStandbyToPrimary \/ PromoteComplete \/ PromoteFails
  \/ RecruitDemotes \/ PostgresDies
  \/ \E c \in checkpoints :
       CheckpointReturns(c) \/ CheckpointFails(c) \/ MarkSelfRewindReady(c)
  \/ MonitorMarksReady \/ PostgresCheckpoint

ReadinessSpec == ReadinessInit /\ [][ReadinessNext]_readinessVars

\* The monitor ticks, a promotion in progress ends, postgres checkpoints.
FairReadinessSpec ==
  /\ ReadinessSpec
  /\ WF_readinessVars(MonitorMarksReady) /\ WF_readinessVars(PostgresCheckpoint)
  /\ WF_readinessVars(PromoteStandbyToPrimary) /\ WF_readinessVars(PromoteComplete \/ PromoteFails)

\* Every variable keeps its type.
ReadinessTypeOK ==
  /\ rp \in [term : 0..MaxTerm, self : BOOLEAN, decided : BOOLEAN, ready : BOOLEAN]
  /\ role \in {"standby", "primary"} /\ timeline \in Nat \ {0}
  /\ checkpointed \in 1..timeline /\ promoting \in {"no", "recorded", "promoted"}
  /\ checkpoints \subseteq [term : 1..MaxTerm, timeline : 1..timeline, done : BOOLEAN]

\* A node that advertises itself rewind-ready has a checkpoint on its current
\* timeline: a goroutine left from an earlier promotion never marks the record of
\* a later one (MarkSelfRewindReady, promoteStandbyToPrimary).
ReadyMeansCheckpointed ==
  rp.self /\ rp.ready => checkpointed = timeline

\* A primary that stays the recorded leader comes to advertise itself, also when
\* its goroutine failed or found the record upgraded (shouldMarkRewindReady).
LeaderBecomesReady ==
  role = "primary" /\ rp.self ~> (rp.ready \/ role # "primary" \/ ~rp.self)
=============================================================================
