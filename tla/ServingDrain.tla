---------------------------- MODULE ServingDrain ----------------------------
(***************************************************************************)
(* How a pooler stops serving.  The query server admits requests by kind   *)
(* and drain phase, the pool manager counts what is lent out, the reserved *)
(* pool keeps the transactions' connections by id, and two parties kill    *)
(* reservations: the drain whose grace period is over and the idle killer. *)
(* Requests are steps of their own between admission, borrowing, use and   *)
(* release; a reopen replaces every pool after Postgres has restarted.     *)
(***************************************************************************)
EXTENDS Integers, FiniteSets

CONSTANTS
    Clients,            \* sessions, each with at most one request in flight
    Conns,              \* connections of the reserved pool
    None,
    Scenarios           \* the configurations and bounds to explore

\* A scenario says which connections the reserved pool has, whether it has an
\* inactivity timeout (InactivityTimeout > 0), and whether the grace period is
\* bounded (gracePeriod > 0); it bounds the reservations ever made, the serving
\* state changes, and the pairs of CloseForReopen and Open.
ScenarioType ==
    [conns : SUBSET Conns, timeouts : BOOLEAN, graceBounded : BOOLEAN,
     reservations : Nat \ {0}, changes : Nat, reopens : Nat]

ASSUME ScenarioAssumption ==
    /\ Scenarios \subseteq ScenarioType /\ Scenarios # {}
    /\ IsFiniteSet(Clients) /\ None \notin Conns

Killers == {"drain", "idle"}

Resting == [pc |-> "idle", kind |-> "none", id |-> None, since |-> 0, gen |-> 0]

VARIABLES
    srv,        \* QueryPoolerServer and the OnStateChange in progress
    client,     \* a session's request: where it is, its kind, its reservation
    lent,       \* drain tracking of the manager: both counts, both channels
    active,     \* ids of the reserved pool
    rc,         \* reserved connections by id
    holder,     \* who uses a connection of the reserved pool
    kill,       \* KillConnection in progress, by killer
    expiry,     \* ids by expiry time: quiet for a while, or past it
    mgr,        \* lifecycle and generation of the pools; early (history): a kill has
                \* un-counted a reservation before it was counted
    scenario    \* the scenario of this behaviour, which never changes

vars == <<srv, client, lent, active, rc, holder, kill, expiry, mgr>>

Ids == 1 .. scenario.reservations

NextId == 1 + Cardinality({i \in Ids : rc[i].conn # None})

Init ==
    /\ scenario \in Scenarios
    /\ srv = [pc |-> "idle", serving |-> TRUE, primary |-> TRUE, phase |-> "none",
              woken |-> FALSE, outcome |-> "none", changes |-> 0,
              target |-> [serving |-> TRUE, primary |-> TRUE]]
    /\ client = [c \in Clients |-> Resting]
    /\ lent = [regular |-> 0, reserved |-> 0, zeroOpen |-> FALSE, reservedZeroOpen |-> FALSE]
    /\ active = {}
    /\ rc = [i \in Ids |-> [conn |-> None, released |-> FALSE]]
    /\ holder = [n \in Conns |-> None]
    /\ kill = [k \in Killers |-> [ids |-> {}, id |-> None, pc |-> "none"]]
    /\ expiry = [quiet |-> {}, past |-> {}]
    /\ mgr = [open |-> TRUE, gen |-> 0, early |-> FALSE]

-----------------------------------------------------------------------------
(* Drain tracking: what regularAdd and reservedAdd make of the counts and  *)
(* of a drain that waits on one of the channels.                           *)

Counted(regular, reserved) ==
    [regular |-> regular, reserved |-> reserved,
     zeroOpen |-> regular + reserved # 0, reservedZeroOpen |-> reserved # 0]

Woken(l) ==
    srv.woken \/ (srv.pc = "reservedDrain" /\ l.reserved = 0)
              \/ (srv.pc = "drain" /\ l.regular + l.reserved = 0)

Adds(regular, reserved) ==
    /\ lent' = Counted(lent.regular + regular, lent.reserved + reserved)
    /\ srv' = [srv EXCEPT !.woken = Woken(Counted(lent.regular + regular, lent.reserved + reserved))]

-----------------------------------------------------------------------------
(* Requests.                                                               *)

\* Mutant: single queries are admitted in the second stage as well.
AdmitsSingles(kind, leaderBound) ==
    /\ leaderBound => srv.primary
    /\ \/ srv.phase = "none" /\ srv.serving
       \/ srv.phase # "none" /\ kind = "single"

\* StartRequest for the kinds that are not about an existing reservation.
Admits(kind, leaderBound) ==
    /\ leaderBound => srv.primary
    /\ \/ srv.phase = "none" /\ srv.serving
       \/ srv.phase = "reserved" /\ kind = "single"

StartRequest(c, kind, leaderBound) ==
    /\ client[c].pc = "idle" /\ Admits(kind, leaderBound)
    /\ client' = [client EXCEPT ![c].pc = "admitted", ![c].kind = kind]
    /\ UNCHANGED <<srv, lent, active, rc, holder, kill, expiry, mgr>>

\* GetRegularConn, which waits out a reopen: borrowed and counted.
BorrowRegular(c) ==
    /\ client[c].pc = "admitted" /\ client[c].kind = "single" /\ mgr.open
    /\ client' = [client EXCEPT ![c].pc = "running", ![c].since = srv.changes]
    /\ Adds(1, 0)
    /\ UNCHANGED <<active, rc, holder, kill, expiry, mgr>>

RecycleRegular(c) ==
    /\ client[c].pc = "running"
    /\ client' = [client EXCEPT ![c] = Resting]
    /\ Adds(-1, 0)
    /\ UNCHANGED <<active, rc, holder, kill, expiry, mgr>>

\* acquireValidated: a connection is borrowed and BEGIN has run on it; nothing
\* is counted yet.
BorrowReserved(c) ==
    /\ client[c].pc = "admitted" /\ client[c].kind = "reserve" /\ mgr.open /\ NextId \in Ids
    /\ \E n \in scenario.conns :
        /\ holder[n] = None
        /\ holder' = [holder EXCEPT ![n] = NextId]
        /\ rc' = [rc EXCEPT ![NextId].conn = n]
    /\ client' = [client EXCEPT ![c].pc = "reserving", ![c].id = NextId, ![c].gen = mgr.gen]
    /\ UNCHANGED <<srv, lent, active, kill, expiry, mgr>>

\* NewConn enters the connection into the pool it was taken from, which may
\* have been closed since ...
Register(c) ==
    /\ client[c].pc = "reserving"
    /\ active' = IF client[c].gen = mgr.gen /\ mgr.open THEN active \union {client[c].id} ELSE active
    /\ client' = [client EXCEPT ![c].pc = "registered"]
    /\ UNCHANGED <<srv, lent, rc, holder, kill, expiry, mgr>>

\* ... and tells the manager; the request goes on with the statement it came for.
OnReserve(c) ==
    /\ client[c].pc = "registered"
    /\ client' = [client EXCEPT ![c].pc = "using", ![c].since = srv.changes]
    /\ Adds(0, 1)
    /\ UNCHANGED <<active, rc, holder, kill, expiry, mgr>>

\* A statement of the transaction: always admitted, the pool's Get is the gate,
\* and resets the expiry time.
GetReserved(c) ==
    /\ client[c].pc = "held" /\ client[c].id \in active \ expiry.past
    /\ client' = [client EXCEPT ![c].pc = "using"]
    /\ expiry' = [expiry EXCEPT !.quiet = @ \ {client[c].id}]
    /\ UNCHANGED <<srv, lent, active, rc, holder, kill, mgr>>

\* The reservation is gone: the client is told that its transaction aborted.
ReservationGone(c) ==
    /\ client[c].pc = "held" /\ client[c].id \notin active \ expiry.past
    /\ client' = [client EXCEPT ![c] = Resting]
    /\ UNCHANGED <<srv, lent, active, rc, holder, kill, expiry, mgr>>

StatementDone(c) ==
    /\ client[c].pc = "using"
    /\ client' = [client EXCEPT ![c].pc = "held"]
    /\ UNCHANGED <<srv, lent, active, rc, holder, kill, expiry, mgr>>

\* Mutant: Release does not check whether the killer was first.
ReleaseAlways(c) ==
    /\ client[c].pc = "using"
    /\ rc' = [rc EXCEPT ![client[c].id].released = TRUE]
    /\ client' = [client EXCEPT ![c].pc = "recycle"]
    /\ UNCHANGED <<srv, lent, active, holder, kill, expiry, mgr>>

\* Release, the CompareAndSwap: whoever comes second has nothing to do.
Release(c) ==
    /\ client[c].pc = "using"
    /\ rc' = [rc EXCEPT ![client[c].id].released = TRUE]
    /\ client' = [client EXCEPT ![c] = IF rc[@.id].released THEN Resting ELSE [@ EXCEPT !.pc = "recycle"]]
    /\ UNCHANGED <<srv, lent, active, holder, kill, expiry, mgr>>

Forgotten(ids) == [quiet |-> expiry.quiet \ ids, past |-> expiry.past \ ids]

\* Pool.release: out of the map, the connection back to the pool or closed.
FreeConn(i) ==
    /\ active' = active \ {i} /\ expiry' = Forgotten({i})
    /\ holder' = [n \in Conns |-> IF n = rc[i].conn /\ holder[n] = i THEN None ELSE holder[n]]

RecycleReserved(c) ==
    /\ client[c].pc = "recycle"
    /\ FreeConn(client[c].id)
    /\ client' = [client EXCEPT ![c].pc = "onRelease"]
    /\ UNCHANGED <<srv, lent, rc, kill, mgr>>

OnRelease(c) ==
    /\ client[c].pc = "onRelease"
    /\ client' = [client EXCEPT ![c] = Resting]
    /\ Adds(0, -1)
    /\ UNCHANGED <<active, rc, holder, kill, expiry, mgr>>

-----------------------------------------------------------------------------
(* Expiry times, and KillConnection for the ids a killer has collected.    *)

\* Time passes: until it is looked up again a reservation is quiet, whether or not
\* a statement is still running on it.  Making one takes no such time ...
GoesQuiet ==
    /\ scenario.timeouts
    /\ LET new == {client[c].id : c \in {d \in Clients : client[d].pc = "registered"}}
           quiet == active \ (expiry.past \union new)
       IN  quiet # expiry.quiet /\ expiry' = [expiry EXCEPT !.quiet = quiet]
    /\ UNCHANGED <<srv, client, lent, active, rc, holder, kill, mgr>>

\* ... and once it has been so for the inactivity timeout, IsTimedOut is true of it.
ExpiryPasses ==
    /\ \E i \in expiry.quiet : expiry' = [quiet |-> expiry.quiet \ {i}, past |-> expiry.past \union {i}]
    /\ UNCHANGED <<srv, client, lent, active, rc, holder, kill, mgr>>

\* KillTimedOut, at a tick of the idle killer.
CollectTimedOut ==
    /\ kill["idle"].pc = "none" /\ kill["idle"].ids = {} /\ active \intersect expiry.past # {}
    /\ kill' = [kill EXCEPT !["idle"].ids = active \intersect expiry.past]
    /\ UNCHANGED <<srv, client, lent, active, rc, holder, expiry, mgr>>

KillConnection(k) ==
    /\ kill[k].pc = "none"
    /\ \E i \in kill[k].ids :
        /\ kill' = [kill EXCEPT ![k] =
             [ids |-> @.ids \ {i}, id |-> IF i \in active THEN i ELSE None,
              pc |-> IF i \in active THEN "terminate" ELSE "none"]]
        /\ active' = active \ {i} /\ expiry' = Forgotten({i})
    /\ UNCHANGED <<srv, client, lent, rc, holder, mgr>>

\* The backend is terminated, Taint gives its slot back.
TerminateBackend(k) ==
    /\ kill[k].pc = "terminate"
    /\ kill' = [kill EXCEPT ![k].pc = "release"]
    /\ LET n == rc[kill[k].id].conn
       IN  holder' = IF holder[n] = kill[k].id THEN [holder EXCEPT ![n] = None] ELSE holder
    /\ UNCHANGED <<srv, client, lent, active, rc, expiry, mgr>>

KillRelease(k) ==
    /\ kill[k].pc = "release"
    /\ kill' = [kill EXCEPT ![k] = IF rc[@.id].released THEN [@ EXCEPT !.pc = "none", !.id = None]
                                                        ELSE [@ EXCEPT !.pc = "onRelease"]]
    /\ rc' = [rc EXCEPT ![kill[k].id].released = TRUE]
    /\ UNCHANGED <<srv, client, lent, active, holder, expiry, mgr>>

KillOnRelease(k) ==
    /\ kill[k].pc = "onRelease"
    /\ kill' = [kill EXCEPT ![k].pc = "none", ![k].id = None]
    /\ Adds(0, -1)
    /\ mgr' = [mgr EXCEPT !.early = @ \/ \E c \in Clients :
                                           client[c].pc = "registered" /\ client[c].id = kill[k].id]
    /\ UNCHANGED <<client, active, rc, holder, expiry>>

-----------------------------------------------------------------------------
(* OnStateChange, called by the state manager for a state that differs     *)
(* from the one it delivered last, if only in the rule number of the role. *)

OnStateChange(target) ==
    /\ srv.pc = "idle" /\ mgr.open /\ srv.changes < scenario.changes
    /\ srv' = IF target.serving
              THEN [srv EXCEPT !.serving = TRUE, !.primary = target.primary, !.phase = "none",
                               !.target = target, !.changes = @ + 1]
              ELSE [srv EXCEPT !.phase = "reserved", !.pc = "enterReserved",
                               !.target = target, !.changes = @ + 1]
    /\ UNCHANGED <<client, lent, active, rc, holder, kill, expiry, mgr>>

Stage2 == [srv EXCEPT !.pc = "enterDrain", !.phase = "regular", !.woken = FALSE]
Graceful == [srv EXCEPT !.pc = "finish", !.outcome = "graceful", !.woken = FALSE]

\* WaitForReservedDrain: nothing to wait for, or wait on the channel as it is.
EnterReservedDrain ==
    /\ srv.pc = "enterReserved"
    /\ srv' = IF lent.reserved = 0 THEN Stage2
              ELSE [srv EXCEPT !.pc = "reservedDrain", !.woken = ~lent.reservedZeroOpen]
    /\ UNCHANGED <<client, lent, active, rc, holder, kill, expiry, mgr>>

ReservedDrained ==
    /\ srv.pc = "reservedDrain" /\ srv.woken
    /\ srv' = Stage2
    /\ UNCHANGED <<client, lent, active, rc, holder, kill, expiry, mgr>>

\* Mutant: the second stage waits for reserved connections only.
EnterDrainReserved ==
    /\ srv.pc = "enterDrain"
    /\ srv' = IF lent.reserved = 0 THEN Graceful
              ELSE [srv EXCEPT !.pc = "drain", !.woken = ~lent.zeroOpen]
    /\ UNCHANGED <<client, lent, active, rc, holder, kill, expiry, mgr>>

\* WaitForDrain, likewise.
EnterDrain ==
    /\ srv.pc = "enterDrain"
    /\ srv' = IF lent.regular + lent.reserved = 0 THEN Graceful
              ELSE [srv EXCEPT !.pc = "drain", !.woken = ~lent.zeroOpen]
    /\ UNCHANGED <<client, lent, active, rc, holder, kill, expiry, mgr>>

Drained ==
    /\ srv.pc = "drain" /\ srv.woken
    /\ srv' = Graceful
    /\ UNCHANGED <<client, lent, active, rc, holder, kill, expiry, mgr>>

\* Mutant: the drain kills only what the idle killer would kill.
GraceExpiresTimedOut ==
    /\ scenario.graceBounded /\ srv.pc \in {"reservedDrain", "drain"}
    /\ srv' = [srv EXCEPT !.pc = "killAll", !.outcome = "forceClose", !.woken = FALSE]
    /\ kill' = [kill EXCEPT !["drain"].ids = active \intersect expiry.past]
    /\ UNCHANGED <<client, lent, active, rc, holder, expiry, mgr>>

\* The grace period is over in either stage: CloseReservedConnections.
GraceExpires ==
    /\ scenario.graceBounded /\ srv.pc \in {"reservedDrain", "drain"}
    /\ srv' = [srv EXCEPT !.pc = "killAll", !.outcome = "forceClose", !.woken = FALSE]
    /\ kill' = [kill EXCEPT !["drain"].ids = active]
    /\ UNCHANGED <<client, lent, active, rc, holder, expiry, mgr>>

KilledAll ==
    /\ srv.pc = "killAll" /\ kill["drain"].ids = {} /\ kill["drain"].pc = "none"
    /\ srv' = [srv EXCEPT !.pc = "finish"]
    /\ UNCHANGED <<client, lent, active, rc, holder, kill, expiry, mgr>>

FinishChange ==
    /\ srv.pc = "finish"
    /\ srv' = [srv EXCEPT !.pc = "idle", !.serving = FALSE, !.primary = srv.target.primary,
                          !.phase = "none", !.outcome = "none"]
    /\ UNCHANGED <<client, lent, active, rc, holder, kill, expiry, mgr>>

-----------------------------------------------------------------------------
(* reopenConnections runs under the action lock, as every state change.    *)

\* CloseForReopen: the reserved pool forgets its reservations and closes their
\* connections; lent regular connections are waited for only so long.
CloseForReopen ==
    /\ srv.pc = "idle" /\ mgr.open /\ mgr.gen < scenario.reopens
    /\ mgr' = [mgr EXCEPT !.open = FALSE]
    /\ active' = {} /\ expiry' = Forgotten(active)
    /\ holder' = [n \in Conns |-> IF holder[n] \in active THEN None ELSE holder[n]]
    /\ UNCHANGED <<srv, client, lent, rc, kill>>

\* Open: new pools, and new channels that are closed whatever the counts say.
Open ==
    /\ ~mgr.open
    /\ mgr' = [mgr EXCEPT !.open = TRUE, !.gen = @ + 1]
    /\ lent' = [lent EXCEPT !.zeroOpen = FALSE, !.reservedZeroOpen = FALSE]
    /\ UNCHANGED <<srv, client, active, rc, holder, kill, expiry>>

-----------------------------------------------------------------------------
RequestStep(c) ==
    \/ BorrowRegular(c) \/ RecycleRegular(c)
    \/ BorrowReserved(c) \/ Register(c) \/ OnReserve(c)
    \/ ReservationGone(c) \/ Release(c) \/ RecycleReserved(c) \/ OnRelease(c)

ExpiryStep == GoesQuiet \/ ExpiryPasses

KillStep(k) == KillConnection(k) \/ TerminateBackend(k) \/ KillRelease(k) \/ KillOnRelease(k)

DrainStep ==
    \/ EnterReservedDrain \/ ReservedDrained \/ EnterDrain \/ Drained
    \/ GraceExpires \/ KilledAll \/ FinishChange

Next ==
    \/ \E c \in Clients :
        \/ \E kind \in {"single", "reserve"}, leaderBound \in BOOLEAN : StartRequest(c, kind, leaderBound)
        \/ RequestStep(c) \/ GetReserved(c) \/ StatementDone(c)
    \/ ExpiryStep \/ CollectTimedOut
    \/ \E k \in Killers : KillStep(k)
    \/ \E target \in [serving : BOOLEAN, primary : BOOLEAN] : OnStateChange(target)
    \/ DrainStep
    \/ CloseForReopen \/ Open

Spec == Init /\ [][Next /\ UNCHANGED scenario]_<<vars, scenario>>

\* What the pooler does by itself for an admitted request.
ServerStep(c) ==
    \/ BorrowRegular(c) \/ BorrowReserved(c) \/ Register(c) \/ OnReserve(c)
    \/ RecycleReserved(c) \/ OnRelease(c)

\* The goroutines run and time passes.  A reservation that is looked up again and
\* again is quiet now and then only, so none of this makes it time out.  No
\* statement has to end, no transaction either.
FairSpec ==
    /\ Spec
    /\ \A c \in Clients : WF_vars(ServerStep(c))
    /\ \A k \in Killers : WF_vars(KillStep(k))
    /\ WF_vars(ExpiryStep) /\ WF_vars(CollectTimedOut)
    /\ WF_vars(DrainStep) /\ WF_vars(Open)

-----------------------------------------------------------------------------
ServingTypeOK ==
    /\ srv \in [pc : {"idle", "enterReserved", "reservedDrain", "enterDrain", "drain", "killAll", "finish"},
                serving : BOOLEAN, primary : BOOLEAN, phase : {"none", "reserved", "regular"},
                woken : BOOLEAN, outcome : {"none", "graceful", "forceClose"},
                changes : 0 .. scenario.changes, target : [serving : BOOLEAN, primary : BOOLEAN]]
    /\ \A c \in Clients :
        /\ client[c].pc \in {"idle", "admitted", "running", "reserving", "registered", "held",
                             "using", "recycle", "onRelease"}
        /\ client[c].id \in Ids \union {None} /\ client[c].since \in 0 .. scenario.changes
    /\ lent.regular \in 0 .. Cardinality(Clients) /\ lent.reserved \in -scenario.reservations .. scenario.reservations
    /\ active \subseteq Ids /\ expiry.quiet \subseteq active /\ expiry.past \subseteq active \ expiry.quiet
    /\ holder \in [Conns -> Ids \union {None}]

\* Until a reopen, what the manager counts as reserved is what the reserved pool
\* knows, whenever no reservation is being made, released or killed
\* (Manager.reservedCount, Pool.active).
ReservationsCounted ==
    (/\ mgr.open /\ mgr.gen = 0
     /\ \A c \in Clients : client[c].pc \notin {"registered", "recycle", "onRelease"}
     /\ \A k \in Killers : kill[k].pc = "none")
        => lent.reserved = Cardinality(active)

\* A drain that ends gracefully has outlasted every connection that was lent when
\* it began, until a reopen, or a kill that catches a reservation before it is
\* counted, puts the counts out of step for the drains that follow
\* (WaitForReservedDrain, WaitForDrain, OnStateChange, NewConn, KillConnection).
OutlastsLent ==
    srv.pc = "finish" /\ srv.outcome = "graceful" /\ mgr.gen = 0 /\ ~mgr.early =>
        \A c \in Clients :
            \/ client[c].since = srv.changes
            \/ client[c].pc # "running" /\ ~(client[c].pc \in {"held", "using"} /\ client[c].id \in active)

\* A forced drain leaves no transaction that was counted when it gave up: what
\* is left in the pool was being registered at the time (CloseReservedConnections, KillAll).
ForcedDrainLeavesNone ==
    srv.pc = "finish" /\ srv.outcome = "forceClose" =>
        \A c \in Clients :
            client[c].pc \in {"held", "using"} /\ client[c].id \in active => client[c].since = srv.changes

\* Session c holds no drain up for ever: without a grace period its single queries
\* end, and it does not look its reservation up again and again.
LetsGo(c) ==
    /\ []<>(scenario.graceBounded \/ client[c].pc # "running")
    /\ <>[][scenario.graceBounded \/ ~GetReserved(c)]_vars

\* Every change of the serving state completes: with a grace period whatever the
\* sessions do; without one if reservations have an inactivity timeout and every
\* session lets go (OnStateChange, signalZeroChanLocked, ResetExpiryTime).
ChangeCompletes ==
    (\A c \in Clients : LetsGo(c)) =>
        (srv.pc # "idle" /\ (scenario.graceBounded \/ scenario.timeouts) ~> srv.pc = "idle")

-----------------------------------------------------------------------------
(* What comments and docs say and the code does not do.  None of these     *)
(* holds: see "Observations" in the README.                               *)

\* The cutover happens with no request in flight (OnStateChange, StartRequest).
NothingInFlight ==
    srv.pc = "finish" /\ srv.outcome = "graceful" => \A c \in Clients : client[c].pc = "idle"

\* A pooler that is not serving admits no single query and no new reservation
\* (StartRequest).
NotServingRejects ==
    [][\A c \in Clients : client[c].pc = "idle" /\ client'[c].pc = "admitted" => srv.serving]_vars

\* The backend a kill terminates is the one of the reservation it is meant for
\* (KillConnection, Release).
KillsOwnBackend ==
    \A k \in Killers :
        kill[k].pc = "terminate" => holder[rc[kill[k].id].conn] \in {kill[k].id, None}

\* A drain that ends gracefully has outlasted every connection lent when it began
\* also after a kill of a reservation that was not counted yet (NewConn,
\* KillConnection): an earlier forced drain leaves the count one too low.
OutlastsLentAlways ==
    srv.pc = "finish" /\ srv.outcome = "graceful" /\ mgr.gen = 0 =>
        \A c \in Clients :
            \/ client[c].since = srv.changes
            \/ client[c].pc # "running" /\ ~(client[c].pc \in {"held", "using"} /\ client[c].id \in active)

\* Each stage of a drain terminates without a grace period as well, since it rejects
\* new work (OnStateChange, Get): a transaction that goes on is not new work.
StagesTerminate ==
    (\A c \in Clients : []<>(client[c].pc \notin {"running", "using"}))
        => (srv.pc # "idle" ~> srv.pc = "idle")

\* Neither count is ever negative (regularAdd, reservedAdd).
CountsNotNegative == lent.regular >= 0 /\ lent.reserved >= 0
=============================================================================
