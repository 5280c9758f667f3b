------------------------- MODULE ServingDrainProofs -------------------------
(***************************************************************************)
(* The drain of a pooler, for any number of sessions, connections,         *)
(* reservations, changes and reopens.                                      *)
(*                                                                         *)
(* The count of reservations is not the size of the pool's map: a session  *)
(* is in the map before it is counted, and out of it before its release    *)
(* hook has run.  CountInv therefore balances the count against who still  *)
(* owes a release (Owed) and who is registered but not yet counted         *)
(* (Uncounted).  The drain follows: while no uncounted reservation was     *)
(* killed, a transaction that was there when the drain began keeps the     *)
(* count positive, and with it the channel that the drain waits for open.  *)
(***************************************************************************)
EXTENDS ServingDrain, FiniteSetTheorems, TLAPS

SrvType ==
    [pc : {"idle", "enterReserved", "reservedDrain", "enterDrain", "drain", "killAll", "finish"},
     serving : BOOLEAN, primary : BOOLEAN, phase : {"none", "reserved", "regular"},
     woken : BOOLEAN, outcome : {"none", "graceful", "forceClose"},
     changes : Nat, target : [serving : BOOLEAN, primary : BOOLEAN]]

ClientType ==
    [pc : {"idle", "admitted", "running", "reserving", "registered", "held", "using",
           "recycle", "onRelease"},
     kind : {"none", "single", "reserve"}, id : Ids \cup {None}, since : Nat, gen : Nat]

LentType == [regular : Int, reserved : Int, zeroOpen : BOOLEAN, reservedZeroOpen : BOOLEAN]

KillType == [ids : SUBSET Ids, id : Ids \cup {None},
             pc : {"none", "terminate", "release", "onRelease"}]

TypeInv ==
    /\ scenario \in Scenarios
    /\ srv \in SrvType
    /\ client \in [Clients -> ClientType]
    /\ lent \in LentType
    /\ active \in SUBSET Ids
    /\ rc \in [Ids -> [conn : Conns \cup {None}, released : BOOLEAN]]
    /\ kill \in [Killers -> KillType]
    /\ mgr \in [open : BOOLEAN, gen : Nat, early : BOOLEAN]

\* A session that makes, has or gives back a reservation knows its id.
HasId(c) == client[c].pc \in {"reserving", "registered", "held", "using", "recycle", "onRelease"}
IdsHeld == \A c \in Clients : HasId(c) => client[c].id \in Ids

\* The ids of a scenario are finitely many naturals.
LEMMA IdsFinite ==
    ASSUME scenario \in Scenarios
    PROVE  /\ scenario.reservations \in Nat /\ scenario.conns \in SUBSET Conns
           /\ scenario.changes \in Nat
           /\ IsFiniteSet(Ids) /\ Ids \subseteq Nat
<1>1. /\ scenario.reservations \in Nat /\ scenario.conns \in SUBSET Conns
      /\ scenario.changes \in Nat
  BY ScenarioAssumption DEF ScenarioType
<1>2. IsFiniteSet(1..scenario.reservations)
  BY <1>1, FS_Interval
<1>3. 1..scenario.reservations \subseteq Nat
  BY <1>1
<1> QED
  BY <1>1, <1>2, <1>3 DEF Ids

\* The initial state has the types.
LEMMA InitTypes == Init => TypeInv
<1> SUFFICES ASSUME Init PROVE TypeInv
  OBVIOUS
<1>1. srv \in SrvType
  BY DEF Init, SrvType
<1>2. client \in [Clients -> ClientType]
  BY DEF Init, Resting, ClientType
<1>3. lent \in LentType
  BY DEF Init, LentType
<1>4. /\ active \in SUBSET Ids
      /\ rc \in [Ids -> [conn : Conns \cup {None}, released : BOOLEAN]]
      /\ mgr \in [open : BOOLEAN, gen : Nat, early : BOOLEAN]
  BY DEF Init
<1>5. kill \in [Killers -> KillType]
  BY DEF Init, KillType
<1> QED
  BY <1>1, <1>2, <1>3, <1>4, <1>5 DEF TypeInv, Init

\* What a change of the counts does to the server: it may wake the drain that waits.
LEMMA AddsTypes ==
    ASSUME TypeInv, NEW a \in Int, NEW b \in Int, Adds(a, b)
    PROVE  /\ lent' \in LentType
           /\ lent'.regular = lent.regular + a /\ lent'.reserved = lent.reserved + b
           /\ lent'.zeroOpen <=> lent'.regular + lent'.reserved # 0
           /\ srv' \in SrvType
           /\ srv'.pc = srv.pc /\ srv'.outcome = srv.outcome /\ srv'.changes = srv.changes
           /\ srv'.woken => \/ srv.woken \/ srv.pc = "reservedDrain"
                            \/ lent'.regular + lent'.reserved = 0
<1>1. PICK z \in BOOLEAN, y \in BOOLEAN :
        /\ z <=> (lent.regular + a) + (lent.reserved + b) # 0
        /\ lent' = [regular |-> lent.regular + a, reserved |-> lent.reserved + b,
                    zeroOpen |-> z, reservedZeroOpen |-> y]
  BY Zenon DEF Adds, Counted
<1>2. lent.regular \in Int /\ lent.reserved \in Int
  BY DEF TypeInv, LentType
<1>3. /\ lent' \in LentType
      /\ lent'.regular = lent.regular + a /\ lent'.reserved = lent.reserved + b
      /\ lent'.zeroOpen <=> lent'.regular + lent'.reserved # 0
  BY <1>1, <1>2 DEF LentType
<1>4. Counted(lent.regular + a, lent.reserved + b) = lent'
  BY DEF Adds
<1>5. PICK w \in BOOLEAN :
        /\ srv' = [srv EXCEPT !.woken = w]
        /\ w => Woken(lent')
  BY <1>4, Zenon DEF Adds, Woken
<1>6. /\ srv' \in SrvType
      /\ srv'.pc = srv.pc /\ srv'.outcome = srv.outcome /\ srv'.changes = srv.changes
      /\ srv'.woken = w
  BY <1>5 DEF TypeInv, SrvType
<1>7. srv'.woken => \/ srv.woken \/ srv.pc = "reservedDrain"
                    \/ lent'.regular + lent'.reserved = 0
  BY <1>5, <1>6 DEF Woken
<1> QED
  BY <1>3, <1>6, <1>7
\* Every step of a request keeps the types.
LEMMA RequestTypes ==
    ASSUME TypeInv, IdsHeld, UNCHANGED scenario, NEW c \in Clients,
           \/ \E kind \in {"single", "reserve"}, leaderBound \in BOOLEAN : StartRequest(c, kind, leaderBound)
           \/ RequestStep(c) \/ GetReserved(c) \/ StatementDone(c)
    PROVE  TypeInv'
<1>1. Ids' = Ids /\ ClientType' = ClientType /\ KillType' = KillType
  BY DEF Ids, ClientType, KillType
<1>2. Resting \in ClientType
  BY DEF Resting, ClientType
<1>3. client[c] \in ClientType /\ srv.changes \in Nat /\ mgr.gen \in Nat
  BY DEF TypeInv, SrvType
<1>4. ASSUME NEW kind \in {"single", "reserve"}, NEW leaderBound \in BOOLEAN,
             StartRequest(c, kind, leaderBound)
      PROVE  TypeInv'
  BY <1>1, <1>3, <1>4 DEF TypeInv, StartRequest, ClientType
<1>5. ASSUME BorrowRegular(c) PROVE TypeInv'
  <2>1. client' \in [Clients -> ClientType]
    BY <1>3, <1>5 DEF TypeInv, BorrowRegular, ClientType
  <2>2. lent' \in LentType /\ srv' \in SrvType
    <3>1. Adds(1, 0)
      BY <1>5 DEF BorrowRegular
    <3>2. -1 \in Int /\ 0 \in Int /\ 1 \in Int
      OBVIOUS
    <3> QED
      BY <3>1, <3>2, AddsTypes
  <2> QED
    BY <1>1, <1>5, <2>1, <2>2 DEF TypeInv, BorrowRegular
<1>6. ASSUME RecycleRegular(c) PROVE TypeInv'
  <2>1. client' \in [Clients -> ClientType]
    BY <1>2, <1>6 DEF TypeInv, RecycleRegular
  <2>2. lent' \in LentType /\ srv' \in SrvType
    <3>1. Adds(-1, 0)
      BY <1>6 DEF RecycleRegular
    <3>2. -1 \in Int /\ 0 \in Int /\ 1 \in Int
      OBVIOUS
    <3> QED
      BY <3>1, <3>2, AddsTypes
  <2> QED
    BY <1>1, <1>6, <2>1, <2>2 DEF TypeInv, RecycleRegular
<1>7. ASSUME BorrowReserved(c) PROVE TypeInv'
  <2>1. PICK n \in scenario.conns : rc' = [rc EXCEPT ![NextId].conn = n]
    BY <1>7 DEF BorrowReserved
  <2>2. n \in Conns
    BY <2>1, IdsFinite DEF TypeInv
  <2>3. rc' \in [Ids -> [conn : Conns \cup {None}, released : BOOLEAN]]
    BY <2>1, <2>2 DEF TypeInv
  <2>4. client' \in [Clients -> ClientType]
    BY <1>3, <1>7 DEF TypeInv, BorrowReserved, ClientType
  <2> QED
    BY <1>1, <1>7, <2>3, <2>4 DEF TypeInv, BorrowReserved
<1>8. ASSUME Register(c) PROVE TypeInv'
  <2>1. client[c].id \in Ids
    BY <1>8 DEF Register, IdsHeld, HasId
  <2>2. client' \in [Clients -> ClientType]
    BY <1>3, <1>8 DEF TypeInv, Register, ClientType
  <2> QED
    BY <1>1, <1>8, <2>1, <2>2 DEF TypeInv, Register
<1>9. ASSUME OnReserve(c) PROVE TypeInv'
  <2>1. client' \in [Clients -> ClientType]
    BY <1>3, <1>9 DEF TypeInv, OnReserve, ClientType
  <2>2. lent' \in LentType /\ srv' \in SrvType
    <3>1. Adds(0, 1)
      BY <1>9 DEF OnReserve
    <3>2. -1 \in Int /\ 0 \in Int /\ 1 \in Int
      OBVIOUS
    <3> QED
      BY <3>1, <3>2, AddsTypes
  <2> QED
    BY <1>1, <1>9, <2>1, <2>2 DEF TypeInv, OnReserve
<1>10. ASSUME GetReserved(c) \/ StatementDone(c) PROVE TypeInv'
  BY <1>1, <1>3, <1>10 DEF TypeInv, GetReserved, StatementDone, ClientType
<1>11. ASSUME ReservationGone(c) PROVE TypeInv'
  BY <1>1, <1>2, <1>11 DEF TypeInv, ReservationGone
<1>12. ASSUME Release(c) PROVE TypeInv'
  <2>1. client' \in [Clients -> ClientType]
    BY <1>2, <1>3, <1>12 DEF TypeInv, Release, ClientType
  <2>2. rc' \in [Ids -> [conn : Conns \cup {None}, released : BOOLEAN]]
    BY <1>12, ZenonT(60) DEF TypeInv, Release
  <2> QED
    BY <1>1, <1>12, <2>1, <2>2 DEF TypeInv, Release
<1>13. ASSUME RecycleReserved(c) PROVE TypeInv'
  <2>1. client' \in [Clients -> ClientType]
    BY <1>3, <1>13 DEF TypeInv, RecycleReserved, ClientType
  <2> QED
    BY <1>1, <1>13, <2>1 DEF TypeInv, RecycleReserved, FreeConn
<1>14. ASSUME OnRelease(c) PROVE TypeInv'
  <2>1. client' \in [Clients -> ClientType]
    BY <1>2, <1>14 DEF TypeInv, OnRelease
  <2>2. lent' \in LentType /\ srv' \in SrvType
    <3>1. Adds(0, -1)
      BY <1>14 DEF OnRelease
    <3>2. -1 \in Int /\ 0 \in Int /\ 1 \in Int
      OBVIOUS
    <3> QED
      BY <3>1, <3>2, AddsTypes
  <2> QED
    BY <1>1, <1>14, <2>1, <2>2 DEF TypeInv, OnRelease
<1> QED
  BY <1>4, <1>5, <1>6, <1>7, <1>8, <1>9, <1>10, <1>11, <1>12, <1>13, <1>14 DEF RequestStep

\* The steps that a kill loop makes for one connection leave it the connections
\* that it has collected.
LEMMA KillerMoves ==
    ASSUME TypeInv, NEW k \in Killers, TerminateBackend(k) \/ KillRelease(k) \/ KillOnRelease(k)
    PROVE  \E v \in KillType : v.ids = kill[k].ids /\ kill' = [kill EXCEPT ![k] = v]
<1>1. PICK old \in KillType : old = kill[k]
  BY DEF TypeInv
<1> DEFINE releasing == [old EXCEPT !.pc = "release"]
           called == [old EXCEPT !.pc = "onRelease"]
           over == [old EXCEPT !.pc = "none", !.id = None]
<1>2. /\ releasing \in KillType /\ releasing.ids = old.ids
      /\ called \in KillType /\ called.ids = old.ids
      /\ over \in KillType /\ over.ids = old.ids
  BY DEF KillType
<1>3. CASE TerminateBackend(k)
  <2>1. kill' = [kill EXCEPT ![k] = releasing]
    BY <1>1, <1>3, Zenon DEF TerminateBackend
  <2> QED
    BY <1>1, <1>2, <2>1
<1>4. CASE KillRelease(k)
  <2>1. kill' = [kill EXCEPT ![k] = over] \/ kill' = [kill EXCEPT ![k] = called]
    BY <1>1, <1>4, Zenon DEF KillRelease
  <2> QED
    BY <1>1, <1>2, <2>1
<1>5. CASE KillOnRelease(k)
  <2>1. kill' = [kill EXCEPT ![k] = over]
    BY <1>1, <1>5 DEF KillOnRelease
  <2> QED
    BY <1>1, <1>2, <2>1
<1> QED
  BY <1>3, <1>4, <1>5

\* Every step of a killer keeps the types.
LEMMA KillTypes ==
    ASSUME TypeInv, UNCHANGED scenario,
           ExpiryStep \/ CollectTimedOut \/ \E k \in Killers : KillStep(k)
    PROVE  TypeInv'
<1>1. Ids' = Ids /\ ClientType' = ClientType /\ KillType' = KillType
  BY DEF Ids, ClientType, KillType
<1>2. ASSUME CollectTimedOut PROVE TypeInv'
  <2>1. active \intersect expiry.past \in SUBSET Ids
    BY DEF TypeInv
  <2>2. kill' \in [Killers -> KillType]
    BY <1>2, <2>1 DEF CollectTimedOut, TypeInv, KillType, Killers
  <2> QED
    BY <1>1, <1>2, <2>2 DEF TypeInv, CollectTimedOut
<1>3. ASSUME NEW k \in Killers, KillConnection(k) PROVE TypeInv'
  <2>1. PICK i \in kill[k].ids :
          /\ kill' = [kill EXCEPT ![k] =
               [ids |-> @.ids \ {i}, id |-> IF i \in active THEN i ELSE None,
                pc |-> IF i \in active THEN "terminate" ELSE "none"]]
          /\ active' = active \ {i}
    BY <1>3 DEF KillConnection
  <2>2. kill[k].ids \in SUBSET Ids
    BY DEF TypeInv, KillType
  <2>3. kill' \in [Killers -> KillType]
    BY <2>1, <2>2 DEF TypeInv, KillType
  <2> QED
    BY <1>1, <1>3, <2>1, <2>3 DEF TypeInv, KillConnection
<1>4. ASSUME NEW k \in Killers, TerminateBackend(k) PROVE TypeInv'
  <2>1. kill' \in [Killers -> KillType]
    BY <1>4, KillerMoves DEF TypeInv
  <2> QED
    BY <1>1, <1>4, <2>1 DEF TypeInv, TerminateBackend
<1>5. ASSUME NEW k \in Killers, KillRelease(k) PROVE TypeInv'
  <2>1. kill' \in [Killers -> KillType]
    BY <1>5, KillerMoves DEF TypeInv
  <2>2. rc' \in [Ids -> [conn : Conns \cup {None}, released : BOOLEAN]]
    BY <1>5, ZenonT(60) DEF TypeInv, KillRelease
  <2> QED
    BY <1>1, <1>5, <2>1, <2>2 DEF TypeInv, KillRelease
<1>6. ASSUME NEW k \in Killers, KillOnRelease(k) PROVE TypeInv'
  <2>1. kill' \in [Killers -> KillType]
    BY <1>6, KillerMoves DEF TypeInv
  <2>2. lent' \in LentType /\ srv' \in SrvType
    <3>1. Adds(0, -1)
      BY <1>6 DEF KillOnRelease
    <3>2. -1 \in Int /\ 0 \in Int /\ 1 \in Int
      OBVIOUS
    <3> QED
      BY <3>1, <3>2, AddsTypes
  <2>3. PICK e \in BOOLEAN : mgr' = [mgr EXCEPT !.early = e]
    BY <1>6, Zenon DEF KillOnRelease
  <2>4. mgr' \in [open : BOOLEAN, gen : Nat, early : BOOLEAN]
    BY <2>3 DEF TypeInv
  <2> QED
    BY <1>1, <1>6, <2>1, <2>2, <2>4 DEF TypeInv, KillOnRelease
<1>7. ASSUME ExpiryStep PROVE TypeInv'
  BY <1>1, <1>7 DEF TypeInv, ExpiryStep, GoesQuiet, ExpiryPasses
<1> QED
  BY <1>2, <1>3, <1>4, <1>5, <1>6, <1>7 DEF KillStep

\* Every step of a state change and of a reopen keeps the types.
LEMMA ChangeTypes ==
    ASSUME TypeInv, UNCHANGED scenario,
           \/ \E target \in [serving : BOOLEAN, primary : BOOLEAN] : OnStateChange(target)
           \/ DrainStep \/ CloseForReopen \/ Open
    PROVE  TypeInv'
<1>1. Ids' = Ids /\ ClientType' = ClientType /\ KillType' = KillType
  BY DEF Ids, ClientType, KillType
<1>2. ASSUME NEW target \in [serving : BOOLEAN, primary : BOOLEAN], OnStateChange(target)
      PROVE  TypeInv'
  <2>1. srv.changes + 1 \in Nat /\ target.primary \in BOOLEAN
    BY DEF TypeInv, SrvType
  <2>2. PICK n \in Nat, b \in BOOLEAN :
          \/ srv' = [srv EXCEPT !.serving = TRUE, !.primary = b, !.phase = "none",
                                !.target = target, !.changes = n]
          \/ srv' = [srv EXCEPT !.phase = "reserved", !.pc = "enterReserved",
                                !.target = target, !.changes = n]
    BY <1>2, <2>1, Zenon DEF OnStateChange
  <2>3. srv \in SrvType
    BY DEF TypeInv
  <2>4. srv' \in SrvType
    <3>1. CASE srv' = [srv EXCEPT !.serving = TRUE, !.primary = b, !.phase = "none",
                                  !.target = target, !.changes = n]
      BY <2>3, <3>1 DEF SrvType
    <3>2. CASE srv' = [srv EXCEPT !.phase = "reserved", !.pc = "enterReserved",
                                  !.target = target, !.changes = n]
      BY <2>3, <3>2 DEF SrvType
    <3> QED
      BY <2>2, <3>1, <3>2
  <2> QED
    BY <1>1, <1>2, <2>4 DEF TypeInv, OnStateChange
<1>3. Stage2 \in SrvType /\ Graceful \in SrvType
  BY DEF TypeInv, SrvType, Stage2, Graceful
<1>4. \A w \in BOOLEAN : /\ [srv EXCEPT !.pc = "reservedDrain", !.woken = w] \in SrvType
                         /\ [srv EXCEPT !.pc = "drain", !.woken = w] \in SrvType
  BY DEF TypeInv, SrvType
<1>5. (~lent.reservedZeroOpen) \in BOOLEAN /\ (~lent.zeroOpen) \in BOOLEAN
  OBVIOUS
<1>6. ASSUME EnterReservedDrain PROVE TypeInv'
  <2>1. \/ srv' = Stage2
        \/ srv' = [srv EXCEPT !.pc = "reservedDrain", !.woken = ~lent.reservedZeroOpen]
    BY <1>6, Zenon DEF EnterReservedDrain
  <2>2. srv' \in SrvType
    BY <1>3, <1>4, <1>5, <2>1, Zenon
  <2> QED
    BY <1>1, <1>6, <2>2 DEF TypeInv, EnterReservedDrain
<1>7. ASSUME EnterDrain PROVE TypeInv'
  <2>1. \/ srv' = Graceful
        \/ srv' = [srv EXCEPT !.pc = "drain", !.woken = ~lent.zeroOpen]
    BY <1>7, Zenon DEF EnterDrain
  <2>2. srv' \in SrvType
    BY <1>3, <1>4, <1>5, <2>1, Zenon
  <2> QED
    BY <1>1, <1>7, <2>2 DEF TypeInv, EnterDrain
<1>8. ASSUME ReservedDrained \/ Drained PROVE TypeInv'
  BY <1>1, <1>3, <1>8 DEF TypeInv, ReservedDrained, Drained
<1>9. ASSUME GraceExpires PROVE TypeInv'
  <2>1. srv' \in SrvType
    BY <1>9 DEF TypeInv, GraceExpires, SrvType
  <2>2. kill' \in [Killers -> KillType]
    BY <1>9 DEF TypeInv, GraceExpires, KillType, Killers
  <2> QED
    BY <1>1, <1>9, <2>1, <2>2 DEF TypeInv, GraceExpires
<1>10. ASSUME KilledAll \/ FinishChange PROVE TypeInv'
  <2>1. srv' \in SrvType
    BY <1>10, ZenonT(60) DEF TypeInv, KilledAll, FinishChange, SrvType
  <2> QED
    BY <1>1, <1>10, <2>1 DEF TypeInv, KilledAll, FinishChange
<1>11. ASSUME CloseForReopen PROVE TypeInv'
  BY <1>1, <1>11 DEF TypeInv, CloseForReopen
<1>12. ASSUME Open PROVE TypeInv'
  <2>1. lent' \in LentType
    BY <1>12 DEF TypeInv, Open, LentType
  <2>2. PICK n \in Nat : mgr' = [mgr EXCEPT !.open = TRUE, !.gen = n]
    <3>1. mgr.gen + 1 \in Nat
      BY DEF TypeInv
    <3> QED
      BY <1>12, <3>1, Zenon DEF Open
  <2>3. mgr' \in [open : BOOLEAN, gen : Nat, early : BOOLEAN]
    BY <2>2 DEF TypeInv
  <2> QED
    BY <1>1, <1>12, <2>1, <2>3 DEF TypeInv, Open
<1> QED
  BY <1>2, <1>6, <1>7, <1>8, <1>9, <1>10, <1>11, <1>12 DEF DrainStep
-----------------------------------------------------------------------------
(* Who may still release which reservation.                                *)

Taken(i) == rc[i].conn # None
Killing(k) == kill[k].pc # "none"
Releasing(c) == client[c].pc \in {"recycle", "onRelease"}

\* The ids are handed out in order, each to one session.
Numbered == \E n \in 0..scenario.reservations : \A i \in Ids : Taken(i) <=> i <= n

Distinct ==
    /\ \A c \in Clients : HasId(c) => client[c].id \in Ids /\ Taken(client[c].id)
    /\ \A c, d \in Clients : HasId(c) /\ HasId(d) /\ client[c].id = client[d].id => c = d
    /\ \A i \in active : Taken(i)
    /\ \A i \in Ids : rc[i].released => Taken(i)

\* A killer has taken its reservation out of the pool, so no other killer has it.
KillInv ==
    /\ \A k \in Killers : Killing(k) => kill[k].id \in Ids \ active /\ Taken(kill[k].id)
    /\ \A k, l \in Killers : Killing(k) /\ Killing(l) /\ kill[k].id = kill[l].id => k = l
    /\ \A k \in Killers : kill[k].pc = "onRelease" => rc[kill[k].id].released

\* Whoever has won the release of a reservation is the only one.
ReleaseInv ==
    /\ \A c \in Clients : Releasing(c) => rc[client[c].id].released
    /\ \A c \in Clients : client[c].pc \in {"reserving", "onRelease"} => client[c].id \notin active
    /\ \A c \in Clients : client[c].pc = "reserving" => ~rc[client[c].id].released
    /\ \A c \in Clients, k \in Killers :
          client[c].pc = "reserving" /\ Killing(k) => client[c].id # kill[k].id
    /\ \A c \in Clients, k \in Killers :
          Releasing(c) /\ kill[k].pc = "onRelease" => client[c].id # kill[k].id
    /\ \A i \in active : rc[i].released =>
          \E c \in Clients : client[c].pc = "recycle" /\ client[c].id = i

IdInv == Numbered /\ Distinct /\ KillInv /\ ReleaseInv

\* The next id is new.
LEMMA NextIdNew ==
    ASSUME TypeInv, Numbered, NextId \in Ids
    PROVE  \E n \in 0..scenario.reservations :
              NextId = n + 1 /\ \A i \in Ids : Taken(i) <=> i <= n
<1>1. PICK n \in 0..scenario.reservations : \A i \in Ids : Taken(i) <=> i <= n
  BY DEF Numbered
<1>2. scenario.reservations \in Nat
  BY IdsFinite DEF TypeInv
<1>3. {i \in Ids : rc[i].conn # None} = 1..n
  BY <1>1, <1>2 DEF Ids, Taken
<1>4. Cardinality(1..n) = n
  BY <1>2, FS_Interval
<1>5. NextId = 1 + n
  BY <1>3, <1>4, Zenon DEF NextId
<1> QED
  BY <1>1, <1>2, <1>5

\* The initial state has no reservations.
LEMMA InitIds == Init => IdInv
<1> SUFFICES ASSUME Init PROVE IdInv
  OBVIOUS
<1>1. scenario.reservations \in Nat
  BY IdsFinite DEF Init
<1>2. Numbered
  <2>1. 0 \in 0..scenario.reservations
    BY <1>1
  <2> QED
    BY <2>1 DEF Init, Numbered, Taken, Ids
<1> QED
  BY <1>2 DEF Init, IdInv, Distinct, KillInv, ReleaseInv, Resting, HasId, Taken, Killing, Releasing

\* A session that neither has a reservation nor gets one changes nothing, and a
\* session may go on to a state that promises as much.
LEMMA SessionMoves ==
    ASSUME TypeInv, TypeInv', IdInv, UNCHANGED <<scenario, rc, active, kill>>,
           NEW c \in Clients,
           \A d \in Clients \ {c} : client'[d] = client[d],
           \/ ~HasId(c)'
           \/ /\ client[c].pc \in {"registered", "held", "using"} /\ client'[c].id = client[c].id
              /\ client'[c].pc \in {"held", "using"},
           client[c].pc # "recycle"
    PROVE  IdInv'
<1>1. /\ Ids' = Ids
      /\ \A i : Taken(i)' <=> Taken(i)
      /\ \A k : Killing(k)' <=> Killing(k)
  BY DEF Ids, Taken, Killing
<1>2. \A d \in Clients : HasId(d)' => /\ HasId(d) /\ client'[d].id = client[d].id
                                      /\ client'[d].pc = client[d].pc \/ d = c
  BY DEF HasId
<1>3. Numbered'
  BY <1>1 DEF IdInv, Numbered
<1>4. Distinct'
  BY <1>1, <1>2 DEF IdInv, Distinct
<1>5. KillInv'
  BY <1>1 DEF IdInv, KillInv
<1>6. ReleaseInv'
  <2>1. \A d \in Clients : /\ client'[d].pc = "reserving" => client[d].pc = "reserving"
                           /\ client'[d].pc = "onRelease" => client[d].pc = "onRelease"
                           /\ client'[d].pc = "recycle" <=> client[d].pc = "recycle"
    BY DEF HasId
  <2>2. \A d \in Clients : Releasing(d)' <=> Releasing(d) /\ client'[d].pc = client[d].pc
    BY <2>1 DEF Releasing, HasId
  <2>3. \A d \in Clients : client'[d].pc \in {"reserving", "recycle", "onRelease"} =>
                              client'[d].id = client[d].id
    BY DEF HasId
  <2>4. \A i \in active' : rc'[i].released =>
            \E d \in Clients : client'[d].pc = "recycle" /\ client'[d].id = i
    BY <2>1, <2>3 DEF IdInv, ReleaseInv
  <2>5. \A d \in Clients : /\ Releasing(d)' => rc'[client'[d].id].released
                           /\ client'[d].pc \in {"reserving", "onRelease"} => client'[d].id \notin active'
                           /\ client'[d].pc = "reserving" => ~rc'[client'[d].id].released
    BY <2>1, <2>2, <2>3 DEF IdInv, ReleaseInv, Releasing
  <2>6. \A d \in Clients, k \in Killers :
          /\ client'[d].pc = "reserving" /\ Killing(k)' => client'[d].id # kill'[k].id
          /\ Releasing(d)' /\ kill'[k].pc = "onRelease" => client'[d].id # kill'[k].id
    BY <1>1, <2>1, <2>2, <2>3 DEF IdInv, ReleaseInv, Releasing
  <2> QED
    BY <2>4, <2>5, <2>6 DEF ReleaseInv
<1> QED
  BY <1>3, <1>4, <1>5, <1>6 DEF IdInv
\* BorrowReserved hands out an id that nobody has.
LEMMA BorrowIds ==
    ASSUME TypeInv, TypeInv', IdInv, UNCHANGED scenario, NEW c \in Clients, BorrowReserved(c)
    PROVE  IdInv'
<1>1. PICK n \in 0..scenario.reservations :
        NextId = n + 1 /\ \A i \in Ids : Taken(i) <=> i <= n
  BY NextIdNew DEF BorrowReserved, IdInv
<1>2. PICK m \in scenario.conns : rc' = [rc EXCEPT ![NextId].conn = m]
  BY DEF BorrowReserved
<1>3. m # None /\ scenario.reservations \in Nat
  BY <1>2, IdsFinite, ScenarioAssumption DEF TypeInv
<1>4. PICK x \in Ids : x = NextId /\ x = n + 1
  BY <1>1 DEF BorrowReserved
<1>5. Ids' = Ids
  BY DEF Ids
<1>6. /\ ~Taken(x)
      /\ \A i \in Ids : /\ Taken(i)' <=> (Taken(i) \/ i = x)
                        /\ rc'[i].released <=> rc[i].released
  BY <1>1, <1>2, <1>3, <1>4 DEF Taken, TypeInv
<1>7. /\ client'[c].pc = "reserving" /\ client'[c].id = x
      /\ client[c].pc = "admitted"
      /\ \A d \in Clients \ {c} : client'[d] = client[d]
  BY <1>4 DEF BorrowReserved, TypeInv, ClientType
<1>8. UNCHANGED <<active, kill>> /\ \A k : Killing(k)' <=> Killing(k)
  BY DEF BorrowReserved, Killing
<1>9. Numbered'
  <2>1. n + 1 \in 0..scenario.reservations
    BY <1>1, <1>3, <1>4 DEF Ids
  <2>2. \A i \in Ids : Taken(i)' <=> i <= n + 1
    BY <1>1, <1>3, <1>4, <1>6 DEF Ids
  <2> QED
    BY <1>5, <2>1, <2>2 DEF Numbered
<1>10. Distinct'
  <2>1. \A d \in Clients : HasId(d)' => d = c \/ (HasId(d) /\ client'[d].id = client[d].id)
    BY <1>7 DEF HasId
  <2>2. \A d \in Clients : HasId(d) => client[d].id # x
    BY <1>6 DEF IdInv, Distinct
  <2>3. /\ \A d \in Clients : HasId(d)' => client'[d].id \in Ids' /\ Taken(client[d].id)'
        /\ \A i \in active' : Taken(i)'
        /\ \A i \in Ids' : rc'[i].released => Taken(i)'
    <3>1. \A i \in Ids : rc[i].released => Taken(i)
      BY DEF IdInv, Distinct
    <3>2. \A i \in Ids' : rc'[i].released => Taken(i)'
      BY <1>5, <1>6, <3>1
    <3>3. \A i \in active' : Taken(i)'
      BY <1>6, <1>8 DEF IdInv, Distinct, TypeInv
    <3>4. \A d \in Clients : HasId(d)' => client'[d].id \in Ids' /\ Taken(client[d].id)'
      BY <1>4, <1>5, <1>6, <1>7, <2>1 DEF IdInv, Distinct, Taken
    <3> QED
      BY <3>2, <3>3, <3>4
  <2>4. \A d, e \in Clients : HasId(d)' /\ HasId(e)' /\ client'[d].id = client'[e].id => d = e
    BY <1>7, <2>1, <2>2 DEF IdInv, Distinct
  <2> QED
    BY <2>3, <2>4 DEF Distinct, Taken
<1>11. KillInv'
  BY <1>5, <1>6, <1>8 DEF IdInv, KillInv, Taken, Killing
<1>12. ReleaseInv'
  <2>1. \A d \in Clients : /\ Releasing(d)' => Releasing(d) /\ d # c
                           /\ client'[d].pc = "reserving" => client[d].pc = "reserving" \/ d = c
                           /\ HasId(d) => d # c
    BY <1>7 DEF Releasing, HasId
  <2>2. \A d \in Clients : HasId(d) => client[d].id \in Ids
    BY DEF IdInv, Distinct
  <2>3. x \notin active /\ ~rc[x].released /\ \A k \in Killers : Killing(k) => kill[k].id # x
    BY <1>4, <1>6 DEF IdInv, Distinct, KillInv
  <2>4. \A d \in Clients : /\ Releasing(d)' => rc'[client'[d].id].released
                           /\ client'[d].pc \in {"reserving", "onRelease"} => client'[d].id \notin active'
                           /\ client'[d].pc = "reserving" => ~rc'[client'[d].id].released
    <3>1. \A d \in Clients : Releasing(d)' => rc'[client'[d].id].released
      BY <1>6, <1>7, <2>1, <2>2 DEF IdInv, ReleaseInv, Releasing, HasId
    <3>2. \A d \in Clients : client'[d].pc \in {"reserving", "onRelease"} => client'[d].id \notin active'
      BY <1>7, <1>8, <2>1, <2>3 DEF IdInv, ReleaseInv
    <3>3. \A d \in Clients : client'[d].pc = "reserving" => ~rc'[client'[d].id].released
      BY <1>4, <1>6, <1>7, <2>1, <2>2, <2>3, ZenonT(60) DEF IdInv, ReleaseInv, HasId
    <3> QED
      BY <3>1, <3>2, <3>3
  <2>5. \A d \in Clients, k \in Killers :
          /\ client'[d].pc = "reserving" /\ Killing(k)' => client'[d].id # kill'[k].id
          /\ Releasing(d)' /\ kill'[k].pc = "onRelease" => client'[d].id # kill'[k].id
    BY <1>7, <1>8, <2>1, <2>3 DEF IdInv, ReleaseInv
  <2>6. \A i \in active' : rc'[i].released =>
            \E d \in Clients : client'[d].pc = "recycle" /\ client'[d].id = i
    BY <1>6, <1>7, <1>8 DEF IdInv, ReleaseInv, TypeInv
  <2> QED
    BY <2>4, <2>5, <2>6 DEF ReleaseInv
<1> QED
  BY <1>9, <1>10, <1>11, <1>12 DEF IdInv

\* Register enters a reservation that no killer and no release has reached.
LEMMA RegisterIds ==
    ASSUME TypeInv, TypeInv', IdInv, UNCHANGED scenario, NEW c \in Clients, Register(c)
    PROVE  IdInv'
<1> DEFINE x == client[c].id
<1>1. /\ client'[c].pc = "registered" /\ client'[c].id = x
      /\ client[c].pc = "reserving" /\ HasId(c)
      /\ \A d \in Clients \ {c} : client'[d] = client[d]
  BY DEF Register, TypeInv, ClientType, HasId
<1>2. active' = active \/ active' = active \cup {x}
  BY DEF Register
<1>3. /\ UNCHANGED <<rc, kill>> /\ Ids' = Ids
      /\ \A i : Taken(i)' <=> Taken(i)
      /\ \A k : Killing(k)' <=> Killing(k)
  BY DEF Register, Ids, Taken, Killing
<1>4. /\ x \in Ids /\ Taken(x) /\ ~rc[x].released
      /\ \A k \in Killers : Killing(k) => kill[k].id # x
      /\ \A d \in Clients \ {c} : HasId(d) => client[d].id # x
  BY <1>1 DEF IdInv, Distinct, ReleaseInv
<1> HIDE DEF x
<1>5. \A d \in Clients : /\ HasId(d)' <=> HasId(d)
                         /\ client'[d].id = client[d].id
                         /\ d = c \/ client'[d].pc = client[d].pc
  BY <1>1 DEF HasId, x
<1>6. Numbered'
  BY <1>3 DEF IdInv, Numbered
<1>7. Distinct'
  BY <1>2, <1>3, <1>4, <1>5 DEF IdInv, Distinct
<1>8. KillInv'
  BY <1>2, <1>3, <1>4 DEF IdInv, KillInv
<1>9. ReleaseInv'
  <2>1. \A d \in Clients : /\ Releasing(d)' => Releasing(d) /\ d # c /\ HasId(d)
                           /\ client'[d].pc = "reserving" => client[d].pc = "reserving" /\ d # c /\ HasId(d)
    BY <1>1 DEF Releasing, HasId
  <2>2. \A d \in Clients : /\ Releasing(d)' => rc'[client'[d].id].released
                           /\ client'[d].pc \in {"reserving", "onRelease"} => client'[d].id \notin active'
                           /\ client'[d].pc = "reserving" => ~rc'[client'[d].id].released
    BY <1>2, <1>3, <1>4, <1>5, <2>1 DEF IdInv, ReleaseInv, Releasing
  <2>3. \A d \in Clients, k \in Killers :
          /\ client'[d].pc = "reserving" /\ Killing(k)' => client'[d].id # kill'[k].id
          /\ Releasing(d)' /\ kill'[k].pc = "onRelease" => client'[d].id # kill'[k].id
    BY <1>3, <1>5, <2>1 DEF IdInv, ReleaseInv
  <2>4. \A i \in active' : rc'[i].released =>
            \E d \in Clients : client'[d].pc = "recycle" /\ client'[d].id = i
    BY <1>1, <1>2, <1>3, <1>4, <1>5 DEF IdInv, ReleaseInv
  <2> QED
    BY <2>2, <2>3, <2>4 DEF ReleaseInv
<1> QED
  BY <1>6, <1>7, <1>8, <1>9 DEF IdInv
\* Release: the first to come marks the reservation, the others leave it alone.
LEMMA ReleaseIds ==
    ASSUME TypeInv, TypeInv', IdInv, UNCHANGED scenario, NEW c \in Clients, Release(c)
    PROVE  IdInv'
<1>1. PICK x \in Ids : x = client[c].id /\ Taken(x)
  BY DEF Release, IdInv, Distinct, HasId
<1>2. /\ client[c].pc = "using" /\ HasId(c)
      /\ \A d \in Clients \ {c} : client'[d] = client[d]
      /\ rc[x].released => client'[c].pc = "idle"
      /\ ~rc[x].released => client'[c].pc = "recycle" /\ client'[c].id = x
  BY <1>1 DEF Release, TypeInv, ClientType, HasId, Resting
<1>3. /\ UNCHANGED <<active, kill>> /\ Ids' = Ids
      /\ \A k : Killing(k)' <=> Killing(k)
  BY DEF Release, Ids, Killing
<1>4. \A i \in Ids : /\ Taken(i)' <=> Taken(i)
                     /\ rc'[i].released <=> (rc[i].released \/ i = x)
  BY <1>1 DEF Release, TypeInv, Taken
<1>5. \A d \in Clients : /\ HasId(d)' => HasId(d) /\ client'[d].id = client[d].id
                         /\ HasId(d) => client[d].id \in Ids
                         /\ HasId(d) /\ d # c => client[d].id # x
  <2>1. \A d \in Clients : HasId(d)' => HasId(d) /\ client'[d].id = client[d].id
    BY <1>1, <1>2 DEF HasId
  <2> QED
    BY <1>1, <1>2, <2>1 DEF IdInv, Distinct
<1>6. Numbered'
  BY <1>3, <1>4 DEF IdInv, Numbered
<1>7. Distinct'
  <2>1. \A d \in Clients : HasId(d)' => client'[d].id \in Ids' /\ Taken(client[d].id)'
    BY <1>3, <1>4, <1>5 DEF IdInv, Distinct, Taken
  <2>2. \A d, e \in Clients : HasId(d)' /\ HasId(e)' /\ client'[d].id = client'[e].id => d = e
    BY <1>5 DEF IdInv, Distinct
  <2>3. \A i \in active' : Taken(i)'
    BY <1>3, <1>4 DEF IdInv, Distinct, TypeInv
  <2>4. \A i \in Ids' : rc'[i].released => Taken(i)'
    BY <1>1, <1>3, <1>4 DEF IdInv, Distinct
  <2> QED
    BY <2>1, <2>2, <2>3, <2>4 DEF Distinct
<1>8. KillInv'
  BY <1>3, <1>4 DEF IdInv, KillInv, Killing, Taken
<1>9. ReleaseInv'
  <2>1. \A d \in Clients : /\ Releasing(d)' => HasId(d) /\ \/ d = c /\ ~rc[x].released
                                                           \/ d # c /\ Releasing(d)
                           /\ client'[d].pc = "reserving" => client[d].pc = "reserving" /\ HasId(d) /\ d # c
                           /\ client'[d].pc = "onRelease" => client[d].pc = "onRelease" /\ HasId(d) /\ d # c
                           /\ client[d].pc = "recycle" => d # c /\ client'[d] = client[d]
    BY <1>2 DEF Releasing, HasId
  <2>2. \A d \in Clients : Releasing(d)' => rc'[client'[d].id].released
    <3> SUFFICES ASSUME NEW d \in Clients, Releasing(d)' PROVE rc'[client'[d].id].released
      OBVIOUS
    <3>1. HasId(d)' /\ HasId(d)
      BY <2>1 DEF Releasing, HasId
    <3>2. client'[d].id = client[d].id /\ client[d].id \in Ids
      BY <1>5, <3>1
    <3>3. client[d].id = x \/ rc[client[d].id].released
      BY <1>1, <2>1 DEF IdInv, ReleaseInv
    <3> QED
      BY <1>4, <3>2, <3>3
  <2>3. \A d \in Clients : client'[d].pc \in {"reserving", "onRelease"} => client'[d].id \notin active'
    BY <1>2, <1>3, <2>1 DEF IdInv, ReleaseInv
  <2>4. \A d \in Clients : client'[d].pc = "reserving" => ~rc'[client'[d].id].released
    BY <1>2, <1>4, <1>5, <2>1 DEF IdInv, ReleaseInv
  <2>5. \A d \in Clients, k \in Killers :
          client'[d].pc = "reserving" /\ Killing(k)' => client'[d].id # kill'[k].id
    BY <1>2, <1>3, <2>1 DEF IdInv, ReleaseInv
  <2>6. \A d \in Clients, k \in Killers :
          Releasing(d)' /\ kill'[k].pc = "onRelease" => client'[d].id # kill'[k].id
    BY <1>1, <1>2, <1>3, <2>1 DEF IdInv, ReleaseInv, KillInv
  <2>7. \A i \in active' : rc'[i].released =>
            \E d \in Clients : client'[d].pc = "recycle" /\ client'[d].id = i
    <3> SUFFICES ASSUME NEW i \in active, rc'[i].released
                 PROVE  \E d \in Clients : client'[d].pc = "recycle" /\ client'[d].id = i
      BY <1>3
    <3>1. i \in Ids
      BY DEF TypeInv
    <3>2. CASE rc[i].released
      BY <2>1, <3>2 DEF IdInv, ReleaseInv
    <3>3. CASE ~rc[i].released
      BY <1>2, <1>4, <3>1, <3>3
    <3> QED
      BY <3>2, <3>3
  <2> QED
    BY <2>2, <2>3, <2>4, <2>5, <2>6, <2>7 DEF ReleaseInv
<1> QED
  BY <1>6, <1>7, <1>8, <1>9 DEF IdInv

\* Pool.release takes the reservation out of the pool.
LEMMA RecycleIds ==
    ASSUME TypeInv, TypeInv', IdInv, UNCHANGED scenario, NEW c \in Clients, RecycleReserved(c)
    PROVE  IdInv'
<1>1. PICK x \in Ids : x = client[c].id
  BY DEF RecycleReserved, IdInv, Distinct, HasId
<1>2. /\ client[c].pc = "recycle" /\ client'[c].pc = "onRelease" /\ client'[c].id = x
      /\ \A d \in Clients \ {c} : client'[d] = client[d]
  BY <1>1 DEF RecycleReserved, TypeInv, ClientType
<1>3. /\ active' = active \ {x} /\ UNCHANGED <<rc, kill>> /\ Ids' = Ids
      /\ \A i : Taken(i)' <=> Taken(i)
      /\ \A k : Killing(k)' <=> Killing(k)
  BY <1>1 DEF RecycleReserved, FreeConn, Ids, Taken, Killing
<1>4. \A d \in Clients : /\ HasId(d)' <=> HasId(d)
                         /\ Releasing(d)' <=> Releasing(d)
                         /\ HasId(d) => client'[d].id = client[d].id
                         /\ client'[d].pc = "reserving" => client[d].pc = "reserving" /\ HasId(d)
                         /\ Releasing(d) => HasId(d)
  BY <1>1, <1>2 DEF HasId, Releasing
<1>5. Numbered'
  BY <1>3 DEF IdInv, Numbered
<1>6. Distinct'
  BY <1>3, <1>4 DEF IdInv, Distinct
<1>7. KillInv'
  BY <1>3 DEF IdInv, KillInv
<1>8. ReleaseInv'
  <2>1. \A d \in Clients : client'[d].pc \in {"reserving", "onRelease"} => client'[d].id \notin active'
    BY <1>2, <1>3 DEF IdInv, ReleaseInv
  <2>2. \A i \in active' : rc'[i].released =>
            \E d \in Clients : client'[d].pc = "recycle" /\ client'[d].id = i
    BY <1>1, <1>2, <1>3 DEF IdInv, ReleaseInv
  <2>3. \A d \in Clients : /\ Releasing(d)' => rc'[client'[d].id].released
                           /\ client'[d].pc = "reserving" => ~rc'[client'[d].id].released
    BY <1>3, <1>4 DEF IdInv, ReleaseInv
  <2>4. \A d \in Clients, k \in Killers :
          /\ client'[d].pc = "reserving" /\ Killing(k)' => client'[d].id # kill'[k].id
          /\ Releasing(d)' /\ kill'[k].pc = "onRelease" => client'[d].id # kill'[k].id
    BY <1>3, <1>4 DEF IdInv, ReleaseInv
  <2> QED
    BY <2>1, <2>2, <2>3, <2>4 DEF ReleaseInv
<1> QED
  BY <1>5, <1>6, <1>7, <1>8 DEF IdInv

\* Steps that leave the sessions and the marks alone and after which no killer
\* is busy with more than before.
LEMMA KillersRest ==
    ASSUME TypeInv, TypeInv', IdInv, UNCHANGED <<scenario, client, rc>>,
           active' \subseteq active,
           \A k \in Killers : Killing(k)' => Killing(k) /\ kill'[k].id = kill[k].id,
           \A k \in Killers : kill'[k].pc = "onRelease" => kill[k].pc = "onRelease"
    PROVE  IdInv'
<1>1. /\ Ids' = Ids
      /\ \A i : Taken(i)' <=> Taken(i)
      /\ \A d : (HasId(d)' <=> HasId(d)) /\ (Releasing(d)' <=> Releasing(d))
  BY DEF Ids, Taken, HasId, Releasing
<1>2. Numbered'
  BY <1>1 DEF IdInv, Numbered
<1>3. Distinct'
  BY <1>1 DEF IdInv, Distinct
<1>4. KillInv'
  BY <1>1 DEF IdInv, KillInv, Killing
<1>5. ReleaseInv'
  BY <1>1 DEF IdInv, ReleaseInv, Killing
<1> QED
  BY <1>2, <1>3, <1>4, <1>5 DEF IdInv
\* KillConnection takes the reservation it goes for out of the pool first.
LEMMA KillIds ==
    ASSUME TypeInv, TypeInv', IdInv, UNCHANGED scenario, NEW k \in Killers, KillConnection(k)
    PROVE  IdInv'
<1>1. PICK i \in kill[k].ids :
        /\ kill' = [kill EXCEPT ![k] =
             [ids |-> @.ids \ {i}, id |-> IF i \in active THEN i ELSE None,
              pc |-> IF i \in active THEN "terminate" ELSE "none"]]
        /\ active' = active \ {i}
  BY DEF KillConnection
<1>2. UNCHANGED <<client, rc>> /\ kill[k].pc = "none" /\ ~Killing(k)
  BY DEF KillConnection, Killing
<1>3. CASE i \notin active
  <2>1. kill'[k].pc = "none" /\ \A l \in Killers \ {k} : kill'[l] = kill[l]
    BY <1>1, <1>3 DEF TypeInv
  <2> QED
    BY <1>1, <1>2, <2>1, KillersRest DEF Killing
<1>4. CASE i \in active
  <2>1. /\ kill'[k].pc = "terminate" /\ kill'[k].id = i
        /\ \A l \in Killers \ {k} : kill'[l] = kill[l]
    BY <1>1, <1>4 DEF TypeInv
  <2>2. /\ Ids' = Ids
        /\ \A j : Taken(j)' <=> Taken(j)
        /\ \A d : (HasId(d)' <=> HasId(d)) /\ (Releasing(d)' <=> Releasing(d))
    BY <1>2 DEF Ids, Taken, HasId, Releasing
  <2>3. /\ i \in Ids /\ Taken(i)
        /\ \A l \in Killers : Killing(l) => kill[l].id # i
    BY <1>4 DEF IdInv, Distinct, KillInv, TypeInv
  <2>4. \A l \in Killers : /\ Killing(l)' <=> (l = k \/ Killing(l))
                           /\ l # k => kill'[l] = kill[l]
    BY <2>1 DEF Killing
  <2>5. Numbered'
    BY <2>2 DEF IdInv, Numbered
  <2>6. Distinct'
    BY <1>1, <1>2, <2>2 DEF IdInv, Distinct
  <2>7. KillInv'
    <3>1. \A l \in Killers : Killing(l)' => kill'[l].id \in Ids' \ active' /\ Taken(kill[l].id)'
      BY <1>1, <2>1, <2>2, <2>3, <2>4 DEF IdInv, KillInv, Taken
    <3>2. \A l, m \in Killers : Killing(l)' /\ Killing(m)' /\ kill'[l].id = kill'[m].id => l = m
      BY <2>1, <2>3, <2>4 DEF IdInv, KillInv
    <3>3. \A l \in Killers : kill'[l].pc = "onRelease" => rc'[kill'[l].id].released
      BY <1>2, <2>1 DEF IdInv, KillInv
    <3> QED
      BY <3>1, <3>2, <3>3 DEF KillInv
  <2>8. ReleaseInv'
    <3>1. \A d \in Clients, l \in Killers :
            /\ client'[d].pc = "reserving" /\ Killing(l)' => client'[d].id # kill'[l].id
            /\ Releasing(d)' /\ kill'[l].pc = "onRelease" => client'[d].id # kill'[l].id
      BY <1>2, <1>4, <2>1, <2>2, <2>4 DEF IdInv, ReleaseInv
    <3> QED
      BY <1>1, <1>2, <2>2, <3>1 DEF IdInv, ReleaseInv
  <2> QED
    BY <2>5, <2>6, <2>7, <2>8 DEF IdInv
<1> QED
  BY <1>3, <1>4

\* The release of a kill: the first to come marks the reservation.
LEMMA KillReleaseIds ==
    ASSUME TypeInv, TypeInv', IdInv, UNCHANGED scenario, NEW k \in Killers, KillRelease(k)
    PROVE  IdInv'
<1>1. PICK x \in Ids : x = kill[k].id /\ Taken(x) /\ x \notin active
  BY DEF KillRelease, IdInv, KillInv, Killing
<1>2. /\ \A l \in Killers \ {k} : kill'[l] = kill[l]
      /\ rc[x].released => kill'[k].pc = "none"
      /\ ~rc[x].released => kill'[k].pc = "onRelease" /\ kill'[k].id = x
      /\ kill[k].pc = "release" /\ Killing(k)
  BY <1>1 DEF KillRelease, TypeInv, KillType, Killing
<1>3. /\ UNCHANGED <<client, active>> /\ Ids' = Ids
      /\ \A d : (HasId(d)' <=> HasId(d)) /\ (Releasing(d)' <=> Releasing(d))
  BY DEF KillRelease, Ids, HasId, Releasing
<1>4. \A i \in Ids : /\ Taken(i)' <=> Taken(i)
                     /\ rc'[i].released <=> (rc[i].released \/ i = x)
  BY <1>1 DEF KillRelease, TypeInv, Taken
<1>5. \A l \in Killers : /\ Killing(l)' => Killing(l) /\ kill'[l].id = kill[l].id
                         /\ Killing(l) => kill[l].id \in Ids
                         /\ Killing(l) /\ l # k => kill[l].id # x
  <2>1. \A l \in Killers : Killing(l)' => Killing(l) /\ kill'[l].id = kill[l].id
    BY <1>1, <1>2 DEF Killing
  <2> QED
    BY <1>1, <1>2, <2>1 DEF IdInv, KillInv
<1>6. Numbered'
  BY <1>3, <1>4 DEF IdInv, Numbered
<1>7. Distinct'
  <2>1. \A d \in Clients : HasId(d)' => client'[d].id \in Ids' /\ Taken(client[d].id)'
    BY <1>3, <1>4 DEF IdInv, Distinct, Taken
  <2>2. \A d, e \in Clients : HasId(d)' /\ HasId(e)' /\ client'[d].id = client'[e].id => d = e
    BY <1>3 DEF IdInv, Distinct
  <2>3. \A i \in active' : Taken(i)'
    BY <1>3, <1>4 DEF IdInv, Distinct, TypeInv
  <2>4. \A i \in Ids' : rc'[i].released => Taken(i)'
    BY <1>1, <1>3, <1>4 DEF IdInv, Distinct
  <2> QED
    BY <2>1, <2>2, <2>3, <2>4 DEF Distinct
<1>8. KillInv'
  <2>1. \A l \in Killers : Killing(l)' => kill'[l].id \in Ids' \ active' /\ Taken(kill[l].id)'
    BY <1>3, <1>4, <1>5 DEF IdInv, KillInv, Taken
  <2>2. \A l, m \in Killers : Killing(l)' /\ Killing(m)' /\ kill'[l].id = kill'[m].id => l = m
    BY <1>5 DEF IdInv, KillInv
  <2>3. \A l \in Killers : kill'[l].pc = "onRelease" => rc'[kill'[l].id].released
    BY <1>1, <1>2, <1>4, <1>5 DEF IdInv, KillInv, Killing
  <2> QED
    BY <2>1, <2>2, <2>3 DEF KillInv
<1>9. ReleaseInv'
  <2>1. \A d \in Clients : /\ HasId(d) => client[d].id \in Ids
                           /\ Releasing(d) => HasId(d)
                           /\ client[d].pc = "reserving" => HasId(d) /\ client[d].id # x
    BY <1>1, <1>2 DEF IdInv, Distinct, ReleaseInv, Releasing, HasId
  <2>2. \A d \in Clients : /\ Releasing(d)' => rc'[client'[d].id].released
                           /\ client'[d].pc \in {"reserving", "onRelease"} => client'[d].id \notin active'
                           /\ client'[d].pc = "reserving" => ~rc'[client'[d].id].released
    BY <1>3, <1>4, <2>1 DEF IdInv, ReleaseInv
  <2>3. \A d \in Clients, l \in Killers :
          /\ client'[d].pc = "reserving" /\ Killing(l)' => client'[d].id # kill'[l].id
          /\ Releasing(d)' /\ kill'[l].pc = "onRelease" => client'[d].id # kill'[l].id
    BY <1>2, <1>3, <1>5, <2>1 DEF IdInv, ReleaseInv, Killing
  <2>4. \A i \in active' : rc'[i].released =>
            \E d \in Clients : client'[d].pc = "recycle" /\ client'[d].id = i
    BY <1>1, <1>3, <1>4 DEF IdInv, ReleaseInv, TypeInv
  <2> QED
    BY <2>2, <2>3, <2>4 DEF ReleaseInv
<1> QED
  BY <1>6, <1>7, <1>8, <1>9 DEF IdInv

\* Every step keeps the types and the ids.
LEMMA NextIds ==
    ASSUME TypeInv, IdInv, Next, UNCHANGED scenario
    PROVE  TypeInv' /\ IdInv'
<1>1. TypeInv'
  <2>1. IdsHeld
    BY DEF IdInv, Distinct, IdsHeld
  <2> QED
    BY <2>1, RequestTypes, KillTypes, ChangeTypes DEF Next
<1>2. IdInv'
  <2>1. ASSUME NEW c \in Clients, NEW kind \in {"single", "reserve"}, NEW leaderBound \in BOOLEAN,
               StartRequest(c, kind, leaderBound)
        PROVE  IdInv'
    <3>1. /\ client[c].pc # "recycle" /\ ~HasId(c)'
          /\ \A d \in Clients \ {c} : client'[d] = client[d]
      BY <2>1 DEF StartRequest, HasId, TypeInv, ClientType
    <3> QED
      BY <1>1, <2>1, <3>1, SessionMoves DEF StartRequest
  <2>2. ASSUME NEW c \in Clients,
               \/ BorrowRegular(c) \/ RecycleRegular(c) \/ OnReserve(c) \/ ReservationGone(c)
               \/ OnRelease(c) \/ GetReserved(c) \/ StatementDone(c)
        PROVE  IdInv'
    <3>1. UNCHANGED <<rc, active, kill>>
      BY <2>2 DEF BorrowRegular, RecycleRegular, OnReserve, ReservationGone, OnRelease,
                  GetReserved, StatementDone
    <3>2. /\ client[c].pc # "recycle"
          /\ \A d \in Clients \ {c} : client'[d] = client[d]
      BY <2>2 DEF BorrowRegular, RecycleRegular, OnReserve, ReservationGone, OnRelease,
                  GetReserved, StatementDone, TypeInv
    <3>3. \/ client'[c].pc \in {"idle", "running"}
          \/ /\ client[c].pc \in {"registered", "held", "using"} /\ client'[c].id = client[c].id
             /\ client'[c].pc \in {"held", "using"}
      BY <2>2 DEF BorrowRegular, RecycleRegular, OnReserve, ReservationGone, OnRelease,
                  GetReserved, StatementDone, TypeInv, ClientType, Resting
    <3>4. client'[c].pc \in {"idle", "running"} => ~HasId(c)'
      BY DEF HasId
    <3> QED
      BY <1>1, <3>1, <3>2, <3>3, <3>4, SessionMoves
  <2>3. ASSUME ExpiryStep \/ CollectTimedOut \/ GraceExpires PROVE IdInv'
    <3>1. \A k \in Killers : kill'[k].pc = kill[k].pc /\ kill'[k].id = kill[k].id
      BY <2>3 DEF ExpiryStep, GoesQuiet, ExpiryPasses, CollectTimedOut, GraceExpires, TypeInv, KillType
    <3>2. UNCHANGED <<client, rc, active>>
      BY <2>3 DEF ExpiryStep, GoesQuiet, ExpiryPasses, CollectTimedOut, GraceExpires
    <3> QED
      BY <1>1, <3>1, <3>2, KillersRest DEF Killing
  <2>4. ASSUME NEW k \in Killers, TerminateBackend(k) \/ KillOnRelease(k) PROVE IdInv'
    <3>1. \A l \in Killers \ {k} : kill'[l] = kill[l]
      BY <2>4 DEF TerminateBackend, KillOnRelease, TypeInv
    <3>2. kill'[k].pc = "none" \/ (kill'[k].pc = "release" /\ kill'[k].id = kill[k].id /\ kill[k].pc # "none")
      BY <2>4 DEF TerminateBackend, KillOnRelease, TypeInv, KillType
    <3>3. UNCHANGED <<client, rc, active>>
      BY <2>4 DEF TerminateBackend, KillOnRelease
    <3> QED
      BY <1>1, <3>1, <3>2, <3>3, KillersRest DEF Killing
  <2>5. ASSUME \/ \E target \in [serving : BOOLEAN, primary : BOOLEAN] : OnStateChange(target)
               \/ EnterReservedDrain \/ ReservedDrained \/ EnterDrain \/ Drained
               \/ KilledAll \/ FinishChange \/ CloseForReopen \/ Open
        PROVE  IdInv'
    <3>1. UNCHANGED <<client, rc, kill>> /\ active' \subseteq active
      BY <2>5 DEF OnStateChange, EnterReservedDrain, ReservedDrained, EnterDrain, Drained,
                  KilledAll, FinishChange, CloseForReopen, Open
    <3> QED
      BY <1>1, <3>1, KillersRest DEF Killing
  <2> QED
    BY <1>1, <2>1, <2>2, <2>3, <2>4, <2>5, BorrowIds, RegisterIds, ReleaseIds, RecycleIds,
       KillIds, KillReleaseIds DEF Next, RequestStep, KillStep, DrainStep
<1> QED
  BY <1>1, <1>2
-----------------------------------------------------------------------------
(* A forced drain.                                                         *)

\* A session whose statement, or whose reservation that the pool still knows,
\* is older than the state change in progress.
OldRun(c) == client[c].pc = "running" /\ client[c].since # srv.changes
OldHold(c) == /\ client[c].pc \in {"held", "using"} /\ client[c].id \in active
              /\ client[c].since # srv.changes

\* What changes hands during a change of state is as young as the change.
NothingAges ==
    \A c \in Clients : /\ OldRun(c)' => OldRun(c)
                       /\ OldHold(c)' => OldHold(c) /\ client'[c].id = client[c].id

\* Requests.
LEMMA RequestsStayYoung ==
    ASSUME TypeInv, TypeInv', IdInv, UNCHANGED scenario, NEW c \in Clients,
           \/ \E kind \in {"single", "reserve"}, leaderBound \in BOOLEAN : StartRequest(c, kind, leaderBound)
           \/ RequestStep(c) \/ GetReserved(c) \/ StatementDone(c)
    PROVE  /\ NothingAges
           /\ srv'.pc = srv.pc /\ srv'.outcome = srv.outcome /\ srv'.changes = srv.changes
           /\ UNCHANGED kill
<1>1. ASSUME NEW kind \in {"single", "reserve"}, NEW leaderBound \in BOOLEAN, StartRequest(c, kind, leaderBound)
      PROVE  /\ NothingAges
             /\ srv' = srv /\ UNCHANGED kill
  BY <1>1 DEF StartRequest, TypeInv, ClientType, NothingAges, OldRun, OldHold
<1>2. ASSUME \/ BorrowReserved(c) \/ GetReserved(c) \/ ReservationGone(c)
             \/ StatementDone(c) \/ Release(c) \/ RecycleReserved(c)
      PROVE  /\ NothingAges
             /\ srv' = srv /\ UNCHANGED kill
  <2>1. UNCHANGED <<srv, kill>> /\ active' \subseteq active
    BY <1>2 DEF BorrowReserved, GetReserved, ReservationGone, StatementDone, Release,
                RecycleReserved, FreeConn
  <2>2. \A d \in Clients \ {c} : client'[d] = client[d]
    BY <1>2 DEF BorrowReserved, GetReserved, ReservationGone, StatementDone, Release,
                RecycleReserved, FreeConn, TypeInv
  <2>3. \/ client'[c].pc \in {"idle", "reserving", "recycle", "onRelease"}
        \/ /\ client[c].pc \in {"held", "using"} /\ client'[c].pc \in {"held", "using"}
           /\ client'[c].id = client[c].id /\ client'[c].since = client[c].since
    BY <1>2 DEF BorrowReserved, GetReserved, ReservationGone, StatementDone, Release,
                RecycleReserved, FreeConn, TypeInv, ClientType, Resting
  <2> QED
    BY <2>1, <2>2, <2>3 DEF NothingAges, OldRun, OldHold
<1>3. ASSUME Register(c)
      PROVE  /\ NothingAges
             /\ srv' = srv /\ UNCHANGED kill
  <2>1. /\ UNCHANGED <<srv, kill>> /\ client[c].pc = "reserving" /\ HasId(c)
        /\ active' \subseteq active \cup {client[c].id}
    BY <1>3 DEF Register, HasId
  <2>2. client'[c].pc = "registered" /\ \A d \in Clients \ {c} : client'[d] = client[d]
    BY <1>3 DEF Register, TypeInv, ClientType
  <2>3. \A d \in Clients \ {c} : HasId(d) => client[d].id # client[c].id
    BY <2>1 DEF IdInv, Distinct
  <2> QED
    BY <2>1, <2>2, <2>3 DEF NothingAges, OldRun, OldHold, HasId
<1>4. ASSUME BorrowRegular(c) \/ RecycleRegular(c) \/ OnReserve(c) \/ OnRelease(c)
      PROVE  /\ NothingAges
             /\ srv'.pc = srv.pc /\ srv'.outcome = srv.outcome /\ srv'.changes = srv.changes
             /\ UNCHANGED kill
  <2>1. \/ Adds(1, 0) \/ Adds(-1, 0) \/ Adds(0, 1) \/ Adds(0, -1)
    BY <1>4 DEF BorrowRegular, RecycleRegular, OnReserve, OnRelease
  <2>2. -1 \in Int /\ 0 \in Int /\ 1 \in Int
    OBVIOUS
  <2>3. srv'.pc = srv.pc /\ srv'.outcome = srv.outcome /\ srv'.changes = srv.changes
    BY <2>1, <2>2, AddsTypes
  <2>4. UNCHANGED <<kill, active>> /\ \A d \in Clients \ {c} : client'[d] = client[d]
    BY <1>4 DEF BorrowRegular, RecycleRegular, OnReserve, OnRelease, TypeInv
  <2>5. client'[c].pc = "idle" \/ client'[c].since = srv.changes
    BY <1>4 DEF BorrowRegular, RecycleRegular, OnReserve, OnRelease, TypeInv, ClientType, Resting
  <2> QED
    BY <2>3, <2>4, <2>5 DEF NothingAges, OldRun, OldHold
<1> QED
  BY <1>1, <1>2, <1>3, <1>4 DEF RequestStep

\* The killers and a reopen.
LEMMA KillsStayYoung ==
    ASSUME TypeInv, TypeInv', UNCHANGED scenario,
           ExpiryStep \/ CollectTimedOut \/ (\E k \in Killers : KillStep(k)) \/ CloseForReopen \/ Open
    PROVE  /\ NothingAges
           /\ srv'.pc = srv.pc /\ srv'.outcome = srv.outcome /\ srv'.changes = srv.changes
           /\ UNCHANGED client /\ active' \subseteq active
           /\ \A i \in kill["drain"].ids : i \in kill'["drain"].ids \/ i \notin active'
<1>1. UNCHANGED client /\ active' \subseteq active
  BY ZenonT(60) DEF ExpiryStep, GoesQuiet, ExpiryPasses, CollectTimedOut, KillStep, KillConnection,
                    TerminateBackend, KillRelease,
         KillOnRelease, CloseForReopen, Open
<1>2. srv'.pc = srv.pc /\ srv'.outcome = srv.outcome /\ srv'.changes = srv.changes
  <2>1. ASSUME NEW k \in Killers, KillOnRelease(k)
        PROVE  srv'.pc = srv.pc /\ srv'.outcome = srv.outcome /\ srv'.changes = srv.changes
    <3>1. Adds(0, -1) /\ -1 \in Int /\ 0 \in Int
      BY <2>1 DEF KillOnRelease
    <3> QED
      BY <3>1, AddsTypes
  <2> QED
    BY <2>1 DEF ExpiryStep, GoesQuiet, ExpiryPasses, CollectTimedOut, KillStep, KillConnection,
                TerminateBackend, KillRelease,
                CloseForReopen, Open
<1>3. \A i \in kill["drain"].ids : i \in kill'["drain"].ids \/ i \notin active'
  <2>1. ASSUME NEW k \in Killers, KillConnection(k)
        PROVE  \A i \in kill["drain"].ids : i \in kill'["drain"].ids \/ i \notin active'
    <3>1. PICK j \in kill[k].ids :
            /\ kill' = [kill EXCEPT ![k] =
                 [ids |-> @.ids \ {j}, id |-> IF j \in active THEN j ELSE None,
                  pc |-> IF j \in active THEN "terminate" ELSE "none"]]
            /\ active' = active \ {j}
      BY <2>1 DEF KillConnection
    <3>2. kill'["drain"].ids = kill["drain"].ids \/ kill'["drain"].ids = kill["drain"].ids \ {j}
      BY <3>1 DEF TypeInv, Killers
    <3> QED
      BY <3>1, <3>2
  <2>2. ASSUME ExpiryStep \/ CollectTimedOut PROVE kill'["drain"].ids = kill["drain"].ids
    BY <2>2 DEF ExpiryStep, GoesQuiet, ExpiryPasses, CollectTimedOut, TypeInv, Killers
  <2>3. ASSUME NEW k \in Killers, TerminateBackend(k) \/ KillRelease(k) \/ KillOnRelease(k)
        PROVE  kill'["drain"].ids = kill["drain"].ids
    <3>1. PICK v \in KillType : v.ids = kill[k].ids /\ kill' = [kill EXCEPT ![k] = v]
      BY <2>3, KillerMoves
    <3> QED
      BY <3>1 DEF TypeInv, Killers
  <2> QED
    BY <2>1, <2>2, <2>3 DEF KillStep, CloseForReopen, Open
<1> QED
  BY <1>1, <1>2, <1>3, SMTT(30) DEF NothingAges, OldRun, OldHold

\* The steps of a drain.
LEMMA DrainSteps ==
    ASSUME TypeInv, DrainStep
    PROVE  /\ NothingAges /\ srv'.changes = srv.changes /\ UNCHANGED <<client, active, lent, mgr>>
           /\ \/ srv'.pc \in {"reservedDrain", "enterDrain", "idle"}
              \/ /\ srv.pc = "enterDrain" /\ srv'.pc = "drain"
                 /\ lent.regular + lent.reserved # 0 /\ (srv'.woken <=> ~lent.zeroOpen)
              \/ /\ srv'.pc = "finish" /\ srv'.outcome = "graceful"
                 /\ \/ srv.pc = "enterDrain" /\ lent.regular + lent.reserved = 0
                    \/ srv.pc = "drain" /\ srv.woken
              \/ srv'.pc = "killAll" /\ kill'["drain"].ids = active /\ srv'.outcome = "forceClose"
              \/ srv.pc = "killAll" /\ srv'.pc = "finish" /\ kill["drain"].ids = {} /\ srv'.outcome = srv.outcome
           /\ srv'.pc # "idle" => srv.pc # "idle"
<1>1. UNCHANGED <<client, active, lent, mgr>>
  BY DEF DrainStep, EnterReservedDrain, ReservedDrained, EnterDrain, Drained, GraceExpires,
         KilledAll, FinishChange
<1> DEFINE Fate ==
      /\ srv'.changes = srv.changes
      /\ \/ srv'.pc \in {"reservedDrain", "enterDrain", "idle"}
         \/ /\ srv.pc = "enterDrain" /\ srv'.pc = "drain"
            /\ lent.regular + lent.reserved # 0 /\ (srv'.woken <=> ~lent.zeroOpen)
         \/ /\ srv'.pc = "finish" /\ srv'.outcome = "graceful"
            /\ \/ srv.pc = "enterDrain" /\ lent.regular + lent.reserved = 0
               \/ srv.pc = "drain" /\ srv.woken
         \/ srv'.pc = "killAll" /\ kill'["drain"].ids = active /\ srv'.outcome = "forceClose"
         \/ srv.pc = "killAll" /\ srv'.pc = "finish" /\ kill["drain"].ids = {} /\ srv'.outcome = srv.outcome
      /\ srv'.pc # "idle" => srv.pc # "idle"
<1>2. /\ Stage2.pc = "enterDrain" /\ Stage2.changes = srv.changes
      /\ Graceful.pc = "finish" /\ Graceful.outcome = "graceful" /\ Graceful.changes = srv.changes
  BY DEF Stage2, Graceful, TypeInv, SrvType
<1>3. ASSUME EnterReservedDrain PROVE Fate
  <2>1. PICK w \in BOOLEAN :
          srv' = Stage2 \/ srv' = [srv EXCEPT !.pc = "reservedDrain", !.woken = w]
    BY <1>3, Zenon DEF EnterReservedDrain
  <2>2. srv.pc = "enterReserved"
    BY <1>3 DEF EnterReservedDrain
  <2> QED
    BY <1>2, <2>1, <2>2 DEF TypeInv, SrvType
<1>4. ASSUME EnterDrain PROVE Fate
  <2>1. PICK w \in BOOLEAN :
          /\ w <=> ~lent.zeroOpen
          /\ \/ lent.regular + lent.reserved = 0 /\ srv' = Graceful
             \/ lent.regular + lent.reserved # 0 /\ srv' = [srv EXCEPT !.pc = "drain", !.woken = w]
    BY <1>4, Zenon DEF EnterDrain
  <2>2. srv.pc = "enterDrain"
    BY <1>4 DEF EnterDrain
  <2>3. CASE srv' = Graceful /\ lent.regular + lent.reserved = 0
    BY <1>2, <2>2, <2>3
  <2>4. CASE srv' = [srv EXCEPT !.pc = "drain", !.woken = w] /\ lent.regular + lent.reserved # 0
    <3>1. srv'.pc = "drain" /\ srv'.woken = w /\ srv'.changes = srv.changes
      BY <2>4 DEF TypeInv, SrvType
    <3>2. srv'.woken <=> ~lent.zeroOpen
      BY <2>1, <3>1
    <3> QED
      BY <2>2, <2>4, <3>1, <3>2
  <2> QED
    BY <2>1, <2>3, <2>4
<1>5. ASSUME ReservedDrained \/ Drained PROVE Fate
  BY <1>2, <1>5 DEF ReservedDrained, Drained
<1>6. ASSUME GraceExpires PROVE Fate
  <2>1. /\ srv'.pc = "killAll" /\ srv'.outcome = "forceClose" /\ srv'.changes = srv.changes
        /\ srv.pc # "idle"
    BY <1>6 DEF GraceExpires, TypeInv, SrvType
  <2>2. kill'["drain"].ids = active
    BY <1>6 DEF GraceExpires, TypeInv, KillType, Killers
  <2> QED
    BY <2>1, <2>2
<1>7. ASSUME KilledAll PROVE Fate
  BY <1>7 DEF KilledAll, TypeInv, SrvType
<1>8. ASSUME FinishChange PROVE Fate
  BY <1>8 DEF FinishChange, TypeInv, SrvType
<1>9. Fate
  BY <1>3, <1>4, <1>5, <1>6, <1>7, <1>8 DEF DrainStep
<1> QED
  BY <1>1, <1>9 DEF NothingAges, OldRun, OldHold
\* While the drain kills, every reservation it has not reached yet is on its list
\* or younger than the change; pools are replaced between changes only.
ForcedInv ==
    /\ srv.pc = "killAll" => \A c \in Clients : OldHold(c) => client[c].id \in kill["drain"].ids
    /\ srv.pc = "finish" /\ srv.outcome = "forceClose" => \A c \in Clients : ~OldHold(c)
    /\ srv.pc = "killAll" => srv.outcome = "forceClose"
    /\ srv.pc # "idle" => mgr.open

\* Every step keeps what a forced drain relies on.
LEMMA NextForced ==
    ASSUME TypeInv, TypeInv', IdInv, ForcedInv, Next, UNCHANGED scenario
    PROVE  ForcedInv'
<1>1. ASSUME NEW c \in Clients,
             \/ \E kind \in {"single", "reserve"}, leaderBound \in BOOLEAN : StartRequest(c, kind, leaderBound)
             \/ RequestStep(c) \/ GetReserved(c) \/ StatementDone(c)
      PROVE  ForcedInv'
  <2>1. /\ NothingAges
        /\ srv'.pc = srv.pc /\ srv'.outcome = srv.outcome /\ srv'.changes = srv.changes
        /\ UNCHANGED kill
    BY <1>1, RequestsStayYoung
  <2>2. UNCHANGED mgr
    BY <1>1 DEF StartRequest, RequestStep, GetReserved, StatementDone, BorrowRegular, RecycleRegular,
                BorrowReserved, Register, OnReserve, ReservationGone, Release, RecycleReserved, OnRelease
  <2> QED
    BY <2>1, <2>2 DEF ForcedInv, NothingAges
<1>2. ASSUME ExpiryStep \/ CollectTimedOut \/ (\E k \in Killers : KillStep(k)) \/ CloseForReopen \/ Open
      PROVE  ForcedInv'
  <2>1. /\ NothingAges
        /\ srv'.pc = srv.pc /\ srv'.outcome = srv.outcome /\ srv'.changes = srv.changes
        /\ UNCHANGED client /\ active' \subseteq active
        /\ \A i \in kill["drain"].ids : i \in kill'["drain"].ids \/ i \notin active'
    BY <1>2, KillsStayYoung
  <2>2. ASSUME NEW k \in Killers, KillOnRelease(k) PROVE mgr'.open <=> mgr.open
    <3>1. PICK e \in BOOLEAN : mgr' = [mgr EXCEPT !.early = e]
      BY <2>2, ZenonT(60) DEF KillOnRelease
    <3> QED
      BY <3>1 DEF TypeInv
  <2>3. (ExpiryStep \/ CollectTimedOut \/ \E k \in Killers : KillStep(k)) => (mgr'.open <=> mgr.open)
    BY <2>2 DEF ExpiryStep, GoesQuiet, ExpiryPasses, CollectTimedOut, KillStep, KillConnection,
                TerminateBackend, KillRelease
  <2>4. CloseForReopen => srv.pc = "idle"
    BY DEF CloseForReopen
  <2>5. Open => mgr'.open
    BY DEF Open, TypeInv
  <2>6. srv'.pc # "idle" => mgr'.open
    BY <1>2, <2>1, <2>3, <2>4, <2>5 DEF ForcedInv
  <2>7. \A c \in Clients : OldHold(c)' => client'[c].id \in active'
    BY DEF OldHold
  <2> QED
    BY <2>1, <2>6, <2>7 DEF ForcedInv, NothingAges
<1>3. ASSUME NEW target \in [serving : BOOLEAN, primary : BOOLEAN], OnStateChange(target)
      PROVE  ForcedInv'
  <2>1. srv'.pc \in {"idle", "enterReserved"}
    <3>1. srv.pc = "idle"
      BY <1>3 DEF OnStateChange
    <3>2. PICK s, p, n :
            \/ srv' = [srv EXCEPT !.serving = TRUE, !.primary = p, !.phase = "none",
                                  !.target = target, !.changes = n]
            \/ srv' = [srv EXCEPT !.phase = "reserved", !.pc = "enterReserved",
                                  !.target = target, !.changes = n]
      BY <1>3, Zenon DEF OnStateChange
    <3> QED
      BY <3>1, <3>2, ZenonT(60) DEF TypeInv, SrvType
  <2> QED
    BY <1>3, <2>1 DEF ForcedInv, OnStateChange
<1>4. ASSUME DrainStep PROVE ForcedInv'
  <2>1. \A c \in Clients : OldHold(c)' => OldHold(c) /\ client'[c].id \in active
    BY <1>4, DrainSteps DEF NothingAges, OldHold
  <2> QED
    BY <1>4, <2>1, DrainSteps DEF ForcedInv
<1> QED
  BY <1>1, <1>2, <1>3, <1>4 DEF Next

-----------------------------------------------------------------------------
(* What is counted.                                                        *)

\* A reservation whose release is still to be counted: the pool knows it, its
\* session is releasing it, or a killer will.
Owes(i) ==
    \/ i \in active
    \/ \E c \in Clients : Releasing(c) /\ client[c].id = i
    \/ \E k \in Killers : /\ Killing(k) /\ kill[k].id = i
                          /\ kill[k].pc = "onRelease" \/ ~rc[i].released

Awaits(i) == \E c \in Clients : client[c].pc = "registered" /\ client[c].id = i

Owed == {i \in Ids : Owes(i)}
Uncounted == {i \in Ids : Awaits(i)}
Running == {c \in Clients : client[c].pc = "running"}

\* The pools have not been replaced.
Exact == mgr.open /\ mgr.gen = 0

\* While that is so, the count of reservations, once those that are being made
\* are added, is the number of releases to come; a session has to release what is
\* not released; and every reservation being made is still to be released, unless
\* a kill came before its count.
CountInv ==
    Exact =>
      /\ lent.reserved + Cardinality(Uncounted) = Cardinality(Owed)
      /\ \A c \in Clients : client[c].pc \in {"registered", "held", "using"} /\ ~rc[client[c].id].released
                               => Owes(client[c].id)
      /\ ~mgr.early => \A c \in Clients : client[c].pc = "registered" => Owes(client[c].id)
      /\ lent.zeroOpen <=> lent.regular + lent.reserved # 0

\* Both sets are finite.
LEMMA CountedFinite ==
    ASSUME TypeInv
    PROVE  /\ IsFiniteSet(Owed) /\ IsFiniteSet(Uncounted) /\ IsFiniteSet(Running)
           /\ Cardinality(Owed) \in Nat /\ Cardinality(Uncounted) \in Nat /\ Cardinality(Running) \in Nat
<1>1. IsFiniteSet(Ids) /\ IsFiniteSet(Clients)
  BY IdsFinite, ScenarioAssumption DEF TypeInv
<1>2. Owed \subseteq Ids /\ Uncounted \subseteq Ids /\ Running \subseteq Clients
  BY DEF Owed, Uncounted, Running
<1>3. IsFiniteSet(Owed) /\ IsFiniteSet(Uncounted) /\ IsFiniteSet(Running)
  BY <1>1, <1>2, FS_Subset
<1> QED
  BY <1>3, FS_CardinalityType

\* How a step may change the sets: the sessions that have a reservation to use keep
\* it, and a released reservation stays so.
Carried ==
    /\ \A c \in Clients : client'[c].pc \in {"registered", "held", "using"} =>
          /\ client[c].pc \in {"registered", "held", "using"}
          /\ client'[c].id = client[c].id
          /\ client'[c].pc = "registered" => client[c].pc = "registered"
    /\ \A i \in Ids : rc[i].released => rc'[i].released

\* A step after which the same releases are to come and the same reservations
\* are to be counted keeps the counts.
LEMMA SameCounts ==
    ASSUME TypeInv, TypeInv', IdInv, CountInv, UNCHANGED scenario, Carried,
           Exact' => Exact, mgr'.early <=> mgr.early,
           \A i \in Ids : Owes(i)' <=> Owes(i),
           \A c \in Clients : client[c].pc = "registered" => client'[c].pc = "registered",
           lent'.reserved = lent.reserved,
           lent' = lent \/ (lent'.zeroOpen <=> lent'.regular + lent'.reserved # 0)
    PROVE  CountInv'
<1> SUFFICES ASSUME Exact'
             PROVE  /\ lent'.reserved + Cardinality(Uncounted)' = Cardinality(Owed)'
                    /\ \A c \in Clients : client'[c].pc \in {"registered", "held", "using"}
                                             /\ ~rc'[client'[c].id].released => Owes(client[c].id)'
                    /\ ~mgr'.early => \A c \in Clients : client'[c].pc = "registered" => Owes(client[c].id)'
                    /\ lent'.zeroOpen <=> lent'.regular + lent'.reserved # 0
  BY DEF CountInv
<1>1. Ids' = Ids
  BY DEF Ids
<1>2. Owed' = Owed
  BY <1>1 DEF Owed
<1>3. \A c \in Clients : client[c].pc = "registered" => client'[c].id = client[c].id
  BY DEF Carried
<1>4. \A i \in Ids : Awaits(i)' <=> Awaits(i)
  BY <1>3 DEF Carried, Awaits
<1>5. Uncounted' = Uncounted
  BY <1>1, <1>4 DEF Uncounted
<1>6. \A c \in Clients : client[c].pc \in {"registered", "held", "using"} => client[c].id \in Ids
  BY DEF IdInv, Distinct, HasId
<1>7. lent'.reserved + Cardinality(Uncounted') = Cardinality(Owed')
  BY <1>2, <1>5 DEF CountInv
<1>8. \A c \in Clients : client'[c].pc \in {"registered", "held", "using"}
                            /\ ~rc'[client'[c].id].released => Owes(client[c].id)'
  <2> SUFFICES ASSUME NEW c \in Clients, client'[c].pc \in {"registered", "held", "using"},
                      ~rc'[client'[c].id].released
               PROVE  Owes(client[c].id)'
    OBVIOUS
  <2>1. PICK x \in Ids : x = client[c].id /\ x = client'[c].id
    BY <1>6 DEF Carried
  <2>2. ~rc[x].released /\ client[c].pc \in {"registered", "held", "using"}
    BY <2>1 DEF Carried
  <2>3. Owes(x)
    BY <2>1, <2>2 DEF CountInv
  <2>4. Owes(x)'
    BY <2>3
  <2> QED
    BY <2>1, <2>4 DEF Owes
<1>9. ~mgr'.early => \A c \in Clients : client'[c].pc = "registered" => Owes(client[c].id)'
  <2> SUFFICES ASSUME ~mgr'.early, NEW c \in Clients, client'[c].pc = "registered"
               PROVE  Owes(client[c].id)'
    OBVIOUS
  <2>1. client[c].pc = "registered"
    BY DEF Carried
  <2>2. PICK x \in Ids : x = client[c].id /\ x = client'[c].id
    BY <1>6, <2>1 DEF Carried
  <2>3. Owes(x)
    BY <2>1, <2>2 DEF CountInv
  <2>4. Owes(x)'
    BY <2>3
  <2> QED
    BY <2>2, <2>4 DEF Owes
<1>10. lent'.zeroOpen <=> lent'.regular + lent'.reserved # 0
  BY DEF CountInv
<1> QED
  BY <1>7, <1>8, <1>9, <1>10
\* Steps of a session that has nothing to release.
LEMMA SessionOwes ==
    ASSUME NEW c \in Clients, UNCHANGED <<active, rc, kill>>,
           \A d \in Clients \ {c} : client'[d] = client[d],
           ~Releasing(c), ~Releasing(c)'
    PROVE  \A i : Owes(i)' <=> Owes(i)
<1> SUFFICES ASSUME NEW i PROVE Owes(i)' <=> Owes(i)
  OBVIOUS
<1>1. \A d \in Clients : (Releasing(d)' /\ client'[d].id = i) <=> (Releasing(d) /\ client[d].id = i)
  BY DEF Releasing
<1>2. \A k : Killing(k)' <=> Killing(k)
  BY DEF Killing
<1> QED
  BY <1>1, <1>2 DEF Owes

\* The quiet steps of a request: nothing is counted.
LEMMA QuietRequests ==
    ASSUME TypeInv, TypeInv', IdInv, CountInv, UNCHANGED scenario, NEW c \in Clients,
           \/ \E kind \in {"single", "reserve"}, leaderBound \in BOOLEAN : StartRequest(c, kind, leaderBound)
           \/ BorrowRegular(c) \/ RecycleRegular(c) \/ ReservationGone(c)
           \/ GetReserved(c) \/ StatementDone(c)
    PROVE  CountInv'
<1>1. UNCHANGED <<active, rc, kill, mgr>>
  BY DEF StartRequest, BorrowRegular, RecycleRegular, ReservationGone, GetReserved, StatementDone
<1>2. \A d \in Clients \ {c} : client'[d] = client[d]
  BY DEF StartRequest, BorrowRegular, RecycleRegular, ReservationGone, GetReserved, StatementDone, TypeInv
<1>3. /\ client[c].pc \in {"idle", "admitted", "running", "held", "using"}
      /\ client'[c].pc \in {"idle", "admitted", "running", "held", "using"}
      /\ client'[c].pc \in {"held", "using"} => client[c].pc \in {"held", "using"} /\ client'[c].id = client[c].id
  BY DEF StartRequest, BorrowRegular, RecycleRegular, ReservationGone, GetReserved, StatementDone,
         TypeInv, ClientType, Resting
<1>4. \A i : Owes(i)' <=> Owes(i)
  BY <1>1, <1>2, <1>3, SessionOwes DEF Releasing
<1>5. Carried /\ \A d \in Clients : client[d].pc = "registered" => client'[d].pc = "registered"
  BY <1>1, <1>2, <1>3 DEF Carried
<1>6. lent'.reserved = lent.reserved /\ (lent' = lent \/ (lent'.zeroOpen <=> lent'.regular + lent'.reserved # 0))
  <2>1. UNCHANGED lent \/ Adds(1, 0) \/ Adds(-1, 0)
    BY DEF StartRequest, BorrowRegular, RecycleRegular, ReservationGone, GetReserved, StatementDone
  <2>2. -1 \in Int /\ 0 \in Int /\ 1 \in Int /\ lent.reserved \in Int /\ lent.reserved + 0 = lent.reserved
    BY DEF TypeInv, LentType
  <2> QED
    BY <2>1, <2>2, AddsTypes
<1>7. (Exact' <=> Exact) /\ (mgr'.early <=> mgr.early)
  BY <1>1 DEF Exact
<1> QED
  BY <1>4, <1>5, <1>6, <1>7, SameCounts

\* BorrowReserved: what is not registered is not counted.
LEMMA BorrowCounts ==
    ASSUME TypeInv, TypeInv', IdInv, CountInv, UNCHANGED scenario, NEW c \in Clients, BorrowReserved(c)
    PROVE  CountInv'
<1>1. UNCHANGED <<active, kill, mgr, lent>>
  BY DEF BorrowReserved
<1>2. /\ \A d \in Clients \ {c} : client'[d] = client[d]
      /\ client[c].pc = "admitted" /\ client'[c].pc = "reserving"
  BY DEF BorrowReserved, TypeInv, ClientType
<1>3. \A i \in Ids : rc'[i].released <=> rc[i].released
  <2>1. PICK m, x : rc' = [rc EXCEPT ![x].conn = m]
    BY DEF BorrowReserved
  <2> QED
    BY <2>1 DEF TypeInv
<1>4. \A i \in Ids : Owes(i)' <=> Owes(i)
  <2> SUFFICES ASSUME NEW i \in Ids PROVE Owes(i)' <=> Owes(i)
    OBVIOUS
  <2>1. \A d \in Clients : (Releasing(d)' /\ client'[d].id = i) <=> (Releasing(d) /\ client[d].id = i)
    BY <1>2 DEF Releasing
  <2>2. \A k : Killing(k)' <=> Killing(k)
    BY <1>1 DEF Killing
  <2> QED
    BY <1>1, <1>3, <2>1, <2>2 DEF Owes
<1>5. Carried /\ \A d \in Clients : client[d].pc = "registered" => client'[d].pc = "registered"
  BY <1>2, <1>3 DEF Carried
<1>6. (Exact' <=> Exact) /\ (mgr'.early <=> mgr.early)
  BY <1>1 DEF Exact
<1> QED
  BY <1>1, <1>4, <1>5, <1>6, SameCounts

\* Release: the reservation is the session's to release from now on.
LEMMA ReleaseCounts ==
    ASSUME TypeInv, TypeInv', IdInv, CountInv, UNCHANGED scenario, NEW c \in Clients, Release(c)
    PROVE  CountInv'
<1> SUFFICES ASSUME Exact' PROVE CountInv'
  BY DEF CountInv
<1>1. UNCHANGED <<active, kill, mgr, lent>>
  BY DEF Release
<1>2. PICK x \in Ids : x = client[c].id
  BY DEF Release, IdInv, Distinct, HasId
<1>3. /\ client[c].pc = "using"
      /\ \A d \in Clients \ {c} : client'[d] = client[d]
      /\ rc[x].released => client'[c].pc = "idle"
      /\ ~rc[x].released => client'[c].pc = "recycle" /\ client'[c].id = x
  BY <1>2 DEF Release, TypeInv, ClientType, Resting
<1>4. \A i \in Ids : rc'[i].released <=> (rc[i].released \/ i = x)
  BY <1>2 DEF Release, TypeInv
<1>5. (Exact' <=> Exact) /\ (mgr'.early <=> mgr.early)
  BY <1>1 DEF Exact
<1>6. ~rc[x].released => Owes(x)
  BY <1>2, <1>3, <1>5 DEF CountInv
<1>7. \A k : Killing(k)' <=> Killing(k)
  BY <1>1 DEF Killing
<1>8. \A i \in Ids : Owes(i)' <=> Owes(i)
  <2> SUFFICES ASSUME NEW i \in Ids PROVE Owes(i)' <=> Owes(i)
    OBVIOUS
  <2>1. CASE rc[x].released \/ i # x
    <3>1. \A d \in Clients : (Releasing(d)' /\ client'[d].id = i) <=> (Releasing(d) /\ client[d].id = i)
      BY <1>2, <1>3, <2>1 DEF Releasing
    <3>2. rc'[i].released <=> rc[i].released
      BY <1>4, <2>1
    <3> QED
      BY <1>1, <1>7, <3>1, <3>2 DEF Owes
  <2>2. CASE ~rc[x].released /\ i = x
    <3>1. Releasing(c)' /\ client'[c].id = i
      BY <1>3, <2>2 DEF Releasing
    <3> QED
      BY <1>6, <2>2, <3>1 DEF Owes
  <2> QED
    BY <2>1, <2>2
<1>9. Carried /\ \A d \in Clients : client[d].pc = "registered" => client'[d].pc = "registered"
  BY <1>3, <1>4 DEF Carried
<1> QED
  BY <1>1, <1>5, <1>8, <1>9, SameCounts

\* Pool.release: the count follows later.
LEMMA RecycleCounts ==
    ASSUME TypeInv, TypeInv', IdInv, CountInv, UNCHANGED scenario, NEW c \in Clients, RecycleReserved(c)
    PROVE  CountInv'
<1>1. UNCHANGED <<rc, kill, mgr, lent>>
  BY DEF RecycleReserved
<1>2. PICK x \in Ids : x = client[c].id
  BY DEF RecycleReserved, IdInv, Distinct, HasId
<1>3. /\ client[c].pc = "recycle" /\ client'[c].pc = "onRelease" /\ client'[c].id = x
      /\ \A d \in Clients \ {c} : client'[d] = client[d]
      /\ active' = active \ {x}
  BY <1>2 DEF RecycleReserved, FreeConn, TypeInv, ClientType
<1>4. \A i \in Ids : Owes(i)' <=> Owes(i)
  <2> SUFFICES ASSUME NEW i \in Ids PROVE Owes(i)' <=> Owes(i)
    OBVIOUS
  <2>1. \A d \in Clients : (Releasing(d)' /\ client'[d].id = i) <=> (Releasing(d) /\ client[d].id = i)
    BY <1>2, <1>3 DEF Releasing
  <2>2. i = x => Releasing(c) /\ client[c].id = i
    BY <1>2, <1>3 DEF Releasing
  <2>3. \A k : Killing(k)' <=> Killing(k)
    BY <1>1 DEF Killing
  <2> QED
    BY <1>1, <1>3, <2>1, <2>2, <2>3 DEF Owes
<1>5. Carried /\ \A d \in Clients : client[d].pc = "registered" => client'[d].pc = "registered"
  BY <1>1, <1>3 DEF Carried
<1>6. (Exact' <=> Exact) /\ (mgr'.early <=> mgr.early)
  BY <1>1 DEF Exact
<1> QED
  BY <1>1, <1>4, <1>5, <1>6, SameCounts
\* The quiet steps of the killers.
LEMMA KillCounts ==
    ASSUME TypeInv, TypeInv', IdInv, CountInv, UNCHANGED scenario, NEW k \in Killers,
           KillConnection(k) \/ TerminateBackend(k) \/ KillRelease(k)
    PROVE  CountInv'
<1>1. UNCHANGED <<client, mgr, lent>> /\ \A d : Releasing(d)' <=> Releasing(d)
  BY DEF KillConnection, TerminateBackend, KillRelease, Releasing
<1>2. ASSUME KillConnection(k)
      PROVE  (\A i \in Ids : rc[i].released => rc'[i].released) /\ \A i \in Ids : Owes(i)' <=> Owes(i)
  <2>1. PICK j \in kill[k].ids :
          /\ kill' = [kill EXCEPT ![k] =
               [ids |-> @.ids \ {j}, id |-> IF j \in active THEN j ELSE None,
                pc |-> IF j \in active THEN "terminate" ELSE "none"]]
          /\ active' = active \ {j}
    BY <1>2 DEF KillConnection
  <2>2. UNCHANGED rc /\ ~Killing(k)
    BY <1>2 DEF KillConnection, Killing
  <2>3. /\ \A l \in Killers \ {k} : kill'[l] = kill[l]
        /\ j \in active => kill'[k].pc = "terminate" /\ kill'[k].id = j
        /\ j \notin active => kill'[k].pc = "none"
    BY <2>1 DEF TypeInv
  <2>4. \A l \in Killers \ {k} : Killing(l)' <=> Killing(l)
    BY <2>3 DEF Killing
  <2> SUFFICES ASSUME NEW i \in Ids PROVE Owes(i)' <=> Owes(i)
    BY <2>2
  <2>5. CASE i \in active /\ i = j
    <3>1. Owes(i)
      BY <2>5 DEF Owes
    <3>2. CASE rc[i].released
      <4>1. \E d \in Clients : client[d].pc = "recycle" /\ client[d].id = i
        BY <2>5, <3>2 DEF IdInv, ReleaseInv
      <4>2. \E d \in Clients : Releasing(d)' /\ client'[d].id = i
        BY <1>1, <4>1 DEF Releasing
      <4> QED
        BY <3>1, <4>2 DEF Owes
    <3>3. CASE ~rc[i].released
      <4>1. Killing(k)' /\ kill'[k].id = i /\ ~rc'[i].released
        BY <2>2, <2>3, <2>5, <3>3 DEF Killing
      <4> QED
        BY <3>1, <4>1 DEF Owes
    <3> QED
      BY <3>2, <3>3
  <2>6. CASE ~(i \in active /\ i = j)
    <3>1. i \in active' <=> i \in active
      BY <2>1, <2>6
    <3>2. \A l \in Killers : (Killing(l)' /\ kill'[l].id = i) <=> (Killing(l) /\ kill[l].id = i)
      BY <2>2, <2>3, <2>4, <2>6 DEF Killing
    <3>3. \A l \in Killers : (Killing(l) /\ kill[l].id = i) => kill'[l].pc = kill[l].pc
      BY <2>2, <2>3
    <3> QED
      BY <1>1, <2>2, <3>1, <3>2, <3>3 DEF Owes
  <2> QED
    BY <2>5, <2>6
<1>3. ASSUME TerminateBackend(k)
      PROVE  (\A i \in Ids : rc[i].released => rc'[i].released) /\ \A i \in Ids : Owes(i)' <=> Owes(i)
  <2>1. UNCHANGED <<rc, active>>
    BY <1>3 DEF TerminateBackend
  <2>2. \A l \in Killers : /\ Killing(l)' <=> Killing(l)
                           /\ kill'[l].id = kill[l].id
                           /\ kill'[l].pc = "onRelease" <=> kill[l].pc = "onRelease"
    BY <1>3 DEF TerminateBackend, Killing, TypeInv, KillType
  <2> QED
    BY <1>1, <2>1, <2>2 DEF Owes
<1>4. ASSUME KillRelease(k)
      PROVE  (\A i \in Ids : rc[i].released => rc'[i].released) /\ \A i \in Ids : Owes(i)' <=> Owes(i)
  <2>1. PICK x \in Ids : x = kill[k].id /\ Taken(x) /\ x \notin active
    BY <1>4 DEF KillRelease, IdInv, KillInv, Killing
  <2>2. /\ \A l \in Killers \ {k} : kill'[l] = kill[l]
        /\ rc[x].released => kill'[k].pc = "none"
        /\ ~rc[x].released => kill'[k].pc = "onRelease" /\ kill'[k].id = x
        /\ kill[k].pc = "release" /\ Killing(k)
    BY <1>4, <2>1 DEF KillRelease, TypeInv, KillType, Killing
  <2>3. UNCHANGED active
    BY <1>4 DEF KillRelease
  <2>4. \A i \in Ids : rc'[i].released <=> (rc[i].released \/ i = x)
    BY <1>4, <2>1 DEF KillRelease, TypeInv
  <2>5. \A l \in Killers \ {k} : /\ Killing(l)' <=> Killing(l)
                                 /\ Killing(l) => kill[l].id # x
    BY <2>1, <2>2 DEF IdInv, KillInv, Killing
  <2> SUFFICES ASSUME NEW i \in Ids PROVE Owes(i)' <=> Owes(i)
    BY <2>4
  <2>6. CASE i # x
    <3>1. \A l \in Killers : /\ (Killing(l)' /\ kill'[l].id = i) <=> (Killing(l) /\ kill[l].id = i)
                             /\ Killing(l) /\ kill[l].id = i => kill'[l].pc = kill[l].pc
      BY <2>1, <2>2, <2>5, <2>6 DEF Killing
    <3>2. rc'[i].released <=> rc[i].released
      BY <2>4, <2>6
    <3>3. \A l \in Killers :
            (Killing(l)' /\ kill'[l].id = i /\ (kill'[l].pc = "onRelease" \/ ~rc'[i].released))
              <=> (Killing(l) /\ kill[l].id = i /\ (kill[l].pc = "onRelease" \/ ~rc[i].released))
      BY <3>1, <3>2
    <3> QED
      BY <1>1, <2>3, <3>3 DEF Owes
  <2>7. CASE i = x /\ ~rc[x].released
    <3>1. Owes(i)
      BY <2>1, <2>2, <2>7 DEF Owes
    <3>2. Killing(k)' /\ kill'[k].id = i /\ kill'[k].pc = "onRelease"
      BY <2>2, <2>7 DEF Killing
    <3> QED
      BY <3>1, <3>2 DEF Owes
  <2>8. CASE i = x /\ rc[x].released
    <3>1. rc'[i].released /\ rc[i].released
      BY <2>4, <2>8
    <3>2. ~Killing(k)' /\ kill[k].pc # "onRelease"
      BY <2>2, <2>8 DEF Killing
    <3>3. \A l \in Killers : /\ ~(Killing(l)' /\ kill'[l].id = i)
                             /\ Killing(l) /\ kill[l].id = i => kill[l].pc # "onRelease"
      BY <2>2, <2>5, <2>8, <3>2
    <3> QED
      BY <1>1, <2>3, <3>1, <3>3 DEF Owes
  <2> QED
    BY <2>6, <2>7, <2>8
<1>5. Carried /\ \A d \in Clients : client[d].pc = "registered" => client'[d].pc = "registered"
  BY <1>1, <1>2, <1>3, <1>4 DEF Carried
<1>6. (Exact' <=> Exact) /\ (mgr'.early <=> mgr.early)
  BY <1>1 DEF Exact
<1> QED
  BY <1>1, <1>2, <1>3, <1>4, <1>5, <1>6, SameCounts

\* Steps that change neither a session, nor the pool, nor who kills what.
LEMMA ChangeCounts ==
    ASSUME TypeInv, TypeInv', IdInv, CountInv, UNCHANGED <<scenario, client, rc, active, lent, mgr>>,
           \A k \in Killers : kill'[k].pc = kill[k].pc /\ kill'[k].id = kill[k].id
    PROVE  CountInv'
<1>1. \A d : Releasing(d)' <=> Releasing(d)
  BY DEF Releasing
<1>2. \A k \in Killers : Killing(k)' <=> Killing(k)
  BY DEF Killing
<1>3. \A i \in Ids : Owes(i)' <=> Owes(i)
  BY <1>1, <1>2 DEF Owes
<1>4. Carried /\ (Exact' <=> Exact)
  BY DEF Carried, Exact
<1> QED
  BY <1>3, <1>4, SameCounts
\* Sessions take connections from the pools of their time.
GenInv == mgr.gen = 0 => \A c \in Clients : client[c].gen = 0

\* Register: one more release to come, and one more reservation to count.
LEMMA RegisterCounts ==
    ASSUME TypeInv, TypeInv', IdInv, CountInv, GenInv, UNCHANGED scenario, NEW c \in Clients, Register(c)
    PROVE  CountInv'
<1> SUFFICES ASSUME Exact' PROVE CountInv'
  BY DEF CountInv
<1>1. PICK x \in Ids : x = client[c].id
  BY DEF Register, IdInv, Distinct, HasId
<1>2. UNCHANGED <<rc, kill, mgr, lent>> /\ Ids' = Ids /\ Exact
  BY DEF Register, Exact, Ids
<1>3. active' = active \cup {x}
  BY <1>1, <1>2 DEF Register, Exact, GenInv
<1>4. /\ client[c].pc = "reserving" /\ HasId(c) /\ client'[c].pc = "registered" /\ client'[c].id = x
      /\ \A d \in Clients \ {c} : client'[d] = client[d]
  BY <1>1 DEF Register, TypeInv, ClientType, HasId
<1>5. \A d \in Clients \ {c} : HasId(d) => client[d].id # x
  BY <1>1, <1>4 DEF IdInv, Distinct
<1>6. /\ \A k : Killing(k)' <=> Killing(k)
      /\ \A d \in Clients : /\ Releasing(d)' <=> Releasing(d)
                            /\ Releasing(d) => d # c /\ client'[d] = client[d] /\ HasId(d)
  BY <1>2, <1>4 DEF Killing, Releasing, HasId
<1>7. ~Owes(x)
  <2>1. x \notin active /\ \A k \in Killers : Killing(k) => kill[k].id # x
    BY <1>1, <1>4 DEF IdInv, ReleaseInv
  <2> QED
    BY <1>5, <1>6, <2>1 DEF Owes
<1>8. \A i \in Ids : Owes(i)' <=> (Owes(i) \/ i = x)
  BY <1>2, <1>3, <1>6 DEF Owes
<1>9. Owed' = Owed \cup {x} /\ x \notin Owed
  BY <1>2, <1>7, <1>8 DEF Owed
<1>10. Uncounted' = Uncounted \cup {x} /\ x \notin Uncounted
  <2>1. \A i \in Ids : Awaits(i)' <=> (Awaits(i) \/ i = x)
    BY <1>4 DEF Awaits
  <2>2. ~Awaits(x)
    BY <1>4, <1>5 DEF Awaits, HasId
  <2> QED
    BY <1>2, <2>1, <2>2 DEF Uncounted
<1>11. lent'.reserved + Cardinality(Uncounted') = Cardinality(Owed')
  <2>1. Cardinality(Owed \cup {x}) = Cardinality(Owed) + 1 /\ Cardinality(Uncounted \cup {x}) = Cardinality(Uncounted) + 1
    BY <1>9, <1>10, CountedFinite, FS_AddElement
  <2>2. lent.reserved \in Int /\ lent.reserved + Cardinality(Uncounted) = Cardinality(Owed)
    BY <1>2 DEF TypeInv, LentType, CountInv
  <2>3. Cardinality(Owed') = Cardinality(Owed) + 1 /\ Cardinality(Uncounted') = Cardinality(Uncounted) + 1
    BY <1>9, <1>10, <2>1
  <2> QED
    BY <1>2, <2>2, <2>3, CountedFinite
<1>12. \A d \in Clients \ {c} : client'[d].pc \in {"registered", "held", "using"} =>
           client[d].id \in Ids /\ HasId(d) /\ client'[d] = client[d]
  BY <1>4 DEF IdInv, Distinct, HasId
<1>13. \A d \in Clients : client'[d].pc \in {"registered", "held", "using"}
                            /\ ~rc'[client'[d].id].released => Owes(client[d].id)'
  <2> SUFFICES ASSUME NEW d \in Clients, client'[d].pc \in {"registered", "held", "using"},
                      ~rc'[client'[d].id].released
               PROVE  Owes(client[d].id)'
    OBVIOUS
  <2>1. PICK y \in Ids : y = client'[d].id
    BY <1>4, <1>12
  <2>2. y = x \/ Owes(y)
    BY <1>2, <1>4, <1>12, <2>1 DEF CountInv
  <2>3. Owes(y)'
    BY <1>8, <2>2
  <2> QED
    BY <2>1, <2>3 DEF Owes
<1>14. ~mgr'.early => \A d \in Clients : client'[d].pc = "registered" => Owes(client[d].id)'
  <2> SUFFICES ASSUME ~mgr'.early, NEW d \in Clients, client'[d].pc = "registered"
               PROVE  Owes(client[d].id)'
    OBVIOUS
  <2>1. PICK y \in Ids : y = client'[d].id
    BY <1>4, <1>12
  <2>2. y = x \/ Owes(y)
    BY <1>2, <1>4, <1>12, <2>1 DEF CountInv
  <2>3. Owes(y)'
    BY <1>8, <2>2
  <2> QED
    BY <2>1, <2>3 DEF Owes
<1>15. lent'.zeroOpen <=> lent'.regular + lent'.reserved # 0
  BY <1>2 DEF CountInv
<1> QED
  BY <1>11, <1>13, <1>14, <1>15 DEF CountInv

\* OnReserve: the reservation is counted.
LEMMA OnReserveCounts ==
    ASSUME TypeInv, TypeInv', IdInv, CountInv, UNCHANGED scenario, NEW c \in Clients, OnReserve(c)
    PROVE  CountInv'
<1> SUFFICES ASSUME Exact' PROVE CountInv'
  BY DEF CountInv
<1>1. PICK x \in Ids : x = client[c].id
  BY DEF OnReserve, IdInv, Distinct, HasId
<1>2. UNCHANGED <<rc, kill, mgr, active>> /\ Ids' = Ids /\ Exact
  BY DEF OnReserve, Exact, Ids
<1>3. /\ client[c].pc = "registered" /\ HasId(c) /\ client'[c].pc = "using" /\ client'[c].id = x
      /\ \A d \in Clients \ {c} : client'[d] = client[d]
  BY <1>1 DEF OnReserve, TypeInv, ClientType, HasId
<1>4. lent'.reserved = lent.reserved + 1 /\ (lent'.zeroOpen <=> lent'.regular + lent'.reserved # 0)
  <2>1. Adds(0, 1) /\ 0 \in Int /\ 1 \in Int
    BY DEF OnReserve
  <2> QED
    BY <2>1, AddsTypes
<1>5. \A i : Owes(i)' <=> Owes(i)
  BY <1>2, <1>3, SessionOwes DEF Releasing
<1>6. Owed' = Owed
  BY <1>2, <1>5 DEF Owed
<1>7. Uncounted' = Uncounted \ {x} /\ x \in Uncounted
  <2>1. \A d \in Clients \ {c} : HasId(d) => client[d].id # x
    BY <1>1, <1>3 DEF IdInv, Distinct
  <2>2. \A i \in Ids : Awaits(i)' <=> (Awaits(i) /\ i # x)
    BY <1>1, <1>3, <2>1 DEF Awaits, HasId
  <2>3. Awaits(x)
    BY <1>1, <1>3 DEF Awaits
  <2> QED
    BY <1>2, <2>2, <2>3 DEF Uncounted
<1>8. lent'.reserved + Cardinality(Uncounted') = Cardinality(Owed')
  <2>1. Cardinality(Uncounted \ {x}) = Cardinality(Uncounted) - 1
    BY <1>7, CountedFinite, FS_RemoveElement
  <2>2. lent.reserved \in Int /\ lent.reserved + Cardinality(Uncounted) = Cardinality(Owed)
    BY <1>2 DEF TypeInv, LentType, CountInv
  <2>3. Cardinality(Owed') = Cardinality(Owed) /\ Cardinality(Uncounted') = Cardinality(Uncounted) - 1
    BY <1>6, <1>7, <2>1
  <2> QED
    BY <1>4, <2>2, <2>3, CountedFinite
<1>9. \A d \in Clients : client'[d].pc \in {"registered", "held", "using"} =>
          /\ client[d].pc \in {"registered", "held", "using"} /\ client'[d].id = client[d].id
          /\ client'[d].pc = "registered" => client[d].pc = "registered"
  BY <1>1, <1>3
<1>10. \A d \in Clients : client'[d].pc \in {"registered", "held", "using"}
                            /\ ~rc'[client'[d].id].released => Owes(client[d].id)'
  <2> SUFFICES ASSUME NEW d \in Clients, client'[d].pc \in {"registered", "held", "using"},
                      ~rc'[client'[d].id].released
               PROVE  Owes(client[d].id)'
    OBVIOUS
  <2>1. PICK y : y = client'[d].id /\ y = client[d].id
    BY <1>9
  <2>2. Owes(y)
    BY <1>2, <1>9, <2>1 DEF CountInv
  <2>3. Owes(y)'
    BY <1>5, <2>2
  <2> QED
    BY <2>1, <2>3 DEF Owes
<1>11. ~mgr'.early => \A d \in Clients : client'[d].pc = "registered" => Owes(client[d].id)'
  <2> SUFFICES ASSUME ~mgr'.early, NEW d \in Clients, client'[d].pc = "registered"
               PROVE  Owes(client[d].id)'
    OBVIOUS
  <2>1. PICK y : y = client'[d].id /\ y = client[d].id
    BY <1>9
  <2>2. Owes(y)
    BY <1>2, <1>9, <2>1 DEF CountInv
  <2>3. Owes(y)'
    BY <1>5, <2>2
  <2> QED
    BY <2>1, <2>3 DEF Owes
<1> QED
  BY <1>4, <1>8, <1>10, <1>11 DEF CountInv
\* A release is counted: one less to come.
LEMMA ReleaseCounted ==
    ASSUME TypeInv, TypeInv', IdInv, CountInv, UNCHANGED scenario, UNCHANGED rc, Carried,
           Exact' => Exact, NEW x \in Ids, rc[x].released,
           \A i \in Ids : Owes(i)' <=> (Owes(i) /\ i # x), Owes(x),
           \A c \in Clients : client[c].pc = "registered" => client'[c].pc = "registered",
           ~mgr'.early => ~mgr.early /\ \A c \in Clients : client[c].pc = "registered" => client[c].id # x,
           lent'.reserved = lent.reserved + -1,
           lent'.zeroOpen <=> lent'.regular + lent'.reserved # 0
    PROVE  CountInv'
<1> SUFFICES ASSUME Exact' PROVE CountInv'
  BY DEF CountInv
<1>1. Ids' = Ids /\ Exact
  BY DEF Ids
<1>2. Owed' = Owed \ {x} /\ x \in Owed
  BY <1>1 DEF Owed
<1>3. Uncounted' = Uncounted
  <2>1. \A c \in Clients : client[c].pc = "registered" => client'[c].id = client[c].id
    BY DEF Carried
  <2>2. \A i \in Ids : Awaits(i)' <=> Awaits(i)
    BY <2>1 DEF Carried, Awaits
  <2> QED
    BY <1>1, <2>2 DEF Uncounted
<1>4. lent'.reserved + Cardinality(Uncounted') = Cardinality(Owed')
  <2>1. Cardinality(Owed \ {x}) = Cardinality(Owed) - 1
    BY <1>2, CountedFinite, FS_RemoveElement
  <2>2. lent.reserved \in Int /\ lent.reserved + Cardinality(Uncounted) = Cardinality(Owed)
    BY <1>1 DEF TypeInv, LentType, CountInv
  <2>3. Cardinality(Uncounted') = Cardinality(Uncounted) /\ Cardinality(Owed') = Cardinality(Owed) - 1
    BY <1>2, <1>3, <2>1
  <2> QED
    BY <2>2, <2>3, CountedFinite
<1>5. \A c \in Clients : client[c].pc \in {"registered", "held", "using"} => client[c].id \in Ids
  BY DEF IdInv, Distinct, HasId
<1>6. \A c \in Clients : client'[c].pc \in {"registered", "held", "using"}
                            /\ ~rc'[client'[c].id].released => Owes(client[c].id)'
  <2> SUFFICES ASSUME NEW c \in Clients, client'[c].pc \in {"registered", "held", "using"},
                      ~rc'[client'[c].id].released
               PROVE  Owes(client[c].id)'
    OBVIOUS
  <2>1. PICK y \in Ids : y = client[c].id /\ y = client'[c].id
    BY <1>5 DEF Carried
  <2>2. ~rc[y].released /\ client[c].pc \in {"registered", "held", "using"}
    BY <2>1 DEF Carried
  <2>3. Owes(y) /\ y # x
    BY <1>1, <2>1, <2>2 DEF CountInv
  <2>4. Owes(y)'
    BY <2>3
  <2> QED
    BY <2>1, <2>4 DEF Owes
<1>7. ~mgr'.early => \A c \in Clients : client'[c].pc = "registered" => Owes(client[c].id)'
  <2> SUFFICES ASSUME ~mgr'.early, NEW c \in Clients, client'[c].pc = "registered"
               PROVE  Owes(client[c].id)'
    OBVIOUS
  <2>1. client[c].pc = "registered"
    BY DEF Carried
  <2>2. PICK y \in Ids : y = client[c].id /\ y = client'[c].id
    BY <1>5, <2>1 DEF Carried
  <2>3. Owes(y) /\ y # x
    BY <1>1, <2>1, <2>2 DEF CountInv
  <2>4. Owes(y)'
    BY <2>3
  <2> QED
    BY <2>2, <2>4 DEF Owes
<1> QED
  BY <1>4, <1>6, <1>7 DEF CountInv

\* OnRelease after a session's own release.
LEMMA OnReleaseCounts ==
    ASSUME TypeInv, TypeInv', IdInv, CountInv, UNCHANGED scenario, NEW c \in Clients, OnRelease(c)
    PROVE  CountInv'
<1>1. PICK x \in Ids : x = client[c].id
  BY DEF OnRelease, IdInv, Distinct, HasId
<1>2. UNCHANGED <<rc, kill, mgr, active>> /\ (Exact' <=> Exact) /\ (mgr'.early <=> mgr.early)
  BY DEF OnRelease, Exact
<1>3. /\ client[c].pc = "onRelease" /\ HasId(c) /\ Releasing(c) /\ client'[c].pc = "idle"
      /\ \A d \in Clients \ {c} : client'[d] = client[d]
  BY <1>1 DEF OnRelease, TypeInv, ClientType, HasId, Releasing, Resting
<1>4. lent'.reserved = lent.reserved + -1 /\ (lent'.zeroOpen <=> lent'.regular + lent'.reserved # 0)
  <2>1. Adds(0, -1) /\ 0 \in Int /\ -1 \in Int
    BY DEF OnRelease
  <2> QED
    BY <2>1, AddsTypes
<1>5. /\ rc[x].released /\ x \notin active
      /\ \A k \in Killers : kill[k].pc = "onRelease" => kill[k].id # x
      /\ \A d \in Clients \ {c} : HasId(d) => client[d].id # x
  BY <1>1, <1>3 DEF IdInv, Distinct, ReleaseInv
<1>6. Owes(x)
  BY <1>1, <1>3 DEF Owes
<1>7. \A i \in Ids : Owes(i)' <=> (Owes(i) /\ i # x)
  <2> SUFFICES ASSUME NEW i \in Ids PROVE Owes(i)' <=> (Owes(i) /\ i # x)
    OBVIOUS
  <2>1. \A d \in Clients : (Releasing(d)' /\ client'[d].id = i)
                              <=> (Releasing(d) /\ client[d].id = i /\ d # c)
    BY <1>3 DEF Releasing
  <2>2. \A k : Killing(k)' <=> Killing(k)
    BY <1>2 DEF Killing
  <2>3. CASE i = x
    <3>1. \A d \in Clients : ~(Releasing(d)' /\ client'[d].id = i)
      BY <1>5, <2>1, <2>3 DEF Releasing, HasId
    <3>2. \A k \in Killers : kill'[k].id = i => kill'[k].pc # "onRelease" /\ rc'[i].released
      BY <1>2, <1>5, <2>3
    <3> QED
      BY <1>2, <1>5, <2>3, <3>1, <3>2 DEF Owes
  <2>4. CASE i # x
    <3>1. \A d \in Clients : (Releasing(d)' /\ client'[d].id = i) <=> (Releasing(d) /\ client[d].id = i)
      BY <1>1, <2>1, <2>4
    <3> QED
      BY <1>2, <2>2, <2>4, <3>1 DEF Owes
  <2> QED
    BY <2>3, <2>4
<1>8. /\ Carried
      /\ \A d \in Clients : client[d].pc = "registered" => client'[d].pc = "registered"
      /\ \A d \in Clients : client[d].pc = "registered" => client[d].id # x
  BY <1>2, <1>3, <1>5 DEF Carried, HasId
<1> QED
  BY <1>2, <1>4, <1>5, <1>6, <1>7, <1>8, ReleaseCounted

\* OnRelease after a kill; it may come before the reservation is counted.
LEMMA KillOnReleaseCounts ==
    ASSUME TypeInv, TypeInv', IdInv, CountInv, UNCHANGED scenario, NEW k \in Killers, KillOnRelease(k)
    PROVE  CountInv'
<1>1. PICK x \in Ids : x = kill[k].id
  BY DEF KillOnRelease, IdInv, KillInv, Killing
<1>2. UNCHANGED <<rc, client, active>>
  BY DEF KillOnRelease
<1>3. PICK e \in BOOLEAN :
        /\ mgr' = [mgr EXCEPT !.early = e]
        /\ e <=> (mgr.early \/ \E c \in Clients : client[c].pc = "registered" /\ client[c].id = x)
  BY <1>1, Zenon DEF KillOnRelease
<1>4. mgr'.open = mgr.open /\ mgr'.gen = mgr.gen /\ mgr'.early = e
  BY <1>3 DEF TypeInv
<1>5. /\ Exact' <=> Exact
      /\ ~mgr'.early => ~mgr.early /\ \A c \in Clients : client[c].pc = "registered" => client[c].id # x
  BY <1>3, <1>4 DEF Exact
<1>6. lent'.reserved = lent.reserved + -1 /\ (lent'.zeroOpen <=> lent'.regular + lent'.reserved # 0)
  <2>1. Adds(0, -1) /\ 0 \in Int /\ -1 \in Int
    BY DEF KillOnRelease
  <2> QED
    BY <2>1, AddsTypes
<1>7. /\ kill[k].pc = "onRelease" /\ Killing(k) /\ kill'[k].pc = "none" /\ ~Killing(k)'
      /\ \A l \in Killers \ {k} : kill'[l] = kill[l]
  <2>1. kill[k].pc = "onRelease" /\ kill' = [kill EXCEPT ![k].pc = "none", ![k].id = None]
    BY DEF KillOnRelease
  <2> QED
    BY <2>1 DEF TypeInv, KillType, Killing
<1>8. /\ rc[x].released /\ x \notin active
      /\ \A l \in Killers \ {k} : Killing(l) => kill[l].id # x
      /\ \A d \in Clients : Releasing(d) => client[d].id # x
  BY <1>1, <1>7 DEF IdInv, KillInv, ReleaseInv
<1>9. Owes(x)
  BY <1>1, <1>7 DEF Owes
<1>10. \A i \in Ids : Owes(i)' <=> (Owes(i) /\ i # x)
  <2> SUFFICES ASSUME NEW i \in Ids PROVE Owes(i)' <=> (Owes(i) /\ i # x)
    OBVIOUS
  <2>1. /\ \A d \in Clients : (Releasing(d)' /\ client'[d].id = i) <=> (Releasing(d) /\ client[d].id = i)
        /\ \A l \in Killers : /\ Killing(l)' <=> (Killing(l) /\ l # k)
                              /\ l # k => kill'[l] = kill[l]
    BY <1>2, <1>7 DEF Releasing, Killing
  <2>2. CASE i = x
    <3>1. \A l \in Killers : ~(Killing(l)' /\ kill'[l].id = i)
      BY <1>8, <2>1, <2>2
    <3> QED
      BY <1>2, <1>8, <2>1, <2>2, <3>1 DEF Owes
  <2>3. CASE i # x
    <3>1. \A l \in Killers :
            (Killing(l)' /\ kill'[l].id = i /\ (kill'[l].pc = "onRelease" \/ ~rc'[i].released))
              <=> (Killing(l) /\ kill[l].id = i /\ (kill[l].pc = "onRelease" \/ ~rc[i].released))
      BY <1>1, <1>2, <2>1, <2>3
    <3> QED
      BY <1>2, <2>1, <2>3, <3>1 DEF Owes
  <2> QED
    BY <2>2, <2>3
<1>11. Carried
  BY <1>2 DEF Carried
<1> QED
  BY <1>2, <1>5, <1>6, <1>8, <1>9, <1>10, <1>11, ReleaseCounted
\* The count of regular connections is the number of statements that run on them.
RegularInv == lent.regular = Cardinality(Running)

\* Whether a step counts a regular connection or not, the count is right.
LEMMA NextRegular ==
    ASSUME TypeInv, TypeInv', RegularInv, GenInv, Next, UNCHANGED scenario
    PROVE  RegularInv' /\ GenInv'
<1>1. ASSUME NEW c \in Clients, BorrowRegular(c) PROVE RegularInv' /\ GenInv'
  <2>1. /\ client[c].pc = "admitted" /\ client'[c].pc = "running" /\ client'[c].gen = client[c].gen
        /\ \A d \in Clients \ {c} : client'[d] = client[d]
        /\ UNCHANGED mgr
    BY <1>1 DEF BorrowRegular, TypeInv, ClientType
  <2>2. Running' = Running \cup {c} /\ c \notin Running
    BY <2>1 DEF Running
  <2>3. Adds(1, 0) /\ 1 \in Int /\ 0 \in Int
    BY <1>1 DEF BorrowRegular
  <2>4. lent'.regular = lent.regular + 1
    BY <2>3, AddsTypes
  <2>5. Cardinality(Running \cup {c}) = Cardinality(Running) + 1
    BY <2>2, CountedFinite, FS_AddElement
  <2>6. lent'.regular = Cardinality(Running')
    BY <2>2, <2>4, <2>5 DEF RegularInv
  <2> QED
    BY <2>1, <2>6 DEF RegularInv, GenInv
<1>2. ASSUME NEW c \in Clients, RecycleRegular(c) PROVE RegularInv' /\ GenInv'
  <2>1. /\ client[c].pc = "running" /\ client'[c].pc = "idle" /\ client'[c].gen = 0
        /\ \A d \in Clients \ {c} : client'[d] = client[d]
        /\ UNCHANGED mgr
    BY <1>2 DEF RecycleRegular, TypeInv, ClientType, Resting
  <2>2. Running' = Running \ {c} /\ c \in Running
    BY <2>1 DEF Running
  <2>3. Adds(-1, 0) /\ -1 \in Int /\ 0 \in Int
    BY <1>2 DEF RecycleRegular
  <2>4. lent'.regular = lent.regular + -1
    BY <2>3, AddsTypes
  <2>5. Cardinality(Running \ {c}) = Cardinality(Running) - 1
    BY <2>2, CountedFinite, FS_RemoveElement
  <2>6. lent'.regular = Cardinality(Running')
    BY <2>2, <2>4, <2>5, CountedFinite DEF RegularInv
  <2> QED
    BY <2>1, <2>6 DEF RegularInv, GenInv
<1>3. ASSUME lent'.regular = lent.regular,
             \A d \in Clients : client'[d].pc = "running" <=> client[d].pc = "running"
      PROVE  RegularInv'
  <2>1. Running' = Running
    BY <1>3 DEF Running
  <2> QED
    BY <1>3, <2>1 DEF RegularInv
<1>4. lent.regular \in Int /\ lent.regular + 0 = lent.regular /\ -1 \in Int /\ 0 \in Int /\ 1 \in Int
  BY DEF TypeInv, LentType
<1>5. ASSUME NEW c \in Clients,
             \/ \E kind \in {"single", "reserve"}, leaderBound \in BOOLEAN : StartRequest(c, kind, leaderBound)
             \/ BorrowReserved(c) \/ Register(c) \/ OnReserve(c) \/ ReservationGone(c) \/ Release(c)
             \/ RecycleReserved(c) \/ OnRelease(c) \/ GetReserved(c) \/ StatementDone(c)
      PROVE  RegularInv' /\ GenInv'
  <2>1. UNCHANGED lent \/ Adds(0, 1) \/ Adds(0, -1)
    BY <1>5 DEF StartRequest, BorrowReserved, Register, OnReserve, ReservationGone, Release,
                RecycleReserved, OnRelease, GetReserved, StatementDone
  <2>2. lent'.regular = lent.regular
    BY <1>4, <2>1, AddsTypes
  <2>3. \A d \in Clients \ {c} : client'[d] = client[d]
    BY <1>5 DEF StartRequest, BorrowReserved, Register, OnReserve, ReservationGone, Release,
                RecycleReserved, OnRelease, GetReserved, StatementDone, TypeInv
  <2>4. client[c].pc # "running" /\ client'[c].pc # "running"
    BY <1>5 DEF StartRequest, BorrowReserved, Register, OnReserve, ReservationGone, Release,
                RecycleReserved, OnRelease, GetReserved, StatementDone, TypeInv, ClientType, Resting
  <2>5. UNCHANGED mgr /\ client'[c].gen \in {0, mgr.gen, client[c].gen}
    BY <1>5 DEF StartRequest, BorrowReserved, Register, OnReserve, ReservationGone, Release,
                RecycleReserved, OnRelease, GetReserved, StatementDone, TypeInv, ClientType, Resting
  <2>6. GenInv'
    BY <2>3, <2>5 DEF GenInv
  <2> QED
    BY <1>3, <2>2, <2>3, <2>4, <2>6
<1>6. ASSUME \/ ExpiryStep \/ CollectTimedOut \/ \E k \in Killers : KillStep(k)
             \/ \E target \in [serving : BOOLEAN, primary : BOOLEAN] : OnStateChange(target)
             \/ DrainStep \/ CloseForReopen \/ Open
      PROVE  RegularInv' /\ GenInv'
  <2>1. UNCHANGED client
    BY <1>6, ZenonT(60) DEF ExpiryStep, GoesQuiet, ExpiryPasses, CollectTimedOut, KillStep, KillConnection,
                            TerminateBackend, KillRelease, KillOnRelease,
                OnStateChange, DrainStep, EnterReservedDrain, ReservedDrained, EnterDrain, Drained,
                GraceExpires, KilledAll, FinishChange, CloseForReopen, Open
  <2>2. UNCHANGED lent \/ Adds(0, -1) \/ lent' = [lent EXCEPT !.zeroOpen = FALSE, !.reservedZeroOpen = FALSE]
    BY <1>6, ZenonT(60) DEF ExpiryStep, GoesQuiet, ExpiryPasses, CollectTimedOut, KillStep, KillConnection,
                            TerminateBackend, KillRelease, KillOnRelease,
                OnStateChange, DrainStep, EnterReservedDrain, ReservedDrained, EnterDrain, Drained,
                GraceExpires, KilledAll, FinishChange, CloseForReopen, Open
  <2>3. lent'.regular = lent.regular
    BY <1>4, <2>2, AddsTypes DEF TypeInv, LentType
  <2>4. mgr'.gen = 0 => mgr.gen = 0
    <3>1. ASSUME NEW k \in Killers, KillOnRelease(k) PROVE mgr'.gen = mgr.gen
      <4>1. PICK e : mgr' = [mgr EXCEPT !.early = e]
        BY <3>1, Zenon DEF KillOnRelease
      <4> QED
        BY <4>1 DEF TypeInv
    <3>2. ASSUME Open PROVE mgr'.gen = mgr.gen + 1 /\ mgr.gen \in Nat
      <4>1. PICK n : n = mgr.gen + 1 /\ mgr' = [mgr EXCEPT !.open = TRUE, !.gen = n]
        BY <3>2, Zenon DEF Open
      <4> QED
        BY <4>1 DEF TypeInv
    <3>3. ASSUME CloseForReopen PROVE mgr'.gen = mgr.gen
      BY <3>3, SMTT(30) DEF CloseForReopen, TypeInv
    <3>4. \/ UNCHANGED mgr \/ CloseForReopen \/ Open \/ \E k \in Killers : KillOnRelease(k)
      BY <1>6, ZenonT(60) DEF ExpiryStep, GoesQuiet, ExpiryPasses, CollectTimedOut, KillStep, KillConnection,
                              TerminateBackend, KillRelease,
                  OnStateChange, DrainStep, EnterReservedDrain, ReservedDrained, EnterDrain, Drained,
                  GraceExpires, KilledAll, FinishChange
    <3>5. CASE Open
      BY <3>2, <3>5
    <3> QED
      BY <3>1, <3>3, <3>4, <3>5
  <2> QED
    BY <1>3, <2>1, <2>3, <2>4, SMTT(30) DEF GenInv
<1> QED
  BY <1>1, <1>2, <1>5, <1>6 DEF Next, RequestStep

\* Every step keeps the counts.
LEMMA NextCounts ==
    ASSUME TypeInv, TypeInv', IdInv, CountInv, GenInv, Next, UNCHANGED scenario
    PROVE  CountInv'
<1>1. ASSUME ExpiryStep \/ CollectTimedOut \/ DrainStep
             \/ \E target \in [serving : BOOLEAN, primary : BOOLEAN] : OnStateChange(target)
      PROVE  CountInv'
  <2>1. UNCHANGED <<client, rc, active, lent, mgr>>
    BY <1>1 DEF ExpiryStep, GoesQuiet, ExpiryPasses, CollectTimedOut, OnStateChange, DrainStep,
                EnterReservedDrain, ReservedDrained,
                EnterDrain, Drained, GraceExpires, KilledAll, FinishChange
  <2>2. \A k \in Killers : kill'[k].pc = kill[k].pc /\ kill'[k].id = kill[k].id
    <3>1. CASE ExpiryStep \/ CollectTimedOut \/ GraceExpires
      BY <3>1 DEF ExpiryStep, GoesQuiet, ExpiryPasses, CollectTimedOut, GraceExpires, TypeInv, KillType
    <3>2. CASE UNCHANGED kill
      BY <3>2
    <3> QED
      BY <1>1, <3>1, <3>2 DEF OnStateChange, DrainStep, EnterReservedDrain, ReservedDrained,
                              EnterDrain, Drained, KilledAll, FinishChange
  <2> QED
    BY <2>1, <2>2, ChangeCounts
<1>2. ASSUME CloseForReopen PROVE CountInv'
  <2>1. ~mgr'.open
    BY <1>2 DEF CloseForReopen, TypeInv
  <2> QED
    BY <2>1 DEF CountInv, Exact
<1>3. ASSUME Open PROVE CountInv'
  <2>1. PICK n : n = mgr.gen + 1 /\ mgr' = [mgr EXCEPT !.open = TRUE, !.gen = n]
    BY <1>3, Zenon DEF Open
  <2>2. mgr'.gen = mgr.gen + 1 /\ mgr.gen \in Nat
    BY <2>1 DEF TypeInv
  <2>3. mgr'.gen # 0
    BY <2>2
  <2> QED
    BY <2>3 DEF CountInv, Exact
<1> QED
  BY <1>1, <1>2, <1>3, QuietRequests, BorrowCounts, RegisterCounts, OnReserveCounts, ReleaseCounts,
     RecycleCounts, OnReleaseCounts, KillCounts, KillOnReleaseCounts
  DEF Next, RequestStep, KillStep
-----------------------------------------------------------------------------
(* A graceful drain.                                                       *)

NoneOld == \A c \in Clients : ~OldRun(c) /\ ~OldHold(c)

\* Counts that add up to zero mean that nothing is lent.
LEMMA ZeroMeansNoneOld ==
    TypeInv /\ IdInv /\ CountInv /\ RegularInv =>
      (Exact /\ ~mgr.early /\ lent.regular + lent.reserved = 0 => NoneOld)
<1> SUFFICES ASSUME TypeInv, IdInv, CountInv, RegularInv, Exact, ~mgr.early,
                    lent.regular + lent.reserved = 0
             PROVE  NoneOld
  OBVIOUS
<1>1. Uncounted \subseteq Owed
  BY DEF Uncounted, Owed, Awaits, CountInv
<1>2. Cardinality(Uncounted) <= Cardinality(Owed)
      /\ (Cardinality(Owed) = Cardinality(Uncounted) => Owed = Uncounted)
  BY <1>1, CountedFinite, FS_Subset
<1>3. /\ lent.reserved \in Int /\ lent.regular = Cardinality(Running)
      /\ lent.reserved + Cardinality(Uncounted) = Cardinality(Owed)
  BY DEF TypeInv, LentType, RegularInv, CountInv
<1>4. Cardinality(Running) = 0 /\ Cardinality(Owed) = Cardinality(Uncounted)
  BY <1>2, <1>3, CountedFinite
<1>5. Running = {}
  BY <1>4, CountedFinite, FS_EmptySet
<1>6. ASSUME NEW c \in Clients, OldHold(c) PROVE FALSE
  <2>1. client[c].id \in Owed /\ HasId(c)
    BY <1>6 DEF OldHold, Owed, Owes, TypeInv, HasId
  <2>2. Awaits(client[c].id)
    BY <1>2, <1>4, <2>1 DEF Uncounted
  <2> QED
    BY <1>6, <2>1, <2>2 DEF Awaits, OldHold, IdInv, Distinct, HasId
<1> QED
  BY <1>5, <1>6 DEF NoneOld, OldRun, Running

\* The same of the state after a step.
LEMMA ZeroMeansNoneOldNext ==
    (TypeInv /\ IdInv /\ CountInv /\ RegularInv)' =>
      (Exact /\ ~mgr.early /\ lent.regular + lent.reserved = 0 => NoneOld)'
BY ZeroMeansNoneOld, PTL

\* Until the counts are put out of step, a drain that has been woken, or has found
\* nothing to wait for, has outlasted what was lent when it began.
DrainInv ==
    Exact /\ ~mgr.early /\ (\/ srv.pc = "finish" /\ srv.outcome = "graceful"
                            \/ srv.pc = "drain" /\ srv.woken)
      => NoneOld

\* Every step keeps what a graceful drain has achieved.
LEMMA NextDrain ==
    ASSUME TypeInv, IdInv, ForcedInv, CountInv, RegularInv, DrainInv, TypeInv', IdInv', CountInv', RegularInv',
           Next, UNCHANGED scenario
    PROVE  DrainInv'
<1>1. (Exact' /\ ~mgr'.early /\ lent'.regular + lent'.reserved = 0) => NoneOld'
  BY ZeroMeansNoneOldNext
<1>2. ASSUME NothingAges PROVE NoneOld => NoneOld'
  BY <1>2 DEF NothingAges, NoneOld
<1>3. ASSUME NEW a \in Int, NEW b \in Int, Adds(a, b), NothingAges, Exact' => Exact, mgr.early => mgr'.early
      PROVE  DrainInv'
  <2>1. /\ srv'.pc = srv.pc /\ srv'.outcome = srv.outcome
        /\ srv'.woken => \/ srv.woken \/ srv.pc = "reservedDrain"
                         \/ lent'.regular + lent'.reserved = 0
    BY <1>3, AddsTypes
  <2> QED
    BY <1>1, <1>2, <1>3, <2>1 DEF DrainInv
<1>4. ASSUME NEW c \in Clients,
             \/ \E kind \in {"single", "reserve"}, leaderBound \in BOOLEAN : StartRequest(c, kind, leaderBound)
             \/ RequestStep(c) \/ GetReserved(c) \/ StatementDone(c)
      PROVE  DrainInv'
  <2>1. NothingAges
    BY <1>4, RequestsStayYoung
  <2>2. UNCHANGED mgr
    BY <1>4 DEF StartRequest, RequestStep, GetReserved, StatementDone, BorrowRegular, RecycleRegular,
                BorrowReserved, Register, OnReserve, ReservationGone, Release, RecycleReserved, OnRelease
  <2>3. UNCHANGED srv \/ Adds(1, 0) \/ Adds(-1, 0) \/ Adds(0, 1) \/ Adds(0, -1)
    BY <1>4 DEF StartRequest, RequestStep, GetReserved, StatementDone, BorrowRegular, RecycleRegular,
                BorrowReserved, Register, OnReserve, ReservationGone, Release, RecycleReserved, OnRelease
  <2>4. -1 \in Int /\ 0 \in Int /\ 1 \in Int /\ (Exact' <=> Exact) /\ (mgr.early <=> mgr'.early)
    BY <2>2 DEF Exact
  <2>5. CASE UNCHANGED srv
    BY <1>2, <2>1, <2>4, <2>5 DEF DrainInv
  <2> QED
    BY <1>3, <2>1, <2>3, <2>4, <2>5
<1>5. ASSUME ExpiryStep \/ CollectTimedOut \/ (\E k \in Killers : KillStep(k)) \/ CloseForReopen \/ Open
      PROVE  DrainInv'
  <2>1. NothingAges
    BY <1>5, KillsStayYoung
  <2>2. ASSUME NEW k \in Killers, KillOnRelease(k) PROVE DrainInv'
    <3>1. Adds(0, -1) /\ 0 \in Int /\ -1 \in Int
      BY <2>2 DEF KillOnRelease
    <3>2. PICK e \in BOOLEAN : mgr' = [mgr EXCEPT !.early = e] /\ (mgr.early => e)
      BY <2>2, Zenon DEF KillOnRelease
    <3>3. mgr'.open = mgr.open /\ mgr'.gen = mgr.gen /\ mgr'.early = e
      BY <3>2 DEF TypeInv
    <3>4. (Exact' => Exact) /\ (mgr.early => mgr'.early)
      BY <3>2, <3>3 DEF Exact
    <3> QED
      BY <1>3, <2>1, <3>1, <3>4
  <2>3. ASSUME CloseForReopen PROVE ~mgr'.open
    BY <2>3 DEF CloseForReopen, TypeInv
  <2>4. ASSUME Open PROVE mgr'.gen # 0
    <3>1. PICK n : n = mgr.gen + 1 /\ mgr' = [mgr EXCEPT !.open = TRUE, !.gen = n]
      BY <2>4, Zenon DEF Open
    <3>2. mgr'.gen = mgr.gen + 1 /\ mgr.gen \in Nat
      BY <3>1 DEF TypeInv
    <3> QED
      BY <3>2
  <2>5. ASSUME ExpiryStep \/ CollectTimedOut \/ \E k \in Killers : KillConnection(k) \/ TerminateBackend(k) \/ KillRelease(k)
        PROVE  DrainInv'
    <3>1. UNCHANGED <<srv, mgr>>
      BY <2>5 DEF ExpiryStep, GoesQuiet, ExpiryPasses, CollectTimedOut, KillConnection, TerminateBackend,
                  KillRelease
    <3>2. (Exact' <=> Exact) /\ (mgr.early <=> mgr'.early)
      BY <3>1 DEF Exact
    <3> QED
      BY <1>2, <2>1, <3>1, <3>2, SMTT(30) DEF DrainInv
  <2> QED
    BY <1>5, <2>2, <2>3, <2>4, <2>5 DEF KillStep, DrainInv, Exact
<1>6. ASSUME NEW target \in [serving : BOOLEAN, primary : BOOLEAN], OnStateChange(target)
      PROVE  DrainInv'
  <2>1. srv.pc = "idle"
    BY <1>6 DEF OnStateChange
  <2>2. PICK p, n :
          \/ srv' = [srv EXCEPT !.serving = TRUE, !.primary = p, !.phase = "none",
                                !.target = target, !.changes = n]
          \/ srv' = [srv EXCEPT !.phase = "reserved", !.pc = "enterReserved",
                                !.target = target, !.changes = n]
    BY <1>6, Zenon DEF OnStateChange
  <2>3. srv'.pc \in {"idle", "enterReserved"}
    BY <2>1, <2>2, ZenonT(60) DEF TypeInv, SrvType
  <2> QED
    BY <2>3 DEF DrainInv
<1>7. ASSUME DrainStep PROVE DrainInv'
  <2> SUFFICES ASSUME Exact', ~mgr'.early,
                      \/ srv'.pc = "finish" /\ srv'.outcome = "graceful"
                      \/ srv'.pc = "drain" /\ srv'.woken
               PROVE  NoneOld'
    BY DEF DrainInv
  <2>1. /\ NothingAges /\ UNCHANGED <<client, active, lent, mgr>>
        /\ \/ srv'.pc \in {"reservedDrain", "enterDrain", "idle"}
           \/ /\ srv.pc = "enterDrain" /\ srv'.pc = "drain"
              /\ lent.regular + lent.reserved # 0 /\ (srv'.woken <=> ~lent.zeroOpen)
           \/ /\ srv'.pc = "finish" /\ srv'.outcome = "graceful"
              /\ \/ srv.pc = "enterDrain" /\ lent.regular + lent.reserved = 0
                 \/ srv.pc = "drain" /\ srv.woken
           \/ srv'.pc = "killAll" /\ kill'["drain"].ids = active /\ srv'.outcome = "forceClose"
           \/ srv.pc = "killAll" /\ srv'.pc = "finish" /\ kill["drain"].ids = {} /\ srv'.outcome = srv.outcome
    BY <1>7, DrainSteps
  <2>2. Exact /\ ~mgr.early
    BY <2>1 DEF Exact
  <2>3. lent.zeroOpen <=> lent.regular + lent.reserved # 0
    BY <2>2 DEF CountInv
  <2>4. srv.pc = "killAll" => srv.outcome = "forceClose"
    BY DEF ForcedInv
  <2> QED
    BY <1>1, <1>2, <2>1, <2>2, <2>3, <2>4 DEF DrainInv
<1> QED
  BY <1>4, <1>5, <1>6, <1>7 DEF Next
-----------------------------------------------------------------------------
(* The theorems.                                                           *)

ServingInv == TypeInv /\ IdInv /\ ForcedInv /\ GenInv /\ RegularInv /\ CountInv /\ DrainInv

\* The initial state satisfies the inductive invariant.
LEMMA InitInv == Init => ServingInv
<1> SUFFICES ASSUME Init PROVE ServingInv
  OBVIOUS
<1>1. TypeInv /\ IdInv
  BY InitTypes, InitIds
<1>2. ForcedInv /\ GenInv /\ DrainInv
  BY DEF Init, ForcedInv, GenInv, DrainInv, Resting
<1>3. Running = {} /\ Uncounted = {} /\ Owed = {}
  BY DEF Init, Running, Uncounted, Owed, Awaits, Owes, Releasing, Killing, Resting
<1>4. Cardinality({}) = 0
  BY FS_EmptySet
<1>5. lent.regular = 0 /\ lent.reserved = 0 /\ lent.zeroOpen = FALSE
  BY DEF Init
<1>6. RegularInv
  BY <1>3, <1>4, <1>5 DEF RegularInv
<1>7. \A c \in Clients : client[c].pc = "idle"
  BY DEF Init, Resting
<1>8. CountInv
  BY <1>3, <1>4, <1>5, <1>7 DEF CountInv
<1> QED
  BY <1>1, <1>2, <1>6, <1>8 DEF ServingInv

\* Every step, and a step in which nothing happens, keeps it.
LEMMA StepInv ==
    ServingInv /\ [Next /\ UNCHANGED scenario]_<<vars, scenario>> => ServingInv'
<1> SUFFICES ASSUME ServingInv, [Next /\ UNCHANGED scenario]_<<vars, scenario>> PROVE ServingInv'
  OBVIOUS
<1>1. CASE Next /\ UNCHANGED scenario
  <2>1. TypeInv' /\ IdInv'
    BY <1>1, NextIds DEF ServingInv
  <2>2. ForcedInv' /\ RegularInv' /\ GenInv' /\ CountInv'
    BY <1>1, <2>1, NextForced, NextRegular, NextCounts DEF ServingInv
  <2> QED
    BY <1>1, <2>1, <2>2, NextDrain DEF ServingInv
<1>2. CASE UNCHANGED <<vars, scenario>>
  <2>1. TypeInv' /\ IdInv' /\ ForcedInv' /\ GenInv'
    BY <1>2, SMTT(30) DEF ServingInv, vars, TypeInv, IdInv, ForcedInv, GenInv, Numbered, Distinct, KillInv,
                ReleaseInv, HasId, Taken, Killing, Releasing, OldHold, Ids, ClientType, KillType
  <2>2. Owed' = Owed /\ Uncounted' = Uncounted /\ Running' = Running
    BY <1>2 DEF vars, Owed, Uncounted, Running, Owes, Awaits, Releasing, Killing, Ids
  <2>3. RegularInv'
    BY <1>2, <2>2 DEF ServingInv, vars, RegularInv
  <2>4. CountInv'
    BY <1>2, <2>1, <2>2, ChangeCounts DEF ServingInv, vars
  <2>5. DrainInv'
    BY <1>2 DEF ServingInv, vars, DrainInv, Exact, NoneOld, OldRun, OldHold
  <2> QED
    BY <2>1, <2>3, <2>4, <2>5 DEF ServingInv
<1> QED
  BY <1>1, <1>2

\* A forced drain leaves no transaction that was counted when it gave up
\* (CloseReservedConnections and KillAll in the pool manager), for any number of
\* sessions, state changes and reopens.
THEOREM ForcedDrainKillsAll == Spec => []ForcedDrainLeavesNone
<1>1. ServingInv => ForcedDrainLeavesNone
  BY DEF ServingInv, ForcedInv, ForcedDrainLeavesNone, OldHold
<1> QED
  BY <1>1, InitInv, StepInv, PTL DEF Spec

\* Until a reopen, what the manager counts as reserved is what the reserved pool
\* knows whenever nothing is in between (Manager.reservedCount and Pool.active),
\* whoever comes first of the session, the drain and the idle killer.
THEOREM ReservationsAlwaysCounted == Spec => []ReservationsCounted
<1>1. ServingInv => ReservationsCounted
  <2> SUFFICES ASSUME ServingInv, mgr.open, mgr.gen = 0,
                      \A c \in Clients : client[c].pc \notin {"registered", "recycle", "onRelease"},
                      \A k \in Killers : kill[k].pc = "none"
               PROVE  lent.reserved = Cardinality(active)
    BY DEF ReservationsCounted
  <2>1. Uncounted = {}
    BY DEF Uncounted, Awaits
  <2>2. Owed = active
    BY DEF ServingInv, TypeInv, Owed, Owes, Releasing, Killing
  <2>3. lent.reserved \in Int /\ lent.reserved + Cardinality(Uncounted) = Cardinality(Owed)
    BY DEF ServingInv, CountInv, Exact, TypeInv, LentType
  <2>4. Cardinality({}) = 0
    BY FS_EmptySet
  <2>5. lent.reserved + 0 = Cardinality(active)
    BY <2>1, <2>2, <2>3, <2>4
  <2> QED
    BY <2>3, <2>5
<1> QED
  BY <1>1, InitInv, StepInv, PTL DEF Spec

\* A drain that ends gracefully has outlasted every connection that was lent when
\* it began (WaitForReservedDrain, WaitForDrain and OnStateChange), as long as no
\* reopen and no kill of an uncounted reservation has put the counts out of step.
THEOREM DrainOutlastsLent == Spec => []OutlastsLent
<1>1. ServingInv => OutlastsLent
  <2> SUFFICES ASSUME ServingInv, srv.pc = "finish", srv.outcome = "graceful", mgr.gen = 0, ~mgr.early,
                      NEW c \in Clients, client[c].since # srv.changes
               PROVE  /\ client[c].pc # "running"
                      /\ ~(client[c].pc \in {"held", "using"} /\ client[c].id \in active)
    BY DEF OutlastsLent
  <2>1. mgr.open
    BY DEF ServingInv, ForcedInv
  <2>2. NoneOld
    BY <2>1 DEF ServingInv, DrainInv, Exact
  <2> QED
    BY <2>2 DEF NoneOld, OldRun, OldHold
<1> QED
  BY <1>1, InitInv, StepInv, PTL DEF Spec

=============================================================================
