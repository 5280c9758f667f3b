------------------------------ MODULE ConnPool ------------------------------
(***************************************************************************)
(* The pooler's connection pool (pools/connpool).  Every counter is an     *)
(* atomic that goroutines read, decide on and compare-and-swap; the stacks *)
(* and the waitlist have a mutex each, and the waitlist's length is read   *)
(* without it.  Clients, the expire, idle and scrub workers and the caller *)
(* of SetCapacity and Close interleave between any two of those accesses.  *)
(*                                                                         *)
(* A connection is the settings applied to it: connections with the same   *)
(* settings are interchangeable.  Connections the idle worker has expired  *)
(* stay linked in the code's stack until a pop skips them; here they leave *)
(* the stack at once.  A scan over several stacks is one step: a           *)
(* connection pushed behind it might as well have come after it.           *)
(***************************************************************************)
EXTENDS Integers, Sequences, FiniteSets, SequencesExt

CONSTANTS
  Clients,      \* goroutines that get and recycle connections
  Settings,     \* settings other than none
  MaxIdleCount, \* Config.MaxIdleCount, 0 for no limit
  MaxAge,       \* how often a waiter is skipped over before it is served: maxAge
  Scenarios     \* the configurations and bounds to explore

Clean == "clean"
Admin == "admin"
Workers == {"expire", "idle", "scrub"}
Agents == Clients \cup Workers \cup {Admin}
Labels == Settings \cup {Clean}

\* A scenario is the capacity the pool opens with (Config.Capacity) together with
\* what may happen: who asks for which settings, how often and to what SetCapacity
\* changes the capacity, which workers tick, whether dials and settings fail.
ScenarioType ==
  [wants : [Clients -> SUBSET Labels], maxCapacity : Nat \ {0}, capacities : SUBSET Nat,
   maxChanges : Nat, workers : SUBSET Workers, dialsFail : BOOLEAN]

ASSUME ConnPoolAssumption ==
  /\ MaxIdleCount \in Nat /\ MaxAge \in Nat
  /\ Clean \notin Settings /\ Clients \cap (Workers \cup {Admin}) = {}
  /\ IsFiniteSet(Clients)
  /\ Scenarios \subseteq ScenarioType

VARIABLES
  capacity,     \* how many connections the pool may open
  idleCount,    \* how many may be idle
  active,       \* slots taken: open, or being dialled
  borrowed,     \* lent out
  requested,    \* Gets in progress or lent out
  idle,         \* how many connections each stack holds
  list,         \* the waitlist
  open,         \* the close channel is open
  g,            \* the goroutines: where each is, and its local variables
  changes,      \* calls of SetCapacity so far
  scenario      \* the scenario of this behaviour, which never changes

vars == <<capacity, idleCount, active, borrowed, requested, idle, list, open, g, changes>>

counters == <<capacity, idleCount, active, borrowed, requested>>

\* A goroutine's locals: the connection it holds, the settings a client wants and
\* how often it was skipped over as a waiter, the value of active its
\* compare-and-swap expects, the connections a worker still has to deal with.
Resting(a) ==
  [at |-> IF a \in Clients THEN "out" ELSE "rest", conn |-> Clean, want |-> Clean,
   age |-> 0, loaded |-> 0, left |-> 0]

\* setIdleCount
IdleCountFor(n) == IF MaxIdleCount = 0 \/ MaxIdleCount > n THEN n ELSE MaxIdleCount

\* NewPool, Open
Init ==
  /\ scenario \in Scenarios
  /\ capacity = scenario.maxCapacity /\ idleCount = IdleCountFor(scenario.maxCapacity)
  /\ active = 0 /\ borrowed = 0 /\ requested = 0
  /\ idle = [s \in Labels |-> 0]
  /\ list = <<>> /\ open = TRUE /\ changes = 0
  /\ g = [a \in Agents |-> Resting(a)]

At(a, step) == g[a].at = step
Goto(a, step) == g' = [g EXCEPT ![a].at = step]
Rest(a) == g' = [g EXCEPT ![a] = Resting(a)]

\* pool.pop of one stack, into goroutine a.
Take(a, s, step) ==
  /\ idle[s] > 0
  /\ idle' = [idle EXCEPT ![s] = @ - 1]
  /\ g' = [g EXCEPT ![a].conn = s, ![a].at = step]

(***************************************************************************)
(* Get and GetWithSettings                                                 *)
(***************************************************************************)

\* A closed pool refuses at once; otherwise the demand is counted first.
Get(c, s) ==
  /\ s \in scenario.wants[c]
  /\ At(c, "out") /\ capacity # 0
  /\ requested' = requested + 1
  /\ g' = [g EXCEPT ![c].want = s, ![c].at = "pop"]
  /\ UNCHANGED <<capacity, idleCount, active, borrowed, idle, list, open, changes>>

\* The stack of the wanted settings, then the clean stack.
Pop(c) ==
  /\ At(c, "pop")
  /\ LET s == g[c].want
     IN  \/ Take(c, s, "prepare")
         \/ idle[s] = 0 /\ Take(c, Clean, "prepare")
         \/ idle[s] = 0 /\ idle[Clean] = 0 /\ Goto(c, "new") /\ UNCHANGED idle
  /\ UNCHANGED <<counters, list, open, changes>>

\* SetCapacity ends with setIdleCount, whichever way it ends.
EndsChange(a) == idleCount' = IF a = Admin THEN IdleCountFor(capacity) ELSE idleCount

\* getNew: the loads.  Without a free slot a client looks further, a worker stops,
\* and SetCapacity is done.
GetNewLoad(a) ==
  /\ At(a, "new")
  /\ \/ /\ active < capacity
        /\ g' = [g EXCEPT ![a].loaded = active, ![a].at = "cas"]
        /\ UNCHANGED idleCount
     \/ /\ active >= capacity
        /\ IF a \in Clients THEN Goto(a, "scan") ELSE Rest(a)
        /\ EndsChange(a)
  /\ UNCHANGED <<capacity, active, borrowed, requested, idle, list, open, changes>>

\* Mutant: the slot is taken without comparing.
GetNewCasBlind(a) ==
  /\ At(a, "cas")
  /\ active' = active + 1 /\ g' = [g EXCEPT ![a].loaded = 0, ![a].at = "dial"]
  /\ UNCHANGED <<capacity, idleCount, borrowed, requested, idle, list, open, changes>>

\* getNew: the compare-and-swap.
GetNewCas(a) ==
  /\ At(a, "cas")
  /\ LET won == active = g[a].loaded
     IN  /\ active' = active + (IF won THEN 1 ELSE 0)
         /\ g' = [g EXCEPT ![a].loaded = 0, ![a].at = IF won THEN "dial" ELSE "new"]
  /\ UNCHANGED <<capacity, idleCount, borrowed, requested, idle, list, open, changes>>

\* connNew succeeds: a client goes on with it, the others return it to the pool.
Dial(a) ==
  /\ At(a, "dial")
  /\ Goto(a, IF a \in Clients THEN "prepare" ELSE IF a = Admin THEN "handoff" ELSE "over")
  /\ UNCHANGED <<counters, idle, list, open, changes>>

\* Mutant: the slot stays taken.
DialFailsKeepingSlot(a) ==
  /\ scenario.dialsFail /\ At(a, "dial")
  /\ requested' = requested - (IF a \in Clients THEN 1 ELSE 0)
  /\ EndsChange(a) /\ Rest(a)
  /\ UNCHANGED <<capacity, active, borrowed, idle, list, open, changes>>

\* connNew fails: closedConn, and the caller gives up.
DialFails(a) ==
  /\ scenario.dialsFail /\ At(a, "dial")
  /\ active' = active - 1
  /\ requested' = requested - (IF a \in Clients THEN 1 ELSE 0)
  /\ EndsChange(a) /\ Rest(a)
  /\ UNCHANGED <<capacity, borrowed, idle, list, open, changes>>

\* getFromSettingsStack
GetFromSettingsStack(c) ==
  /\ At(c, "scan")
  /\ \/ \E s \in Settings : Take(c, s, "prepare")
     \/ (\A s \in Settings : idle[s] = 0) /\ Goto(c, "enqueue") /\ UNCHANGED idle
  /\ UNCHANGED <<counters, list, open, changes>>

\* waitForConn: join the waitlist, unless the pool has been closed meanwhile.
WaitForConn(c) ==
  /\ At(c, "enqueue")
  /\ \/ open /\ list' = Append(list, c) /\ Goto(c, "wait") /\ UNCHANGED requested
     \/ ~open /\ requested' = requested - 1 /\ Rest(c) /\ UNCHANGED list
  /\ UNCHANGED <<capacity, idleCount, active, borrowed, idle, open, changes>>

\* A waiter still on the list leaves it.
LeaveList(c) ==
  /\ At(c, "wait")
  /\ \E i \in DOMAIN list : list[i] = c /\ list' = RemoveAt(list, i)
  /\ requested' = requested - 1 /\ Rest(c)
  /\ UNCHANGED <<capacity, idleCount, active, borrowed, idle, open, changes>>

\* Its context is done, or the close channel is closed.
WaitCancelled(c) == LeaveList(c)

\* Mutant: a waiter listens to its context only.
WaitClosedNever(c) == FALSE /\ LeaveList(c)

WaitClosed(c) == ~open /\ LeaveList(c)

\* The wanted settings are on the connection, or get applied to it, on a fresh
\* backend if need be.
Prepared(c) ==
  /\ At(c, "prepare")
  /\ borrowed' = borrowed + 1
  /\ g' = [g EXCEPT ![c].conn = g[c].want, ![c].at = "using"]
  /\ UNCHANGED <<capacity, idleCount, active, requested, idle, list, open, changes>>

\* They cannot be: the connection is closed and its slot given up.
PrepareFails(c) ==
  /\ scenario.dialsFail /\ At(c, "prepare") /\ {g[c].want, g[c].conn} # {Clean}
  /\ active' = active - 1 /\ requested' = requested - 1
  /\ Rest(c)
  /\ UNCHANGED <<capacity, idleCount, borrowed, idle, list, open, changes>>

(***************************************************************************)
(* Recycle                                                                 *)
(***************************************************************************)

\* put: with the connection, or without one when it is closed, tainted or past its
\* lifetime and has to be dialled again.
Put(c, s, step) ==
  /\ At(c, "using")
  /\ borrowed' = borrowed - 1 /\ requested' = requested - 1
  /\ g' = [g EXCEPT ![c] = [Resting(c) EXCEPT !.conn = s, !.at = step]]
  /\ UNCHANGED <<capacity, idleCount, active, idle, list, open, changes>>

Recycle(c) == Put(c, g[c].conn, "over")
RecycleDiscarded(c) == Put(c, Clean, "redial")

Redial(c) ==
  /\ At(c, "redial")
  /\ Goto(c, "over")
  /\ UNCHANGED <<counters, idle, list, open, changes>>

RedialFails(c) ==
  /\ scenario.dialsFail /\ At(c, "redial")
  /\ active' = active - 1
  /\ Rest(c)
  /\ UNCHANGED <<capacity, idleCount, borrowed, requested, idle, list, open, changes>>

\* What a goroutine does once rid of its connection: the expire worker goes on
\* while its connections find waiters, the idle worker until it has replaced all
\* it closed, SetCapacity while there are waiters.
AfterReturn(a, handedOver) ==
  LET more == g[a].left > 1
  IN  [Resting(a) EXCEPT
         !.left = IF more /\ (a = "expire" => handedOver) THEN g[a].left - 1 ELSE 0,
         !.at = CASE a = "expire" /\ more /\ handedOver -> "popany"
                  [] a = "idle" /\ more -> "new"
                  [] a = Admin /\ handedOver -> "satisfy"
                  [] OTHER -> @]

Released(a, handedOver) == g' = [g EXCEPT ![a] = AfterReturn(a, handedOver)]

\* closeOnOverCapacity: the loads, and the compare-and-swap.
OverCapacityLoad(a) ==
  /\ At(a, "over")
  /\ g' = [g EXCEPT ![a].loaded = IF active <= capacity THEN 0 ELSE active,
                    ![a].at = IF active <= capacity THEN "handoff" ELSE "overcas"]
  /\ UNCHANGED <<counters, idle, list, open, changes>>

CloseOnOverCapacity(a) ==
  /\ At(a, "overcas")
  /\ \/ active = g[a].loaded /\ active' = active - 1 /\ Released(a, FALSE)
     \/ active # g[a].loaded /\ Goto(a, "over") /\ UNCHANGED active
  /\ UNCHANGED <<capacity, idleCount, borrowed, requested, idle, list, open, changes>>

\* waitlist.tryReturnConn: the length is read without the lock.
TryReturnConn(a) ==
  /\ At(a, "handoff")
  /\ Goto(a, IF list # <<>> THEN "slow" ELSE "stack")
  /\ UNCHANGED <<counters, idle, list, open, changes>>

\* Mutant: nobody is ever old enough.
MatchingAgeless(s) == {i \in DOMAIN list : g[list[i]].want = s}

\* The first waiter that was skipped too often or wants these settings; the front
\* when there is none, and then every waiter counts as skipped.
Matching(s) == {i \in DOMAIN list : g[list[i]].age > MaxAge \/ g[list[i]].want = s}
Target(s) == IF Matching(s) = {} THEN 1 ELSE Min(Matching(s))
Skipped(s) == {list[i] : i \in {j \in DOMAIN list : Matching(s) = {} \/ j < Target(s)}}

\* tryReturnConnSlow: the connection goes to the waiter, whose receive cannot fail.
TryReturnConnSlow(a) ==
  /\ At(a, "slow")
  /\ \/ /\ list # <<>>
        /\ LET s == g[a].conn
               c == list[Target(s)]
           IN  /\ list' = RemoveAt(list, Target(s))
               /\ g' = [b \in Agents |->
                          CASE b = c -> [g[c] EXCEPT !.conn = s, !.age = 0, !.at = "prepare"]
                            [] b = a -> AfterReturn(a, TRUE)
                            [] b \in Skipped(s) \ {c} -> [g[b] EXCEPT !.age = @ + 1]
                            [] OTHER -> g[b]]
     \/ list = <<>> /\ Goto(a, "stack") /\ UNCHANGED list
  /\ UNCHANGED <<counters, idle, open, changes>>

\* The rest of returnConnAt: over the idle limit the connection is closed,
\* otherwise it goes onto its stack.  SetCapacity pushes without the check.
ReturnToStack(a) ==
  /\ At(a, "stack")
  /\ IF a # Admin /\ active - borrowed > idleCount
       THEN active' = active - 1 /\ UNCHANGED idle
       ELSE idle' = [idle EXCEPT ![g[a].conn] = @ + 1] /\ UNCHANGED active
  /\ EndsChange(a) /\ Released(a, FALSE)
  /\ UNCHANGED <<capacity, borrowed, requested, list, open, changes>>

(***************************************************************************)
(* The background workers                                                  *)
(***************************************************************************)

\* maybeStarvingCount: the waiters nobody has skipped.
MaybeStarvingCount == Cardinality({i \in DOMAIN list : g[list[i]].age = 0})

\* Mutant: no worker looks after waiters that a returned connection has missed.
ExpireTickNever == FALSE /\ UNCHANGED vars

ExpireTick ==
  /\ "expire" \in scenario.workers /\ open /\ At("expire", "rest") /\ MaybeStarvingCount > 0
  /\ g' = [g EXCEPT !["expire"].left = MaybeStarvingCount, !["expire"].at = "popany"]
  /\ UNCHANGED <<counters, idle, list, open, changes>>

\* tryReturnAnyConn: the clean stack, then the others.
TryReturnAnyConn ==
  /\ "expire" \in scenario.workers /\ At("expire", "popany")
  /\ \/ Take("expire", Clean, "over")
     \/ idle[Clean] = 0 /\ \E s \in Settings : Take("expire", s, "over")
     \/ (\A s \in Labels : idle[s] = 0) /\ Rest("expire") /\ UNCHANGED idle
  /\ UNCHANGED <<counters, list, open, changes>>

\* closeIdleResources: n connections of a stack have been idle for too long.  They
\* are closed, and replaced once the stack's mutex is free again.
CloseIdleResources(s, n) ==
  /\ "idle" \in scenario.workers /\ open /\ capacity # 0 /\ At("idle", "rest")
  /\ n \in 1..idle[s]
  /\ idle' = [idle EXCEPT ![s] = @ - n]
  /\ active' = active - n
  /\ g' = [g EXCEPT !["idle"].left = n, !["idle"].at = "new"]
  /\ UNCHANGED <<capacity, idleCount, borrowed, requested, list, open, changes>>

\* scrubOne takes a connection like a borrower,
ScrubTake(s) ==
  /\ "scrub" \in scenario.workers /\ open /\ capacity # 0 /\ At("scrub", "rest")
  /\ Take("scrub", s, "probe")
  /\ borrowed' = borrowed + 1
  /\ UNCHANGED <<capacity, idleCount, active, requested, list, open, changes>>

\* returns it when the checkers agree with its label,
ScrubClean ==
  /\ "scrub" \in scenario.workers /\ At("scrub", "probe")
  /\ borrowed' = borrowed - 1
  /\ Goto("scrub", "over")
  /\ UNCHANGED <<capacity, idleCount, active, requested, idle, list, open, changes>>

\* and otherwise closes and replaces it.
ScrubDiverged ==
  /\ "scrub" \in scenario.workers /\ At("scrub", "probe")
  /\ borrowed' = borrowed - 1 /\ active' = active - 1
  /\ g' = [g EXCEPT !["scrub"].conn = Clean, !["scrub"].at = "new"]
  /\ UNCHANGED <<capacity, idleCount, requested, idle, list, open, changes>>

(***************************************************************************)
(* SetCapacity and Close, which exclude each other (capacityMu)            *)
(***************************************************************************)

\* left is 1 while Close runs.
SetCapacity(n) ==
  /\ At(Admin, "rest") /\ open /\ changes < scenario.maxChanges /\ n # capacity
  /\ changes' = changes + 1
  /\ capacity' = n
  /\ Goto(Admin, IF n > capacity THEN "satisfy" ELSE "shrink")
  /\ UNCHANGED <<idleCount, active, borrowed, requested, idle, list, open>>

\* satisfyWaitersOnCapacityIncrease
SatisfyWaiters ==
  /\ At(Admin, "satisfy")
  /\ IF list = <<>> THEN Rest(Admin) /\ EndsChange(Admin)
                    ELSE Goto(Admin, "new") /\ UNCHANGED idleCount
  /\ UNCHANGED <<capacity, active, borrowed, requested, idle, list, open, changes>>

\* Idle connections are closed, the settings stacks' first, until the rest fits
\* or is lent out.
ShrinkPop ==
  /\ At(Admin, "shrink") /\ active > capacity
  /\ \/ \E s \in Settings : Take(Admin, s, "closeidle")
     \/ (\A s \in Settings : idle[s] = 0) /\ Take(Admin, Clean, "closeidle")
  /\ UNCHANGED <<counters, list, open, changes>>

ShrinkClose ==
  /\ At(Admin, "closeidle")
  /\ active' = active - 1
  /\ g' = [g EXCEPT ![Admin].conn = Clean, ![Admin].at = "shrink"]
  /\ UNCHANGED <<capacity, idleCount, borrowed, requested, idle, list, open, changes>>

ShrinkDone ==
  /\ At(Admin, "shrink")
  /\ active <= capacity \/ \A s \in Labels : idle[s] = 0
  /\ IF g[Admin].left = 1 THEN Goto(Admin, "drain") ELSE Rest(Admin)
  /\ EndsChange(Admin)
  /\ UNCHANGED <<capacity, active, borrowed, requested, idle, list, open, changes>>

\* CloseWithContext; at capacity 0 it takes the pool for closed.
Close ==
  /\ At(Admin, "rest") /\ open
  /\ IF capacity = 0 THEN Goto(Admin, "closed") /\ UNCHANGED capacity
     ELSE /\ capacity' = 0
          /\ g' = [g EXCEPT ![Admin].left = 1, ![Admin].at = "shrink"]
  /\ UNCHANGED <<idleCount, active, borrowed, requested, idle, list, open, changes>>

\* waitForDrain, then the close channel; a timeout goes on regardless.
Drained ==
  /\ At(Admin, "drain") /\ active = 0
  /\ open' = FALSE /\ Goto(Admin, "join")
  /\ UNCHANGED <<counters, idle, list, changes>>

DrainTimesOut ==
  /\ At(Admin, "drain") /\ active > 0
  /\ open' = FALSE /\ Goto(Admin, "joinlate")
  /\ UNCHANGED <<counters, idle, list, changes>>

\* workers.Wait
WorkersWait ==
  /\ g[Admin].at \in {"join", "joinlate"}
  /\ \A w \in Workers : At(w, "rest")
  /\ Goto(Admin, IF At(Admin, "join") THEN "closed" ELSE "closedlate")
  /\ UNCHANGED <<counters, idle, list, open, changes>>

\* The steps a goroutine takes by itself once it has started.
Step(a) ==
  \/ GetNewLoad(a) \/ GetNewCas(a) \/ Dial(a) \/ DialFails(a)
  \/ OverCapacityLoad(a) \/ CloseOnOverCapacity(a)
  \/ TryReturnConn(a) \/ TryReturnConnSlow(a) \/ ReturnToStack(a)

ClientStep(c) ==
  \/ Pop(c) \/ GetFromSettingsStack(c) \/ WaitForConn(c) \/ WaitClosed(c)
  \/ Prepared(c) \/ PrepareFails(c) \/ Redial(c) \/ RedialFails(c)

ExpireStep == ExpireTick \/ TryReturnAnyConn
ScrubStep == ScrubClean \/ ScrubDiverged

AdminStep ==
  \/ SatisfyWaiters \/ ShrinkPop \/ ShrinkClose \/ ShrinkDone
  \/ Drained \/ DrainTimesOut \/ WorkersWait

Next ==
  \/ \E a \in Agents : Step(a)
  \/ \E c \in Clients :
       \/ ClientStep(c) \/ WaitCancelled(c) \/ Recycle(c) \/ RecycleDiscarded(c)
       \/ \E s \in Labels : Get(c, s)
  \/ ExpireStep \/ ScrubStep
  \/ \E s \in Labels : ScrubTake(s) \/ \E n \in 1..idle[s] : CloseIdleResources(s, n)
  \/ AdminStep \/ Close \/ \E n \in scenario.capacities : SetCapacity(n)

Spec == Init /\ [][Next /\ UNCHANGED scenario]_<<vars, scenario>>

\* Goroutines are scheduled and workers tick; nothing makes a client return its
\* connection or give up waiting.
FairSpec ==
  /\ Spec
  /\ \A c \in Clients : WF_vars(Step(c) \/ ClientStep(c))
  /\ WF_vars(Step(Admin) \/ AdminStep)
  /\ WF_vars(Step("expire") \/ ExpireStep)
  /\ WF_vars(Step("idle"))
  /\ WF_vars(Step("scrub") \/ ScrubStep)

(***************************************************************************)
(* Properties                                                              *)
(***************************************************************************)

\* Where a goroutine holds a slot, and where a client's request is counted.
HoldsSlot == {"dial", "prepare", "using", "redial", "over", "overcas", "handoff", "slow",
              "stack", "probe", "closeidle"}
InProgress == {"pop", "new", "cas", "dial", "scan", "enqueue", "wait", "prepare", "using"}

Count(as, steps) == Cardinality({a \in as : g[a].at \in steps})

\* The connections on the stacks, by their stack and their place in it.
IdleConns == UNION {{s} \X (1..idle[s]) : s \in Labels}

\* Every variable keeps its type, and the waitlist holds the waiters, each once.
PoolTypeOK ==
  /\ capacity \in Nat /\ idleCount \in Nat /\ idle \in [Labels -> Nat]
  /\ open \in BOOLEAN /\ changes \in 0..scenario.maxChanges
  /\ \A a \in Agents : g[a].age \in 0..(MaxAge + 1) /\ g[a].conn \in Labels
  /\ IsInjective(list) /\ Range(list) = {c \in Clients : At(c, "wait")}

\* No slot leaks and none is given away twice: active counts the idle connections
\* and the ones some goroutine holds, borrowed the ones lent to clients and to the
\* scrubber, requested the clients that want or have one (put, getNew, closedConn,
\* closeOnOverCapacity, closeOnIdleLimitReached).
CountersMatch ==
  /\ active = Cardinality(IdleConns) + Count(Agents, HoldsSlot)
  /\ borrowed = Count(Agents, {"using", "probe"})
  /\ requested = Count(Clients, InProgress)

\* The pool never opens more connections than the largest capacity it was given,
\* whichever capacity a racing getNew has read.
ActiveWithinCapacity ==
  \E n \in scenario.capacities \cup {scenario.maxCapacity} : active \in 0..n

\* An idle connection does not stay idle while a client waits that nobody has
\* skipped over, whether or not other clients return theirs (open's expire worker).
IdleReachesWaiter ==
  \A c \in Clients :
    ("expire" \in scenario.workers /\ At(c, "wait") /\ g[c].age = 0 /\ \E s \in Labels : idle[s] > 0)
      ~> (~At(c, "wait") \/ g[c].age > 0 \/ \A s \in Labels : idle[s] = 0)

\* A closed pool keeps nobody waiting.
CloseWakesWaiters == g[Admin].at \in {"closed", "closedlate"} ~> list = <<>>

-----------------------------------------------------------------------------
(* What comments and docs say and the code does not do.  None of these     *)
(* holds: see "Observations" in the README.                               *)

\* Nothing is under way: clients hold connections, wait, or are elsewhere.
Quiescent == \A a \in Agents : g[a].at \in {"out", "rest", "wait", "using"}

\* get waits when "we've lent out connections to other clients": a client that
\* waits, waits for somebody's connection.
WaiterHasLender == Quiescent /\ list # <<>> => \E c \in Clients : At(c, "using")

\* "If there's waiters in the queue and connections in the stack, it means we could
\* be starving them": the expire worker notices.
StarvingNoticed ==
  Quiescent /\ list # <<>> /\ (\E s \in Labels : idle[s] > 0) => MaybeStarvingCount > 0

\* Close does not return, other than by its timeout, before every connection has
\* been returned and closed.
CloseDrains == At(Admin, "closed") => active = 0
=============================================================================
