---------------------------- MODULE ConnPoolProofs ----------------------------
(***************************************************************************)
(* The connection pool's counters, for any number of clients, settings and *)
(* connections: no slot leaks, none is given up twice, and the pool stays  *)
(* within the largest capacity it was ever given.                          *)
(***************************************************************************)
EXTENDS ConnPool, FiniteSetTheorems, SequenceTheorems, WellFoundedInduction, TLAPS

\* A waiter taken off the list: the others keep their places.
LEMMA RemoveAtElements ==
  ASSUME NEW R, NEW q \in Seq(R), NEW i \in DOMAIN q, IsInjective(q)
  PROVE  /\ RemoveAt(q, i) \in Seq(R) /\ IsInjective(RemoveAt(q, i))
         /\ Range(RemoveAt(q, i)) = Range(q) \ {q[i]}
<1> DEFINE n == Len(q)
           front == SubSeq(q, 1, i - 1)
           back == SubSeq(q, i + 1, n)
           t == front \o back
<1>1. n \in Nat /\ i \in 1..n /\ DOMAIN q = 1..n /\ \A j \in 1..n : q[j] \in R
  OBVIOUS
<1>2. /\ front \in Seq(R) /\ Len(front) = i - 1 /\ \A j \in 1..(i - 1) : front[j] = q[j]
  <2>1. \A j \in 1..(i - 1) : q[j] \in R
    BY <1>1
  <2>2. i - 1 \in Int /\ 1 \in Int /\ (1 <= i - 1 => (i - 1) - 1 + 1 = i - 1) /\ (~(1 <= i - 1) => i - 1 = 0)
    BY <1>1
  <2>3. /\ SubSeq(q, 1, i - 1) \in Seq(R)
        /\ Len(SubSeq(q, 1, i - 1)) = IF 1 <= i - 1 THEN (i - 1) - 1 + 1 ELSE 0
        /\ \A j \in 1..((i - 1) - 1 + 1) : SubSeq(q, 1, i - 1)[j] = q[1 + j - 1]
    BY <2>1, <2>2, SubSeqProperties
  <2>4. \A j \in 1..(i - 1) : front[j] = q[j]
    BY <1>1, <2>3
  <2> QED
    BY <2>2, <2>3, <2>4
<1>3. /\ back \in Seq(R) /\ Len(back) = n - i /\ \A j \in 1..(n - i) : back[j] = q[i + j]
  <2>1. \A j \in (i + 1)..n : q[j] \in R
    BY <1>1
  <2>2. i + 1 \in Int /\ n \in Int /\ (i + 1 <= n => n - (i + 1) + 1 = n - i) /\ (~(i + 1 <= n) => n - i = 0)
    BY <1>1
  <2>3. /\ SubSeq(q, i + 1, n) \in Seq(R)
        /\ Len(SubSeq(q, i + 1, n)) = IF i + 1 <= n THEN n - (i + 1) + 1 ELSE 0
        /\ \A j \in 1..(n - (i + 1) + 1) : SubSeq(q, i + 1, n)[j] = q[(i + 1) + j - 1]
    BY <2>1, <2>2, SubSeqProperties
  <2>4. \A j \in 1..(n - i) : back[j] = q[i + j]
    BY <1>1, <2>3
  <2> QED
    BY <2>2, <2>3, <2>4
<1> HIDE DEF front, back
<1>4. /\ t \in Seq(R) /\ Len(t) = n - 1
      /\ \A j \in 1..(n - 1) : t[j] = IF j < i THEN q[j] ELSE q[j + 1]
  <2>1. /\ t \in Seq(R) /\ Len(t) = Len(front) + Len(back)
        /\ \A j \in 1..(Len(front) + Len(back)) :
              t[j] = IF j <= Len(front) THEN front[j] ELSE back[j - Len(front)]
    BY <1>2, <1>3, ConcatProperties
  <2>2. Len(front) + Len(back) = n - 1
    BY <1>1, <1>2, <1>3
  <2> HIDE DEF t, n
  <2>3. ASSUME NEW j \in 1..(n - 1) PROVE t[j] = IF j < i THEN q[j] ELSE q[j + 1]
    <3>1. CASE j < i
      BY <1>1, <1>2, <2>1, <2>2, <3>1
    <3>2. CASE ~(j < i)
      <4>1. j - (i - 1) \in 1..(n - i) /\ i + (j - (i - 1)) = j + 1 /\ ~(j <= i - 1)
        BY <1>1, <3>2
      <4> QED
        BY <1>2, <1>3, <2>1, <2>2, <3>2, <4>1, SMTT(30)
    <3> QED
      BY <3>1, <3>2
  <2> QED
    BY <2>1, <2>2, <2>3
<1>5. RemoveAt(q, i) = t /\ DOMAIN t = 1..(n - 1)
  <2>1. DOMAIN t = 1..Len(t)
    BY <1>4
  <2> QED
    BY <1>4, <2>1 DEF RemoveAt, front, back
<1> HIDE DEF t, n
<1>6. IsInjective(t)
  <2> SUFFICES ASSUME NEW j \in DOMAIN t, NEW k \in DOMAIN t, t[j] = t[k] PROVE j = k
    BY DEF IsInjective
  <2> DEFINE J == IF j < i THEN j ELSE j + 1
             K == IF k < i THEN k ELSE k + 1
  <2>1. J \in DOMAIN q /\ K \in DOMAIN q /\ q[J] = q[K]
    BY <1>1, <1>4, <1>5
  <2>2. J = K
    BY <2>1 DEF IsInjective
  <2> QED
    BY <1>1, <1>5, <2>2
<1>7. Range(t) = Range(q) \ {q[i]}
  <2>1. ASSUME NEW x \in Range(t) PROVE x \in Range(q) \ {q[i]}
    <3>1. PICK j \in 1..(n - 1) : x = t[j]
      BY <1>5 DEF Range
    <3> DEFINE J == IF j < i THEN j ELSE j + 1
    <3>2. J \in DOMAIN q /\ J # i /\ x = q[J]
      BY <1>1, <1>4, <3>1
    <3> HIDE DEF J
    <3> QED
      BY <3>2 DEF Range, IsInjective
  <2>2. ASSUME NEW x \in Range(q) \ {q[i]} PROVE x \in Range(t)
    <3>1. PICK j \in DOMAIN q : x = q[j]
      BY DEF Range
    <3> DEFINE J == IF j < i THEN j ELSE j - 1
    <3>2. J \in DOMAIN t /\ x = t[J]
      BY <1>1, <1>4, <1>5, <3>1
    <3> HIDE DEF J
    <3> QED
      BY <3>2 DEF Range
  <2> QED
    BY <2>1, <2>2
<1> QED
  BY <1>4, <1>5, <1>6, <1>7

\* Min is what its name says on a non-empty set of naturals.
LEMMA MinOfNaturals ==
  ASSUME NEW T \in SUBSET Nat, T # {}
  PROVE  Min(T) \in T /\ \A y \in T : Min(T) <= y
<1>1. PICK x \in T : \A y \in T : ~(<<y, x>> \in OpToRel(<, Nat))
  BY NatLessThanWellFounded, WFMin
<1>2. \A y \in T : ~(y < x)
  BY <1>1 DEF OpToRel
<1>3. \A y \in T : x <= y
  BY <1>2
<1> QED
  BY <1>3 DEF Min

\* A set that differs from a finite one in whether it holds a is finite, and its
\* size says which.
LEMMA OneMember ==
  ASSUME NEW S, NEW T, NEW a, IsFiniteSet(S), S \ {a} = T \ {a}
  PROVE  /\ IsFiniteSet(T) /\ Cardinality(S) \in Nat /\ Cardinality(T) \in Nat
         /\ (a \in S <=> a \in T) => Cardinality(T) = Cardinality(S)
         /\ a \notin S /\ a \in T => Cardinality(T) = Cardinality(S) + 1
         /\ a \in S /\ a \notin T => Cardinality(T) = Cardinality(S) - 1
<1>1. CASE a \in S <=> a \in T
  <2>1. S = T
    BY <1>1
  <2> QED
    BY <1>1, <2>1, FS_CardinalityType
<1>2. CASE a \notin S /\ a \in T
  <2>1. T = S \cup {a}
    BY <1>2
  <2> QED
    BY <1>2, <2>1, FS_AddElement, FS_CardinalityType
<1>3. CASE a \in S /\ a \notin T
  <2>1. T = S \ {a}
    BY <1>3
  <2> QED
    BY <1>3, <2>1, FS_RemoveElement, FS_CardinalityType
<1> QED
  BY <1>1, <1>2, <1>3
-----------------------------------------------------------------------------
\* The stacks.

\* n connections leave a stack.
LEMMA IdleTaken ==
  ASSUME idle \in [Labels -> Nat], IsFiniteSet(IdleConns), NEW s \in Labels, NEW n \in 1..idle[s],
         idle' = [idle EXCEPT ![s] = @ - n]
  PROVE  /\ IsFiniteSet(IdleConns') /\ idle' \in [Labels -> Nat]
         /\ Cardinality(IdleConns) \in Nat /\ Cardinality(IdleConns') \in Nat
         /\ Cardinality(IdleConns') = Cardinality(IdleConns) - n
<1> DEFINE top == (idle[s] - n + 1)..idle[s]
           D == {s} \X top
<1>1. /\ idle[s] \in Nat /\ n \in Nat /\ idle[s] - n \in Nat /\ idle'[s] = idle[s] - n
      /\ \A t \in Labels \ {s} : idle'[t] = idle[t]
      /\ idle' \in [Labels -> Nat]
  OBVIOUS
<1>2. IsFiniteSet(top) /\ Cardinality(top) = n
  <2>1. idle[s] - n + 1 \in Int /\ idle[s] \in Int /\ ~(idle[s] - n + 1 > idle[s])
        /\ idle[s] - (idle[s] - n + 1) + 1 = n
    BY <1>1
  <2> QED
    BY <2>1, FS_Interval
<1>3. IsFiniteSet(D) /\ Cardinality(D) = n
  <2>1. IsFiniteSet({s}) /\ Cardinality({s}) = 1
    BY FS_Singleton
  <2>2. IsFiniteSet({s} \X top) /\ Cardinality({s} \X top) = Cardinality({s}) * Cardinality(top)
    BY <1>2, <2>1, FS_Product
  <2> QED
    BY <1>1, <1>2, <2>1, <2>2
<1>4. D \subseteq IdleConns
  <2> SUFFICES ASSUME NEW i \in top PROVE <<s, i>> \in IdleConns
    OBVIOUS
  <2>1. i \in 1..idle[s]
    BY <1>1
  <2> QED
    BY <2>1 DEF IdleConns
<1>5. IdleConns' = IdleConns \ D
  <2>1. ASSUME NEW t \in Labels, NEW i \in Int
        PROVE  <<t, i>> \in IdleConns' <=> <<t, i>> \in IdleConns /\ <<t, i>> \notin D
    <3>1. CASE t = s
      <4>1. i \in 1..idle'[s] <=> i \in 1..idle[s] /\ i \notin top
        BY <1>1
      <4> QED
        BY <3>1, <4>1 DEF IdleConns
    <3>2. CASE t # s
      BY <1>1, <3>2 DEF IdleConns
    <3> QED
      BY <3>1, <3>2
  <2>2. \A x \in IdleConns : \E t \in Labels, i \in Int : x = <<t, i>>
    BY DEF IdleConns
  <2>3. \A x \in IdleConns' : \E t \in Labels, i \in Int : x = <<t, i>>
    BY DEF IdleConns
  <2> QED
    BY <2>1, <2>2, <2>3
<1> HIDE DEF D, top
<1>6. PICK left \in SUBSET IdleConns : left = IdleConns \ D /\ IdleConns' = left
  BY <1>5
<1>7. IdleConns \cap D = D
  BY <1>4
<1>8. IsFiniteSet(IdleConns \ D) /\ Cardinality(IdleConns \ D) = Cardinality(IdleConns) - n
  BY <1>3, <1>7, FS_Difference, ZenonT(60)
<1>9. Cardinality(IdleConns) \in Nat /\ Cardinality(IdleConns \ D) \in Nat
  BY <1>8, FS_CardinalityType
<1> QED
  BY <1>1, <1>6, <1>8, <1>9

\* A connection goes onto a stack.
LEMMA IdlePushed ==
  ASSUME idle \in [Labels -> Nat], IsFiniteSet(IdleConns), NEW s \in Labels,
         idle' = [idle EXCEPT ![s] = @ + 1]
  PROVE  /\ IsFiniteSet(IdleConns') /\ idle' \in [Labels -> Nat]
         /\ Cardinality(IdleConns) \in Nat /\ Cardinality(IdleConns') \in Nat
         /\ Cardinality(IdleConns') = Cardinality(IdleConns) + 1
<1> DEFINE x == <<s, idle[s] + 1>>
<1>1. /\ idle[s] \in Nat /\ idle'[s] = idle[s] + 1 /\ \A t \in Labels \ {s} : idle'[t] = idle[t]
      /\ idle' \in [Labels -> Nat]
  OBVIOUS
<1>2. IdleConns' = IdleConns \cup {x}
  <2>1. ASSUME NEW t \in Labels, NEW i \in Int
        PROVE  <<t, i>> \in IdleConns' <=> <<t, i>> \in IdleConns \/ <<t, i>> = x
    <3>1. CASE t = s
      <4>1. i \in 1..idle'[s] <=> i \in 1..idle[s] \/ i = idle[s] + 1
        BY <1>1
      <4> QED
        BY <3>1, <4>1 DEF IdleConns
    <3>2. CASE t # s
      BY <1>1, <3>2 DEF IdleConns
    <3> QED
      BY <3>1, <3>2
  <2>2. \A y \in IdleConns : \E t \in Labels, i \in Int : y = <<t, i>>
    BY DEF IdleConns
  <2>3. \A y \in IdleConns' : \E t \in Labels, i \in Int : y = <<t, i>>
    BY DEF IdleConns
  <2>4. \E t \in Labels, i \in Int : x = <<t, i>>
    BY <1>1
  <2> QED
    BY <2>1, <2>2, <2>3, <2>4
<1>3. x \notin IdleConns
  BY <1>1 DEF IdleConns
<1> HIDE DEF x
<1>4. IdleConns \ {x} = IdleConns' \ {x} /\ x \in IdleConns'
  BY <1>2
<1> QED
  BY <1>1, <1>3, <1>4, OneMember
-----------------------------------------------------------------------------
\* The counters.

\* Where a goroutine can be, and its local variables.
Steps == HoldsSlot \cup InProgress \cup
         {"out", "rest", "popany", "satisfy", "shrink", "drain", "join", "joinlate", "closed",
          "closedlate"}
Locals == [at : Steps, conn : Labels, want : Labels, age : 0..(MaxAge + 1), loaded : Int,
           left : Int]

\* Goroutines, stacks and the counters that follow them.
CountInv ==
  /\ g \in [Agents -> Locals] /\ idle \in [Labels -> Nat] /\ IsFiniteSet(IdleConns)
  /\ CountersMatch

Lent == {"using", "probe"}
In(step, steps) == IF step \in steps THEN 1 ELSE 0

\* Goroutine a moves and the counters follow it; di connections reach the stacks. It
\* goes for a slot only where there is a free one.
Moves(a, di) ==
  /\ g' \in [Agents -> Locals] /\ \A b \in Agents \ {a} : g'[b] = g[b]
  /\ idle' \in [Labels -> Nat] /\ IsFiniteSet(IdleConns')
  /\ Cardinality(IdleConns') = Cardinality(IdleConns) + di
  /\ active' = active + di + In(g'[a].at, HoldsSlot) - In(g[a].at, HoldsSlot)
  /\ borrowed' = borrowed + In(g'[a].at, Lent) - In(g[a].at, Lent)
  /\ requested' = IF a \in Clients
                  THEN requested + In(g'[a].at, InProgress) - In(g[a].at, InProgress)
                  ELSE requested
  /\ g'[a].at = "cas" => active < capacity /\ g'[a].loaded = active

\* There are finitely many goroutines.
LEMMA AgentsFinite == IsFiniteSet(Agents) /\ \A T \in SUBSET Agents : IsFiniteSet(T)
<1>1. IsFiniteSet(Clients \cup {"expire"} \cup {"idle"} \cup {"scrub"} \cup {Admin})
  BY FS_AddElement, ConnPoolAssumption
<1>2. Agents = Clients \cup {"expire"} \cup {"idle"} \cup {"scrub"} \cup {Admin}
  BY DEF Agents, Workers
<1> QED
  BY <1>1, <1>2, FS_Subset

\* One goroutine's step changes a count by its own coming or going.
LEMMA CountMoves ==
  ASSUME NEW as \in SUBSET Agents, NEW steps, NEW a \in Agents,
         \A b \in Agents \ {a} : g'[b] = g[b]
  PROVE  /\ Count(as, steps) \in Nat /\ Count(as, steps)' \in Nat
         /\ a \in as => Count(as, steps)' = Count(as, steps) + In(g'[a].at, steps) - In(g[a].at, steps)
         /\ a \notin as => Count(as, steps)' = Count(as, steps)
<1> DEFINE S == {b \in as : g[b].at \in steps}
           T == {b \in as : g'[b].at \in steps}
<1>1. IsFiniteSet(S)
  BY AgentsFinite
<1>2. S \ {a} = T \ {a}
  <2>1. \A b \in as \ {a} : g'[b].at = g[b].at
    OBVIOUS
  <2> QED
    BY <2>1
<1>3. /\ a \in S <=> a \in as /\ g[a].at \in steps
      /\ a \in T <=> a \in as /\ g'[a].at \in steps
  OBVIOUS
<1>4. Count(as, steps) = Cardinality(S) /\ Count(as, steps)' = Cardinality(T)
  BY DEF Count
<1> HIDE DEF S, T
<1>5. /\ Cardinality(S) \in Nat /\ Cardinality(T) \in Nat
      /\ (a \in S <=> a \in T) => Cardinality(T) = Cardinality(S)
      /\ a \notin S /\ a \in T => Cardinality(T) = Cardinality(S) + 1
      /\ a \in S /\ a \notin T => Cardinality(T) = Cardinality(S) - 1
  BY <1>1, <1>2, OneMember
<1>6. CASE a \notin as
  BY <1>3, <1>4, <1>5, <1>6
<1>7. CASE a \in as
  <2>1. /\ In(g[a].at, steps) = IF a \in S THEN 1 ELSE 0
        /\ In(g'[a].at, steps) = IF a \in T THEN 1 ELSE 0
    BY <1>3, <1>7 DEF In
  <2>2. Cardinality(T) = Cardinality(S) + In(g'[a].at, steps) - In(g[a].at, steps)
    <3>1. CASE a \in S /\ a \in T
      BY <1>5, <2>1, <3>1
    <3>2. CASE a \in S /\ a \notin T
      BY <1>5, <2>1, <3>2
    <3>3. CASE a \notin S /\ a \in T
      BY <1>5, <2>1, <3>3
    <3>4. CASE a \notin S /\ a \notin T
      BY <1>5, <2>1, <3>4
    <3> QED
      BY <3>1, <3>2, <3>3, <3>4
  <2> QED
    BY <1>4, <1>5, <1>7, <2>2
<1> QED
  BY <1>6, <1>7

\* The counters match after a step that moves one goroutine.
LEMMA MovesCounted ==
  ASSUME CountInv, NEW a \in Agents, \E di \in Int : Moves(a, di)
  PROVE  CountInv'
<1>1. PICK di \in Int : Moves(a, di)
  OBVIOUS
<1>2. \A b \in Agents \ {a} : g'[b] = g[b]
  BY <1>1 DEF Moves
<1>3. Clients \in SUBSET Agents /\ Agents \in SUBSET Agents
  BY DEF Agents
<1>4. /\ Count(Agents, HoldsSlot) \in Nat
      /\ Count(Agents, HoldsSlot)'
           = Count(Agents, HoldsSlot) + In(g'[a].at, HoldsSlot) - In(g[a].at, HoldsSlot)
  BY <1>2, <1>3, CountMoves
<1>5. /\ Count(Agents, Lent) \in Nat
      /\ Count(Agents, Lent)' = Count(Agents, Lent) + In(g'[a].at, Lent) - In(g[a].at, Lent)
  BY <1>2, <1>3, CountMoves
<1>6. /\ Count(Clients, InProgress) \in Nat
      /\ a \in Clients => Count(Clients, InProgress)'
           = Count(Clients, InProgress) + In(g'[a].at, InProgress) - In(g[a].at, InProgress)
      /\ a \notin Clients => Count(Clients, InProgress)' = Count(Clients, InProgress)
  BY <1>2, <1>3, CountMoves
<1>7. Cardinality(IdleConns) \in Nat
  BY FS_CardinalityType DEF CountInv
<1>8. \A step, steps : In(step, steps) \in Int
  BY DEF In
<1>9. /\ active = Cardinality(IdleConns) + Count(Agents, HoldsSlot)
      /\ borrowed = Count(Agents, Lent) /\ requested = Count(Clients, InProgress)
  BY DEF CountInv, CountersMatch, Lent
<1>10. active' = Cardinality(IdleConns') + Count(Agents, HoldsSlot)'
  BY <1>1, <1>4, <1>7, <1>8, <1>9 DEF Moves
<1>11. borrowed' = Count(Agents, Lent)' /\ requested' = Count(Clients, InProgress)'
  BY <1>1, <1>5, <1>6, <1>9 DEF Moves
<1> QED
  BY <1>1, <1>10, <1>11 DEF CountInv, CountersMatch, Lent, Moves
\* The stacks are left alone.
LEMMA IdleKept ==
  ASSUME CountInv, UNCHANGED idle
  PROVE  /\ idle' \in [Labels -> Nat] /\ IsFiniteSet(IdleConns')
         /\ Cardinality(IdleConns') = Cardinality(IdleConns) + 0
<1>1. IdleConns' = IdleConns
  BY DEF IdleConns
<1>2. Cardinality(IdleConns) \in Nat
  BY FS_CardinalityType DEF CountInv
<1> QED
  BY <1>1, <1>2 DEF CountInv

\* The list stays the list of the waiting clients.
WaitersKept == UNCHANGED list /\ \A c \in Clients : g'[c].at = "wait" <=> g[c].at = "wait"

\* A goroutine that moves between two other steps leaves the waiters alone.
LEMMA WaitersLeft ==
  ASSUME NEW a \in Agents, \A b \in Agents \ {a} : g'[b] = g[b], UNCHANGED list,
         g[a].at # "wait", g'[a].at # "wait"
  PROVE  WaitersKept
BY DEF WaitersKept, Agents

\* The counters are numbers.
LEMMA CounterTypes == CountInv => active \in Nat /\ borrowed \in Nat /\ requested \in Nat
<1> SUFFICES ASSUME CountInv PROVE active \in Nat /\ borrowed \in Nat /\ requested \in Nat
  OBVIOUS
<1>1. Cardinality(IdleConns) \in Nat
  BY FS_CardinalityType DEF CountInv
<1>2. \A steps : IsFiniteSet({a \in Agents : g[a].at \in steps})
                 /\ IsFiniteSet({a \in Clients : g[a].at \in steps})
  BY AgentsFinite DEF Agents
<1>3. \A steps : Count(Agents, steps) \in Nat /\ Count(Clients, steps) \in Nat
  BY <1>2, FS_CardinalityType DEF Count
<1> QED
  BY <1>1, <1>3 DEF CountInv, CountersMatch

\* Where a goroutine rests.
LEMMA RestingType ==
  \A a \in Agents : Resting(a) \in Locals /\ Resting(a).at \in {"out", "rest"}
<1>1. 0 \in 0..(MaxAge + 1)
  BY ConnPoolAssumption
<1> QED
  BY <1>1 DEF Resting, Locals, Steps, Labels

\* Goroutine a moves to a step, with typed locals, and no other does.
Goes(a, step) ==
  /\ g' \in [Agents -> Locals] /\ g'[a].at = step /\ \A b \in Agents \ {a} : g'[b] = g[b]

\* The forms of a goroutine's step.
LEMMA Updates ==
  ASSUME g \in [Agents -> Locals], NEW a \in Agents, NEW step \in Steps
  PROVE  /\ g' = [g EXCEPT ![a].at = step] => Goes(a, step)
         /\ \A n \in Int : g' = [g EXCEPT ![a].loaded = n, ![a].at = step]
                         => Goes(a, step) /\ g'[a].loaded = n
         /\ \A n \in Int : g' = [g EXCEPT ![a].left = n, ![a].at = step] => Goes(a, step)
         /\ \A s \in Labels : g' = [g EXCEPT ![a].conn = s, ![a].at = step] => Goes(a, step)
         /\ \A s \in Labels : g' = [g EXCEPT ![a].want = s, ![a].at = step] => Goes(a, step)
         /\ \A r \in Locals : r.at = step /\ g' = [g EXCEPT ![a] = r] => Goes(a, step)
<1>1. ASSUME NEW r \in Locals, r.at = step, g' = [g EXCEPT ![a] = r] PROVE Goes(a, step) /\ g'[a] = r
  BY <1>1 DEF Goes
<1>2. ASSUME g' = [g EXCEPT ![a].at = step] PROVE Goes(a, step)
  <2>1. [g[a] EXCEPT !.at = step] \in Locals /\ [g[a] EXCEPT !.at = step].at = step
    BY DEF Locals
  <2> QED
    BY <1>1, <1>2, <2>1
<1>3. ASSUME NEW n \in Int, g' = [g EXCEPT ![a].loaded = n, ![a].at = step]
      PROVE  Goes(a, step) /\ g'[a].loaded = n
  <2> DEFINE r == [g[a] EXCEPT !.loaded = n, !.at = step]
  <2>1. r \in Locals /\ r.at = step /\ r.loaded = n
    BY DEF Locals
  <2>2. g' = [g EXCEPT ![a] = r]
    BY <1>3
  <2> QED
    BY <1>1, <2>1, <2>2
<1>4. ASSUME NEW n \in Int, g' = [g EXCEPT ![a].left = n, ![a].at = step] PROVE Goes(a, step)
  <2> DEFINE r == [g[a] EXCEPT !.left = n, !.at = step]
  <2>1. r \in Locals /\ r.at = step
    BY DEF Locals
  <2>2. g' = [g EXCEPT ![a] = r]
    BY <1>4
  <2> QED
    BY <1>1, <2>1, <2>2
<1>5. ASSUME NEW s \in Labels, g' = [g EXCEPT ![a].conn = s, ![a].at = step] PROVE Goes(a, step)
  <2> DEFINE r == [g[a] EXCEPT !.conn = s, !.at = step]
  <2>1. r \in Locals /\ r.at = step
    BY DEF Locals
  <2>2. g' = [g EXCEPT ![a] = r]
    BY <1>5
  <2> QED
    BY <1>1, <2>1, <2>2
<1>6. ASSUME NEW s \in Labels, g' = [g EXCEPT ![a].want = s, ![a].at = step] PROVE Goes(a, step)
  <2> DEFINE r == [g[a] EXCEPT !.want = s, !.at = step]
  <2>1. r \in Locals /\ r.at = step
    BY DEF Locals
  <2>2. g' = [g EXCEPT ![a] = r]
    BY <1>6
  <2> QED
    BY <1>1, <2>1, <2>2
<1> QED
  BY <1>1, <1>2, <1>3, <1>4, <1>5, <1>6
\* A step that leaves the stacks alone: the counters must follow the goroutine.
LEMMA StacksKept ==
  ASSUME CountInv, NEW a \in Agents, NEW from, NEW to, g[a].at = from, Goes(a, to),
         UNCHANGED <<idle, list>>, from # "wait", to # "wait",
         to = "cas" => active < capacity /\ g'[a].loaded = active,
         active' = active + In(to, HoldsSlot) - In(from, HoldsSlot),
         borrowed' = borrowed + In(to, Lent) - In(from, Lent),
         requested' = IF a \in Clients THEN requested + In(to, InProgress) - In(from, InProgress)
                                       ELSE requested
  PROVE  Moves(a, 0) /\ WaitersKept
<1>1. active \in Nat /\ \A x, xs : In(x, xs) \in Int
  BY CounterTypes DEF In
<1>2. active' = active + 0 + In(to, HoldsSlot) - In(from, HoldsSlot)
  BY <1>1
<1> QED
  BY <1>2, IdleKept, WaitersLeft DEF Moves, Goes

\* Steps between which the counters need not change.
LEMMA QuietStep ==
  ASSUME CountInv, NEW a \in Agents, NEW from, NEW to, g[a].at = from, Goes(a, to),
         UNCHANGED <<idle, list, active, borrowed, requested>>, from # "wait", to # "wait",
         to = "cas" => active < capacity /\ g'[a].loaded = active,
         from \in HoldsSlot <=> to \in HoldsSlot, from \in Lent <=> to \in Lent,
         a \in Clients => (from \in InProgress <=> to \in InProgress)
  PROVE  Moves(a, 0) /\ WaitersKept
<1>1. active \in Nat /\ borrowed \in Nat /\ requested \in Nat
  BY CounterTypes
<1>2. In(to, HoldsSlot) = In(from, HoldsSlot) /\ In(to, Lent) = In(from, Lent)
      /\ (a \in Clients => In(to, InProgress) = In(from, InProgress))
  BY DEF In
<1>3. \A x, xs : In(x, xs) \in Int
  BY DEF In
<1> QED
  BY <1>1, <1>2, <1>3, StacksKept

\* The two halves of getNew, and the dial.
LEMMA GetNewMoves ==
  ASSUME CountInv, NEW a \in Agents, GetNewLoad(a) \/ GetNewCas(a) \/ Dial(a) \/ DialFails(a)
  PROVE  Moves(a, 0) /\ WaitersKept
<1>1. UNCHANGED <<idle, list>> /\ active \in Nat /\ borrowed \in Nat /\ requested \in Nat
      /\ g \in [Agents -> Locals]
  BY CounterTypes DEF GetNewLoad, GetNewCas, Dial, DialFails, CountInv
<1>2. CASE GetNewLoad(a)
  <2>1. g[a].at = "new" /\ UNCHANGED <<active, borrowed, requested>>
    BY <1>2 DEF GetNewLoad, At
  <2>2. CASE active < capacity /\ g' = [g EXCEPT ![a].loaded = active, ![a].at = "cas"]
    <3>1. "cas" \in Steps /\ active \in Int
      BY <1>1 DEF Steps, InProgress
    <3>2. Goes(a, "cas") /\ g'[a].loaded = active
      BY <1>1, <2>2, <3>1, Updates
    <3> QED
      BY <1>1, <2>1, <2>2, <3>2, QuietStep DEF HoldsSlot, InProgress, Lent
  <2>3. CASE a \in Clients /\ Goto(a, "scan")
    <3>1. Goes(a, "scan")
      BY <1>1, <2>3, Updates DEF Steps, InProgress, Goto
    <3> QED
      BY <1>1, <2>1, <3>1, QuietStep DEF HoldsSlot, InProgress, Lent
  <2>4. CASE a \notin Clients /\ Rest(a)
    <3>1. Goes(a, Resting(a).at) /\ Resting(a).at \in {"out", "rest"}
      BY <1>1, <2>4, Updates, RestingType DEF Steps, Rest
    <3> QED
      BY <1>1, <2>1, <2>4, <3>1, QuietStep DEF HoldsSlot, InProgress, Lent
  <2> QED
    BY <1>2, <2>2, <2>3, <2>4 DEF GetNewLoad
<1>3. CASE GetNewCas(a)
  <2>1. g[a].at = "cas" /\ UNCHANGED <<borrowed, requested>> /\ 0 \in Int
    BY <1>3 DEF GetNewCas, At
  <2>2. CASE active = g[a].loaded
    <3>1. active' = active + 1 /\ g' = [g EXCEPT ![a].loaded = 0, ![a].at = "dial"]
      BY <1>3, <2>2 DEF GetNewCas
    <3>2. Goes(a, "dial")
      BY <1>1, <2>1, <3>1, Updates DEF Steps, InProgress
    <3> QED
      BY <1>1, <2>1, <3>1, <3>2, StacksKept DEF HoldsSlot, InProgress, Lent, In
  <2>3. CASE active # g[a].loaded
    <3>1. active' = active + 0 /\ g' = [g EXCEPT ![a].loaded = 0, ![a].at = "new"]
      BY <1>3, <2>3 DEF GetNewCas
    <3>2. Goes(a, "new")
      BY <1>1, <2>1, <3>1, Updates DEF Steps, InProgress
    <3> QED
      BY <1>1, <2>1, <3>1, <3>2, StacksKept DEF HoldsSlot, InProgress, Lent, In
  <2> QED
    BY <2>2, <2>3
<1>4. CASE Dial(a)
  <2> DEFINE to == IF a \in Clients THEN "prepare" ELSE IF a = Admin THEN "handoff" ELSE "over"
  <2>1. g[a].at = "dial" /\ UNCHANGED <<active, borrowed, requested>>
        /\ g' = [g EXCEPT ![a].at = to]
    BY <1>4 DEF Dial, At, Goto, counters
  <2>2. to \in {"prepare", "handoff", "over"} /\ (a \in Clients => to = "prepare")
    OBVIOUS
  <2> HIDE DEF to
  <2>3. Goes(a, to)
    BY <1>1, <2>1, <2>2, Updates DEF Steps, HoldsSlot
  <2> QED
    BY <1>1, <2>1, <2>2, <2>3, QuietStep DEF HoldsSlot, InProgress, Lent
<1>5. CASE DialFails(a)
  <2>1. g[a].at = "dial" /\ UNCHANGED <<borrowed>> /\ active' = active - 1
        /\ requested' = requested - (IF a \in Clients THEN 1 ELSE 0)
        /\ g' = [g EXCEPT ![a] = Resting(a)]
    BY <1>5 DEF DialFails, At, Rest
  <2>2. Goes(a, Resting(a).at) /\ Resting(a).at \in {"out", "rest"}
    BY <1>1, <2>1, Updates, RestingType DEF Steps
  <2> QED
    BY <1>1, <2>1, <2>2, StacksKept DEF HoldsSlot, InProgress, Lent, In
<1> QED
  BY <1>2, <1>3, <1>4, <1>5
\* What a goroutine does once rid of its connection.
LEMMA AfterReturnType ==
  ASSUME g \in [Agents -> Locals], NEW a \in Agents, NEW h \in BOOLEAN
  PROVE  /\ AfterReturn(a, h) \in Locals
         /\ AfterReturn(a, h).at \in {"out", "rest", "popany", "new", "satisfy"}
         /\ a \in Clients => AfterReturn(a, h).at = "out"
<1>1. /\ Resting(a) \in Locals /\ Resting(a).at \in {"out", "rest"}
      /\ a \in Clients => Resting(a).at = "out"
  BY RestingType DEF Resting
<1>2. g[a].left \in Int /\ (a \in Clients => a # "expire" /\ a # "idle" /\ a # Admin)
  BY ConnPoolAssumption DEF Locals, Workers
<1>3. PICK n \in Int, at \in {"out", "rest", "popany", "new", "satisfy"} :
        /\ a \in Clients => at = "out"
        /\ AfterReturn(a, h) = [Resting(a) EXCEPT !.left = n, !.at = at]
  <2>1. PICK n \in Int : n = IF g[a].left > 1 /\ (a = "expire" => h) THEN g[a].left - 1 ELSE 0
    BY <1>2
  <2>2. PICK at : at = CASE a = "expire" /\ g[a].left > 1 /\ h -> "popany"
                         [] a = "idle" /\ g[a].left > 1 -> "new"
                         [] a = Admin /\ h -> "satisfy"
                         [] OTHER -> Resting(a).at
    OBVIOUS
  <2>3. at \in {"out", "rest", "popany", "new", "satisfy"} /\ (a \in Clients => at = "out")
    BY <1>1, <1>2, <2>2
  <2>4. AfterReturn(a, h) = [Resting(a) EXCEPT !.left = n, !.at = at]
    BY <2>1, <2>2 DEF AfterReturn
  <2> QED
    BY <2>3, <2>4
<1>4. at \in Steps
  BY DEF Steps, InProgress
<1>5. /\ [Resting(a) EXCEPT !.left = n, !.at = at] \in Locals
      /\ [Resting(a) EXCEPT !.left = n, !.at = at].at = at
  BY <1>1, <1>4 DEF Locals
<1> QED
  BY <1>3, <1>5
\* A goroutine rid of its connection.
LEMMA ReleasedGoes ==
  ASSUME g \in [Agents -> Locals], NEW a \in Agents, NEW h \in BOOLEAN, Released(a, h)
  PROVE  \E to \in {"out", "rest", "popany", "new", "satisfy"} :
            Goes(a, to) /\ (a \in Clients => to = "out")
<1>1. /\ AfterReturn(a, h) \in Locals
      /\ AfterReturn(a, h).at \in {"out", "rest", "popany", "new", "satisfy"}
      /\ a \in Clients => AfterReturn(a, h).at = "out"
  BY AfterReturnType
<1>2. AfterReturn(a, h).at \in Steps
  BY <1>1 DEF Steps, InProgress
<1>3. Goes(a, AfterReturn(a, h).at)
  BY <1>1, <1>2, Updates DEF Released
<1> QED
  BY <1>1, <1>3

\* returnConnAt, short of handing the connection to a waiter.
LEMMA ReturnMoves ==
  ASSUME CountInv, NEW a \in Agents,
         \/ OverCapacityLoad(a) \/ CloseOnOverCapacity(a) \/ TryReturnConn(a)
         \/ ReturnToStack(a) \/ (TryReturnConnSlow(a) /\ list = <<>>)
  PROVE  (\E di \in Int : Moves(a, di)) /\ WaitersKept
<1>1. active \in Nat /\ borrowed \in Nat /\ requested \in Nat /\ g \in [Agents -> Locals]
      /\ FALSE \in BOOLEAN
  BY CounterTypes DEF CountInv
<1>2. CASE OverCapacityLoad(a)
  <2>1. g[a].at = "over" /\ UNCHANGED <<active, borrowed, requested, idle, list>>
    BY <1>2 DEF OverCapacityLoad, At, counters
  <2>2. PICK n \in Int, to \in {"handoff", "overcas"} :
          g' = [g EXCEPT ![a].loaded = n, ![a].at = to]
    <3>1. CASE active <= capacity
      <4>1. g' = [g EXCEPT ![a].loaded = 0, ![a].at = "handoff"] /\ 0 \in Int
        BY <1>2, <3>1 DEF OverCapacityLoad
      <4> QED
        BY <4>1
    <3>2. CASE ~(active <= capacity)
      <4>1. g' = [g EXCEPT ![a].loaded = active, ![a].at = "overcas"] /\ active \in Int
        BY <1>1, <1>2, <3>2 DEF OverCapacityLoad
      <4> QED
        BY <4>1
    <3> QED
      BY <3>1, <3>2
  <2>3. Goes(a, to)
    BY <1>1, <2>2, Updates DEF Steps, HoldsSlot
  <2>4. Moves(a, 0) /\ WaitersKept
    BY <2>1, <2>2, <2>3, QuietStep DEF HoldsSlot, InProgress, Lent
  <2> QED
    BY <2>4
<1>3. CASE CloseOnOverCapacity(a)
  <2>1. g[a].at = "overcas" /\ UNCHANGED <<borrowed, requested, idle, list>>
    BY <1>3 DEF CloseOnOverCapacity, At
  <2>2. CASE active' = active - 1 /\ Released(a, FALSE)
    <3>1. PICK to \in {"out", "rest", "popany", "new", "satisfy"} :
            Goes(a, to) /\ (a \in Clients => to = "out")
      BY <1>1, <2>2, ReleasedGoes
    <3>2. Moves(a, 0) /\ WaitersKept
      BY <1>1, <2>1, <2>2, <3>1, StacksKept DEF HoldsSlot, InProgress, Lent, In
    <3> QED
      BY <3>2
  <2>3. CASE Goto(a, "over") /\ UNCHANGED active
    <3>1. Goes(a, "over")
      BY <1>1, <2>3, Updates DEF Steps, HoldsSlot, Goto
    <3>2. Moves(a, 0) /\ WaitersKept
      BY <2>1, <2>3, <3>1, QuietStep DEF HoldsSlot, InProgress, Lent
    <3> QED
      BY <3>2
  <2> QED
    BY <1>3, <2>2, <2>3 DEF CloseOnOverCapacity
<1>4. CASE TryReturnConn(a)
  <2>1. g[a].at = "handoff" /\ UNCHANGED <<active, borrowed, requested, idle, list>>
    BY <1>4 DEF TryReturnConn, At, counters
  <2>2. PICK to \in {"slow", "stack"} : g' = [g EXCEPT ![a].at = to]
    BY <1>4 DEF TryReturnConn, Goto
  <2>3. Goes(a, to)
    BY <1>1, <2>2, Updates DEF Steps, HoldsSlot
  <2>4. Moves(a, 0) /\ WaitersKept
    BY <2>1, <2>2, <2>3, QuietStep DEF HoldsSlot, InProgress, Lent
  <2> QED
    BY <2>4
<1>5. CASE TryReturnConnSlow(a) /\ list = <<>>
  <2>1. g[a].at = "slow" /\ UNCHANGED <<active, borrowed, requested, idle, list>>
        /\ g' = [g EXCEPT ![a].at = "stack"]
    BY <1>5 DEF TryReturnConnSlow, At, counters, Goto
  <2>2. Goes(a, "stack")
    BY <1>1, <2>1, Updates DEF Steps, HoldsSlot
  <2>3. Moves(a, 0) /\ WaitersKept
    BY <2>1, <2>2, QuietStep DEF HoldsSlot, InProgress, Lent
  <2> QED
    BY <2>3
<1>6. CASE ReturnToStack(a)
  <2>1. g[a].at = "stack" /\ UNCHANGED <<borrowed, requested, list>> /\ Released(a, FALSE)
    BY <1>6 DEF ReturnToStack, At
  <2>2. PICK to \in {"out", "rest", "popany", "new", "satisfy"} :
          Goes(a, to) /\ (a \in Clients => to = "out")
    BY <1>1, <2>1, ReleasedGoes
  <2>3. CASE active' = active - 1 /\ UNCHANGED idle
    <3>1. Moves(a, 0) /\ WaitersKept
      BY <1>1, <2>1, <2>2, <2>3, StacksKept DEF HoldsSlot, InProgress, Lent, In
    <3> QED
      BY <3>1
  <2>4. CASE idle' = [idle EXCEPT ![g[a].conn] = @ + 1] /\ UNCHANGED active
    <3>1. g[a].conn \in Labels /\ idle \in [Labels -> Nat] /\ IsFiniteSet(IdleConns)
      BY DEF CountInv, Locals
    <3>2. /\ IsFiniteSet(IdleConns') /\ idle' \in [Labels -> Nat]
          /\ Cardinality(IdleConns) \in Nat
          /\ Cardinality(IdleConns') = Cardinality(IdleConns) + 1
      BY <2>4, <3>1, IdlePushed
    <3>3. /\ In("stack", HoldsSlot) = 1 /\ In(to, HoldsSlot) = 0
          /\ In("stack", Lent) = 0 /\ In(to, Lent) = 0
          /\ a \in Clients => In("stack", InProgress) = 0 /\ In(to, InProgress) = 0
      BY <2>2 DEF HoldsSlot, InProgress, Lent, In
    <3>4. Moves(a, 1)
      BY <1>1, <2>1, <2>2, <2>4, <3>2, <3>3 DEF Moves, Goes
    <3>5. WaitersKept
      BY <2>1, <2>2, WaitersLeft DEF Goes
    <3> QED
      BY <3>4, <3>5
  <2> QED
    BY <1>6, <2>3, <2>4 DEF ReturnToStack
<1> QED
  BY <1>2, <1>3, <1>4, <1>5, <1>6

\* pool.pop takes a connection off a stack, for a goroutine that holds none.
LEMMA TakeMoves ==
  ASSUME CountInv, NEW a \in Agents, NEW s \in Labels, NEW to \in HoldsSlot, Take(a, s, to),
         g[a].at \notin HoldsSlot, g[a].at # "wait", UNCHANGED <<active, requested, list>>,
         borrowed' = borrowed + In(to, Lent),
         a \in Clients => g[a].at \in InProgress /\ to \in InProgress
  PROVE  Moves(a, -1) /\ WaitersKept
<1>1. active \in Nat /\ borrowed \in Nat /\ requested \in Nat /\ g \in [Agents -> Locals]
      /\ idle \in [Labels -> Nat] /\ IsFiniteSet(IdleConns)
  BY CounterTypes DEF CountInv
<1>2. /\ 1 \in 1..idle[s] /\ idle' = [idle EXCEPT ![s] = @ - 1]
      /\ g' = [g EXCEPT ![a].conn = s, ![a].at = to]
  BY <1>1 DEF Take
<1>3. /\ IsFiniteSet(IdleConns') /\ idle' \in [Labels -> Nat]
      /\ Cardinality(IdleConns) \in Nat
      /\ Cardinality(IdleConns') = Cardinality(IdleConns) - 1
  BY <1>1, <1>2, IdleTaken
<1>4. Goes(a, to) /\ to # "wait" /\ to # "cas"
  BY <1>1, <1>2, Updates DEF Steps, HoldsSlot
<1>5. /\ In(g[a].at, HoldsSlot) = 0 /\ In(to, HoldsSlot) = 1 /\ In(g[a].at, Lent) = 0
      /\ In(to, Lent) \in Int
      /\ a \in Clients => In(g[a].at, InProgress) = 1 /\ In(to, InProgress) = 1
  BY DEF In, HoldsSlot, Lent
<1>6. Moves(a, -1)
  BY <1>1, <1>3, <1>4, <1>5 DEF Moves, Goes
<1> QED
  BY <1>4, <1>6, WaitersLeft DEF Goes
\* Get and Recycle, short of joining or leaving the waitlist.
LEMMA ClientMoves ==
  ASSUME CountInv, NEW c \in Clients,
         \/ \E s \in Labels : Get(c, s)
         \/ Pop(c) \/ GetFromSettingsStack(c) \/ (WaitForConn(c) /\ ~open)
         \/ Prepared(c) \/ PrepareFails(c) \/ Redial(c) \/ RedialFails(c)
         \/ Recycle(c) \/ RecycleDiscarded(c)
  PROVE  (\E di \in Int : Moves(c, di)) /\ WaitersKept
<1>1. /\ active \in Nat /\ borrowed \in Nat /\ requested \in Nat /\ g \in [Agents -> Locals]
      /\ c \in Agents /\ Clean \in Labels /\ Settings \subseteq Labels
      /\ g[c] \in Locals /\ g[c].want \in Labels /\ g[c].conn \in Labels
  BY CounterTypes DEF CountInv, Agents, Labels, Locals
<1>2. Resting(c) \in Locals /\ Resting(c).at = "out"
  BY <1>1, RestingType DEF Resting
<1>3. \A to : to \in {"pop", "new", "prepare", "using", "enqueue", "over", "out", "redial"} => to \in Steps
  BY DEF Steps, HoldsSlot, InProgress
<1>4. ASSUME NEW s \in Labels, Get(c, s) PROVE Moves(c, 0) /\ WaitersKept
  <2>1. /\ g[c].at = "out" /\ requested' = requested + 1
        /\ UNCHANGED <<active, borrowed, idle, list>>
        /\ g' = [g EXCEPT ![c].want = s, ![c].at = "pop"]
    BY <1>4 DEF Get, At
  <2>2. Goes(c, "pop")
    BY <1>1, <1>3, <2>1, Updates
  <2> QED
    BY <1>1, <2>1, <2>2, StacksKept DEF HoldsSlot, InProgress, Lent, In
<1>5. ASSUME NEW s \in Labels, Take(c, s, "prepare"), g[c].at \in {"pop", "scan"},
             UNCHANGED <<counters, list>>
      PROVE  \E di \in Int : Moves(c, di) /\ WaitersKept
  <2>1. /\ g[c].at \notin HoldsSlot /\ g[c].at # "wait" /\ g[c].at \in InProgress
        /\ "prepare" \in HoldsSlot /\ "prepare" \in InProgress /\ In("prepare", Lent) = 0
    BY <1>5 DEF HoldsSlot, InProgress, Lent, In
  <2>2. UNCHANGED <<active, requested, list>> /\ borrowed' = borrowed + In("prepare", Lent)
    BY <1>1, <1>5, <2>1 DEF counters
  <2>3. Moves(c, -1) /\ WaitersKept
    BY <1>1, <1>5, <2>1, <2>2, TakeMoves
  <2> QED
    BY <2>3
<1>6. ASSUME NEW to \in {"new", "enqueue"}, Goto(c, to), g[c].at \in {"pop", "scan"},
             UNCHANGED <<counters, list, idle>>
      PROVE  Moves(c, 0) /\ WaitersKept
  <2>1. to \in Steps /\ g' = [g EXCEPT ![c].at = to]
    BY <1>3, <1>6 DEF Goto
  <2>2. Goes(c, to)
    BY <1>1, <2>1, Updates
  <2>3. UNCHANGED <<active, borrowed, requested, list, idle>>
    BY <1>6 DEF counters
  <2> QED
    BY <1>1, <1>6, <2>2, <2>3, QuietStep DEF HoldsSlot, InProgress, Lent
<1>7. CASE Pop(c)
  <2>1. g[c].at \in {"pop", "scan"} /\ UNCHANGED <<counters, list>>
    BY <1>7 DEF Pop, At
  <2>2. (\E s \in Labels : Take(c, s, "prepare")) \/ (Goto(c, "new") /\ UNCHANGED idle)
    BY <1>1, <1>7 DEF Pop
  <2> QED
    BY <1>5, <1>6, <2>1, <2>2
<1>8. CASE GetFromSettingsStack(c)
  <2>1. g[c].at \in {"pop", "scan"} /\ UNCHANGED <<counters, list>>
    BY <1>8 DEF GetFromSettingsStack, At
  <2>2. (\E s \in Labels : Take(c, s, "prepare")) \/ (Goto(c, "enqueue") /\ UNCHANGED idle)
    BY <1>1, <1>8 DEF GetFromSettingsStack
  <2> QED
    BY <1>5, <1>6, <2>1, <2>2
<1>9. ASSUME NEW from \in {"enqueue", "prepare", "redial"}, g[c].at = from, Rest(c),
             UNCHANGED <<borrowed, list, idle>>,
             requested' = requested - In(from, InProgress), active' = active - In(from, HoldsSlot)
      PROVE  Moves(c, 0) /\ WaitersKept
  <2>1. Goes(c, "out")
    BY <1>1, <1>2, <1>3, <1>9, Updates DEF Rest
  <2> QED
    BY <1>1, <1>9, <2>1, StacksKept DEF HoldsSlot, InProgress, Lent, In
<1>10. CASE WaitForConn(c) /\ ~open
  <2>1. /\ g[c].at = "enqueue" /\ Rest(c) /\ UNCHANGED <<borrowed, list, idle, active>>
        /\ requested' = requested - 1
    BY <1>10 DEF WaitForConn, At
  <2>2. In("enqueue", InProgress) = 1 /\ In("enqueue", HoldsSlot) = 0
    BY DEF In, InProgress, HoldsSlot
  <2> QED
    BY <1>1, <1>9, <2>1, <2>2
<1>11. CASE PrepareFails(c)
  <2>1. /\ g[c].at = "prepare" /\ Rest(c) /\ UNCHANGED <<borrowed, list, idle>>
        /\ requested' = requested - 1 /\ active' = active - 1
    BY <1>11 DEF PrepareFails, At
  <2>2. In("prepare", InProgress) = 1 /\ In("prepare", HoldsSlot) = 1
    BY DEF In, InProgress, HoldsSlot
  <2> QED
    BY <1>1, <1>9, <2>1, <2>2
<1>12. CASE RedialFails(c)
  <2>1. /\ g[c].at = "redial" /\ Rest(c) /\ UNCHANGED <<borrowed, list, idle, requested>>
        /\ active' = active - 1
    BY <1>12 DEF RedialFails, At
  <2>2. In("redial", InProgress) = 0 /\ In("redial", HoldsSlot) = 1
    BY DEF In, InProgress, HoldsSlot
  <2> QED
    BY <1>1, <1>9, <2>1, <2>2
<1>13. CASE Prepared(c)
  <2>1. /\ g[c].at = "prepare" /\ UNCHANGED <<active, requested, idle, list>>
        /\ borrowed' = borrowed + 1 /\ g' = [g EXCEPT ![c].conn = g[c].want, ![c].at = "using"]
    BY <1>13 DEF Prepared, At
  <2>2. Goes(c, "using")
    BY <1>1, <1>3, <2>1, Updates
  <2>3. Moves(c, 0) /\ WaitersKept
    BY <1>1, <2>1, <2>2, StacksKept DEF HoldsSlot, InProgress, Lent, In
  <2> QED
    BY <2>3
<1>14. CASE Redial(c)
  <2>1. g[c].at = "redial" /\ UNCHANGED <<active, borrowed, requested, idle, list>>
    BY <1>14 DEF Redial, At, counters
  <2>2. Goes(c, "over")
    BY <1>1, <1>3, <1>14, Updates DEF Redial, Goto
  <2>3. Moves(c, 0) /\ WaitersKept
    BY <1>1, <2>1, <2>2, QuietStep DEF HoldsSlot, InProgress, Lent
  <2> QED
    BY <2>3
<1>15. CASE Recycle(c) \/ RecycleDiscarded(c)
  <2>1. PICK s \in Labels, to \in {"over", "redial"} : Put(c, s, to)
    BY <1>1, <1>15 DEF Recycle, RecycleDiscarded
  <2> DEFINE r == [Resting(c) EXCEPT !.conn = s, !.at = to]
  <2>2. /\ g[c].at = "using" /\ UNCHANGED <<active, idle, list>>
        /\ borrowed' = borrowed - 1 /\ requested' = requested - 1
        /\ g' = [g EXCEPT ![c] = r]
    BY <2>1 DEF Put, At
  <2>3. r \in Locals /\ r.at = to /\ to \in Steps
    BY <1>2, <1>3, <2>1 DEF Locals
  <2> HIDE DEF r
  <2>4. Goes(c, to)
    BY <1>1, <2>2, <2>3, Updates
  <2>5. Moves(c, 0) /\ WaitersKept
    BY <1>1, <2>1, <2>2, <2>4, StacksKept DEF HoldsSlot, InProgress, Lent, In
  <2> QED
    BY <2>5
<1> QED
  BY <1>4, <1>7, <1>8, <1>10, <1>11, <1>12, <1>13, <1>14, <1>15
\* The workers' steps, and the steps of SetCapacity and Close, that no client shares.
LEMMA WorkerMoves ==
  ASSUME CountInv, list \in Seq(Clients),
         \/ ExpireTick \/ TryReturnAnyConn \/ ScrubClean \/ ScrubDiverged
         \/ \E s \in Labels : ScrubTake(s) \/ \E n \in 1..idle[s] : CloseIdleResources(s, n)
  PROVE  (\E a \in Workers : \E di \in Int : Moves(a, di)) /\ WaitersKept
<1>1. /\ active \in Nat /\ borrowed \in Nat /\ requested \in Nat /\ g \in [Agents -> Locals]
      /\ idle \in [Labels -> Nat] /\ IsFiniteSet(IdleConns)
      /\ Clean \in Labels /\ Settings \subseteq Labels
  BY CounterTypes DEF CountInv, Labels
<1>2. \A w \in Workers : w \in Agents /\ w \notin Clients
  BY ConnPoolAssumption DEF Agents
<1>3. "expire" \in Workers /\ "idle" \in Workers /\ "scrub" \in Workers
  BY DEF Workers
<1>4. CASE ExpireTick
  <2>1. MaybeStarvingCount \in Int
    <3>1. IsFiniteSet(1..Len(list)) /\ DOMAIN list = 1..Len(list)
      BY FS_Interval
    <3>2. IsFiniteSet({i \in DOMAIN list : g[list[i]].age = 0})
      BY <3>1, FS_Subset
    <3>3. Cardinality({i \in DOMAIN list : g[list[i]].age = 0}) \in Nat
      BY <3>2, FS_CardinalityType
    <3> QED
      BY <3>3 DEF MaybeStarvingCount
  <2>2. /\ g["expire"].at = "rest" /\ UNCHANGED <<active, borrowed, requested, idle, list>>
        /\ g' = [g EXCEPT !["expire"].left = MaybeStarvingCount, !["expire"].at = "popany"]
    BY <1>4 DEF ExpireTick, At, counters
  <2>3. "popany" \in Steps
    BY DEF Steps
  <2>4. Goes("expire", "popany")
    BY <1>1, <1>2, <1>3, <2>1, <2>2, <2>3, Updates
  <2>5. Moves("expire", 0) /\ WaitersKept
    BY <1>2, <1>3, <2>2, <2>4, QuietStep DEF HoldsSlot, InProgress, Lent
  <2> QED
    BY <1>3, <2>5
<1>5. CASE TryReturnAnyConn
  <2>1. g["expire"].at = "popany" /\ UNCHANGED <<active, borrowed, requested, list>>
    BY <1>5 DEF TryReturnAnyConn, At, counters
  <2>2. CASE \E s \in Labels : Take("expire", s, "over")
    <3>1. PICK s \in Labels : Take("expire", s, "over")
      BY <2>2
    <3>2. "over" \in HoldsSlot /\ "popany" \notin HoldsSlot /\ In("over", Lent) = 0
      BY DEF HoldsSlot, In, Lent
    <3>3. Moves("expire", -1) /\ WaitersKept
      BY <1>1, <1>2, <1>3, <2>1, <3>1, <3>2, TakeMoves
    <3> QED
      BY <1>3, <3>3
  <2>3. CASE Rest("expire") /\ UNCHANGED idle
    <3>1. /\ Resting("expire") \in Locals /\ Resting("expire").at \in {"out", "rest"}
          /\ Resting("expire").at \in Steps
      BY <1>2, <1>3, RestingType DEF Steps
    <3>2. Goes("expire", Resting("expire").at)
      BY <1>1, <1>2, <1>3, <2>3, <3>1, Updates DEF Rest
    <3>3. Moves("expire", 0) /\ WaitersKept
      BY <1>2, <1>3, <2>1, <2>3, <3>1, <3>2, QuietStep DEF HoldsSlot, InProgress, Lent
    <3> QED
      BY <1>3, <3>3
  <2> QED
    BY <1>1, <1>5, <2>2, <2>3 DEF TryReturnAnyConn
<1>6. CASE ScrubClean
  <2>1. /\ g["scrub"].at = "probe" /\ UNCHANGED <<active, requested, idle, list>>
        /\ borrowed' = borrowed - 1 /\ g' = [g EXCEPT !["scrub"].at = "over"]
    BY <1>6 DEF ScrubClean, At, Goto
  <2>2. "over" \in Steps
    BY DEF Steps, HoldsSlot
  <2>3. Goes("scrub", "over")
    BY <1>1, <1>2, <1>3, <2>1, <2>2, Updates
  <2>4. /\ active' = active + In("over", HoldsSlot) - In("probe", HoldsSlot)
        /\ borrowed' = borrowed + In("over", Lent) - In("probe", Lent)
    BY <1>1, <2>1 DEF HoldsSlot, Lent, In
  <2>5. Moves("scrub", 0) /\ WaitersKept
    BY <1>2, <1>3, <2>1, <2>3, <2>4, StacksKept
  <2> QED
    BY <1>3, <2>5
<1>7. CASE ScrubDiverged
  <2>1. /\ g["scrub"].at = "probe" /\ UNCHANGED <<requested, idle, list>>
        /\ borrowed' = borrowed - 1 /\ active' = active - 1
        /\ g' = [g EXCEPT !["scrub"].conn = Clean, !["scrub"].at = "new"]
    BY <1>7 DEF ScrubDiverged, At
  <2>2. "new" \in Steps
    BY DEF Steps, InProgress
  <2>3. Goes("scrub", "new")
    BY <1>1, <1>2, <1>3, <2>1, <2>2, Updates
  <2>4. /\ active' = active + In("new", HoldsSlot) - In("probe", HoldsSlot)
        /\ borrowed' = borrowed + In("new", Lent) - In("probe", Lent)
    BY <1>1, <2>1 DEF HoldsSlot, Lent, In
  <2>5. Moves("scrub", 0) /\ WaitersKept
    BY <1>2, <1>3, <2>1, <2>3, <2>4, StacksKept
  <2> QED
    BY <1>3, <2>5
<1>8. ASSUME NEW s \in Labels, ScrubTake(s)
      PROVE  Moves("scrub", -1) /\ WaitersKept
  <2>1. /\ g["scrub"].at = "rest" /\ UNCHANGED <<active, requested, list>>
        /\ borrowed' = borrowed + 1 /\ Take("scrub", s, "probe")
    BY <1>8 DEF ScrubTake, At
  <2>2. "probe" \in HoldsSlot /\ "rest" \notin HoldsSlot /\ In("probe", Lent) = 1
    BY DEF HoldsSlot, In, Lent
  <2> QED
    BY <1>1, <1>2, <1>3, <2>1, <2>2, TakeMoves
<1>9. ASSUME NEW s \in Labels, NEW n \in 1..idle[s], CloseIdleResources(s, n)
      PROVE  Moves("idle", 0 - n) /\ WaitersKept /\ 0 - n \in Int
  <2>1. /\ g["idle"].at = "rest" /\ UNCHANGED <<borrowed, requested, list>>
        /\ active' = active - n /\ idle' = [idle EXCEPT ![s] = @ - n]
        /\ g' = [g EXCEPT !["idle"].left = n, !["idle"].at = "new"]
    BY <1>9 DEF CloseIdleResources, At
  <2>2. "new" \in Steps /\ n \in Int
    BY DEF Steps, InProgress
  <2>3. Goes("idle", "new")
    BY <1>1, <1>2, <1>3, <2>1, <2>2, Updates
  <2>4. /\ IsFiniteSet(IdleConns') /\ idle' \in [Labels -> Nat]
        /\ Cardinality(IdleConns) \in Nat
        /\ Cardinality(IdleConns') = Cardinality(IdleConns) - n
    BY <1>1, <2>1, IdleTaken
  <2>5. /\ In("rest", HoldsSlot) = 0 /\ In("new", HoldsSlot) = 0
        /\ In("rest", Lent) = 0 /\ In("new", Lent) = 0
    BY DEF In, HoldsSlot, Lent
  <2>6. active' = active + (0 - n) + 0 - 0 /\ borrowed' = borrowed + 0 - 0
        /\ Cardinality(IdleConns') = Cardinality(IdleConns) + (0 - n)
    BY <1>1, <2>1, <2>2, <2>4, SMTT(30)
  <2>7. Moves("idle", 0 - n)
    BY <1>2, <1>3, <2>1, <2>3, <2>4, <2>5, <2>6 DEF Moves, Goes
  <2>8. WaitersKept
    BY <1>2, <1>3, <2>1, <2>3, WaitersLeft DEF Goes
  <2> QED
    BY <2>2, <2>7, <2>8
<1> QED
  BY <1>3, <1>4, <1>5, <1>6, <1>7, <1>8, <1>9
\* SetCapacity and Close.
LEMMA AdminMoves ==
  ASSUME CountInv, AdminStep \/ Close \/ \E n \in scenario.capacities : SetCapacity(n)
  PROVE  (\E di \in Int : Moves(Admin, di)) /\ WaitersKept
<1>1. /\ active \in Nat /\ borrowed \in Nat /\ requested \in Nat /\ g \in [Agents -> Locals]
      /\ Admin \in Agents /\ Admin \notin Clients
      /\ Clean \in Labels /\ Settings \subseteq Labels
  BY CounterTypes, ConnPoolAssumption DEF CountInv, Labels, Agents
<1> DEFINE Quiet == {"rest", "out", "satisfy", "new", "shrink", "drain", "join", "joinlate",
                     "closed", "closedlate"}
<1>2. \A to \in Quiet : /\ to \in Steps /\ to \notin HoldsSlot /\ to \notin Lent
                       /\ to # "wait" /\ to # "cas"
  BY DEF Steps, HoldsSlot, Lent, InProgress
<1>3. Resting(Admin) \in Locals /\ Resting(Admin).at \in Quiet
  BY <1>1, RestingType
<1>4. ASSUME g[Admin].at \in Quiet, UNCHANGED <<active, borrowed, requested, idle, list>>,
             \/ \E to \in Quiet : \/ g' = [g EXCEPT ![Admin].at = to]
                                  \/ g' = [g EXCEPT ![Admin].left = 1, ![Admin].at = to]
             \/ g' = [g EXCEPT ![Admin] = Resting(Admin)]
      PROVE  Moves(Admin, 0) /\ WaitersKept
  <2>1. PICK to \in Quiet : Goes(Admin, to)
    <3>1. 1 \in Int
      OBVIOUS
    <3> HIDE DEF Quiet
    <3>2. ASSUME NEW to \in Quiet, \/ g' = [g EXCEPT ![Admin].at = to]
                                   \/ g' = [g EXCEPT ![Admin].left = 1, ![Admin].at = to]
          PROVE  Goes(Admin, to)
      BY <1>1, <1>2, <3>1, <3>2, Updates
    <3>3. ASSUME g' = [g EXCEPT ![Admin] = Resting(Admin)]
          PROVE  Goes(Admin, Resting(Admin).at)
      BY <1>1, <1>2, <1>3, <3>3, Updates
    <3> QED
      BY <1>3, <1>4, <3>2, <3>3
  <2> HIDE DEF Quiet
  <2> QED
    BY <1>1, <1>2, <1>4, <2>1, QuietStep
<1>5. CASE SatisfyWaiters \/ ShrinkDone \/ Drained \/ DrainTimesOut \/ WorkersWait
  <2>1. /\ g[Admin].at \in Quiet /\ UNCHANGED <<active, borrowed, requested, idle, list>>
        /\ \/ \E to \in Quiet : g' = [g EXCEPT ![Admin].at = to]
           \/ g' = [g EXCEPT ![Admin] = Resting(Admin)]
    BY <1>5 DEF SatisfyWaiters, ShrinkDone, Drained, DrainTimesOut, WorkersWait, At, Goto, Rest,
       counters
  <2> QED
    BY <1>4, <2>1
<1>6. CASE Close \/ \E n \in scenario.capacities : SetCapacity(n)
  <2>1. /\ g[Admin].at \in Quiet /\ UNCHANGED <<active, borrowed, requested, idle, list>>
        /\ \E to \in Quiet : \/ g' = [g EXCEPT ![Admin].at = to]
                             \/ g' = [g EXCEPT ![Admin].left = 1, ![Admin].at = to]
    BY <1>6 DEF Close, SetCapacity, At, Goto
  <2> QED
    BY <1>4, <2>1
<1>7. CASE ShrinkPop
  <2>1. g[Admin].at = "shrink" /\ UNCHANGED <<active, borrowed, requested, list>>
    BY <1>7 DEF ShrinkPop, At, counters
  <2>2. PICK s \in Labels : Take(Admin, s, "closeidle")
    BY <1>1, <1>7 DEF ShrinkPop
  <2>3. "closeidle" \in HoldsSlot /\ "shrink" \notin HoldsSlot /\ In("closeidle", Lent) = 0
    BY DEF HoldsSlot, In, Lent
  <2>4. Moves(Admin, -1) /\ WaitersKept
    BY <1>1, <2>1, <2>2, <2>3, TakeMoves
  <2> QED
    BY <2>4
<1>8. CASE ShrinkClose
  <2>1. /\ g[Admin].at = "closeidle" /\ UNCHANGED <<borrowed, requested, idle, list>>
        /\ active' = active - 1 /\ g' = [g EXCEPT ![Admin].conn = Clean, ![Admin].at = "shrink"]
    BY <1>8 DEF ShrinkClose, At
  <2>2. "shrink" \in Steps
    BY DEF Steps
  <2>3. Goes(Admin, "shrink")
    BY <1>1, <2>1, <2>2, Updates
  <2>4. /\ active' = active + In("shrink", HoldsSlot) - In("closeidle", HoldsSlot)
        /\ borrowed' = borrowed + In("shrink", Lent) - In("closeidle", Lent)
    BY <1>1, <2>1 DEF HoldsSlot, Lent, In
  <2>5. Moves(Admin, 0) /\ WaitersKept
    BY <1>1, <2>1, <2>3, <2>4, StacksKept
  <2> QED
    BY <2>5
<1> QED
  BY <1>4, <1>5, <1>6, <1>7, <1>8 DEF AdminStep
-----------------------------------------------------------------------------
\* The waitlist.

\* It holds the waiting clients, each once.
ListInv ==
  /\ list \in Seq(Clients) /\ IsInjective(list)
  /\ Range(list) = {c \in Clients : At(c, "wait")}

\* A new waiter goes to the end.
LEMMA AppendWaiter ==
  ASSUME NEW R, NEW q \in Seq(R), NEW x \in R, IsInjective(q), x \notin Range(q)
  PROVE  /\ Append(q, x) \in Seq(R) /\ Range(Append(q, x)) = Range(q) \cup {x}
         /\ IsInjective(Append(q, x))
<1> DEFINE t == Append(q, x)
           n == Len(q)
<1>1. /\ t \in Seq(R) /\ n \in Nat /\ DOMAIN q = 1..n /\ DOMAIN t = 1..(n + 1)
      /\ \A i \in 1..n : t[i] = q[i] /\ i \in 1..(n + 1)
      /\ t[n + 1] = x /\ n + 1 \in 1..(n + 1)
  BY AppendProperties
<1>2. \A i \in 1..(n + 1) : i \in 1..n \/ i = n + 1
  BY <1>1
<1> HIDE DEF t, n
<1>3. \A i \in 1..n : q[i] # x
  BY <1>1 DEF Range
<1>4. Range(t) \subseteq Range(q) \cup {x} /\ Range(q) \subseteq Range(t) /\ x \in Range(t)
  BY <1>1, <1>2 DEF Range
<1>5. IsInjective(t)
  BY <1>1, <1>2, <1>3 DEF IsInjective
<1> QED
  BY <1>1, <1>4, <1>5 DEF t

\* Steps that leave the waiters alone.
LEMMA WaitersListed ==
  ASSUME ListInv, WaitersKept
  PROVE  ListInv'
<1>1. {c \in Clients : At(c, "wait")}' = {c \in Clients : At(c, "wait")}
  BY DEF WaitersKept, At
<1> QED
  BY <1>1 DEF ListInv, WaitersKept

\* waitForConn joins the list.
LEMMA JoinCounted ==
  ASSUME CountInv, ListInv, NEW c \in Clients, WaitForConn(c), open
  PROVE  CountInv' /\ ListInv'
<1>1. /\ g[c].at = "enqueue" /\ list' = Append(list, c) /\ Goto(c, "wait")
      /\ UNCHANGED <<active, borrowed, requested, idle>>
  BY DEF WaitForConn, At
<1>2. c \in Agents /\ g \in [Agents -> Locals] /\ "wait" \in Steps
  BY DEF Agents, CountInv, Steps, InProgress
<1>3. Goes(c, "wait")
  BY <1>1, <1>2, Updates DEF Goto
<1>4. active \in Nat /\ borrowed \in Nat /\ requested \in Nat
  BY CounterTypes
<1>5. /\ In("wait", HoldsSlot) = 0 /\ In("enqueue", HoldsSlot) = 0
      /\ In("wait", Lent) = 0 /\ In("enqueue", Lent) = 0
      /\ In("wait", InProgress) = 1 /\ In("enqueue", InProgress) = 1
  BY DEF In, HoldsSlot, Lent, InProgress
<1>6. Moves(c, 0)
  BY <1>1, <1>3, <1>4, <1>5, IdleKept DEF Moves, Goes
<1>7. c \notin Range(list)
  BY <1>1 DEF ListInv, At
<1>8. /\ list' \in Seq(Clients) /\ IsInjective(list') /\ Range(list') = Range(list) \cup {c}
  BY <1>1, <1>7, AppendWaiter DEF ListInv
<1>9. {b \in Clients : At(b, "wait")}' = {b \in Clients : At(b, "wait")} \cup {c}
  BY <1>3 DEF At, Goes, Agents
<1>10. ListInv'
  BY <1>8, <1>9 DEF ListInv
<1> QED
  BY <1>2, <1>6, <1>10, MovesCounted

\* A waiter that gives up leaves it.
LEMMA LeaveCounted ==
  ASSUME CountInv, ListInv, NEW c \in Clients, LeaveList(c)
  PROVE  CountInv' /\ ListInv'
<1>1. /\ g[c].at = "wait" /\ requested' = requested - 1 /\ g' = [g EXCEPT ![c] = Resting(c)]
      /\ UNCHANGED <<active, borrowed, idle>>
  BY DEF LeaveList, At, Rest
<1>2. PICK i \in DOMAIN list : list[i] = c /\ list' = RemoveAt(list, i)
  BY DEF LeaveList
<1>3. /\ c \in Agents /\ g \in [Agents -> Locals] /\ "out" \in Steps
      /\ Resting(c) \in Locals /\ Resting(c).at = "out"
  BY RestingType DEF Agents, CountInv, Steps, Resting
<1>4. Goes(c, "out")
  BY <1>1, <1>3, Updates
<1>5. active \in Nat /\ borrowed \in Nat /\ requested \in Nat
  BY CounterTypes
<1>6. /\ In("wait", HoldsSlot) = 0 /\ In("out", HoldsSlot) = 0
      /\ In("wait", Lent) = 0 /\ In("out", Lent) = 0
      /\ In("wait", InProgress) = 1 /\ In("out", InProgress) = 0
  BY DEF In, HoldsSlot, Lent, InProgress
<1>7. Moves(c, 0)
  BY <1>1, <1>4, <1>5, <1>6, IdleKept DEF Moves, Goes
<1>8. /\ list' \in Seq(Clients) /\ IsInjective(list') /\ Range(list') = Range(list) \ {c}
  BY <1>2, RemoveAtElements DEF ListInv
<1>9. {b \in Clients : At(b, "wait")}' = {b \in Clients : At(b, "wait")} \ {c}
  BY <1>4 DEF At, Goes, Agents
<1>10. ListInv'
  BY <1>8, <1>9 DEF ListInv
<1> QED
  BY <1>3, <1>7, <1>10, MovesCounted

\* tryReturnConnSlow finds a waiter on a list that is not empty, and every waiter it
\* skips may be skipped once more.
LEMMA TargetWaits ==
  ASSUME CountInv, ListInv, list # <<>>, NEW s
  PROVE  /\ Target(s) \in DOMAIN list /\ list[Target(s)] \in Clients
         /\ g[list[Target(s)]].at = "wait"
         /\ \A b \in Skipped(s) : b \in Clients /\ g[b].age \in 0..MaxAge /\ g[b].at = "wait"
<1>1. /\ DOMAIN list = 1..Len(list) /\ Len(list) \in Nat \ {0}
      /\ \A i \in DOMAIN list : list[i] \in Clients /\ g[list[i]].at = "wait"
  <2>1. DOMAIN list = 1..Len(list) /\ Len(list) \in Nat \ {0}
    BY DEF ListInv
  <2>2. \A i \in DOMAIN list : list[i] \in Range(list)
    BY DEF Range
  <2> QED
    BY <2>1, <2>2 DEF ListInv, At
<1>2. Matching(s) \in SUBSET Nat /\ Matching(s) \subseteq DOMAIN list
  BY <1>1 DEF Matching
<1>3. Target(s) \in DOMAIN list /\ \A i \in Matching(s) : Target(s) <= i
  <2>1. CASE Matching(s) = {}
    BY <1>1, <2>1 DEF Target
  <2>2. CASE Matching(s) # {}
    BY <1>2, <2>2, MinOfNaturals DEF Target
  <2> QED
    BY <2>1, <2>2
<1>4. ASSUME NEW b \in Skipped(s) PROVE b \in Clients /\ g[b].age \in 0..MaxAge /\ g[b].at = "wait"
  <2>1. PICK j \in DOMAIN list : b = list[j] /\ (Matching(s) = {} \/ j < Target(s))
    BY DEF Skipped
  <2>2. j \notin Matching(s)
    BY <1>1, <1>3, <2>1
  <2>3. b \in Agents /\ g[b].age \in 0..(MaxAge + 1)
    BY <1>1, <2>1 DEF CountInv, Locals, Agents
  <2>4. ~(g[b].age > MaxAge)
    BY <2>1, <2>2 DEF Matching
  <2> QED
    BY <1>1, <2>1, <2>3, <2>4, ConnPoolAssumption
<1> QED
  BY <1>1, <1>3, <1>4
\* tryReturnConnSlow: the slot passes from the goroutine to the waiter.
LEMMA HandOverCounted ==
  ASSUME CountInv, ListInv, NEW a \in Agents, TryReturnConnSlow(a), list # <<>>
  PROVE  /\ CountInv' /\ ListInv'
         /\ \A b \in Agents : g'[b].at = "cas" => g[b].at = "cas" /\ g'[b].loaded = g[b].loaded
<1>1. PICK s \in Labels : s = g[a].conn
  BY DEF CountInv, Locals
<1>2. PICK t \in DOMAIN list : t = Target(s)
  BY TargetWaits
<1>3. PICK c \in Clients : c = list[t] /\ g[c].at = "wait"
  BY <1>2, TargetWaits
<1>4. PICK back \in Locals :
        /\ back = AfterReturn(a, TRUE)
        /\ back.at \in {"out", "rest", "popany", "new", "satisfy"}
        /\ a \in Clients => back.at = "out"
  <2>1. TRUE \in BOOLEAN /\ g \in [Agents -> Locals]
    BY DEF CountInv
  <2> QED
    BY <2>1, AfterReturnType
<1>5. /\ g[a].at = "slow" /\ list' = RemoveAt(list, t) /\ UNCHANGED <<active, borrowed, requested, idle>>
      /\ g' = [b \in Agents |->
                 CASE b = c -> [g[c] EXCEPT !.conn = s, !.age = 0, !.at = "prepare"]
                   [] b = a -> back
                   [] b \in Skipped(s) \ {c} -> [g[b] EXCEPT !.age = @ + 1]
                   [] OTHER -> g[b]]
  BY <1>4, <1>1, <1>2, <1>3, ZenonT(60) DEF TryReturnConnSlow, At, counters
<1>6. /\ c \in Agents /\ c # a /\ g \in [Agents -> Locals] /\ MaxAge \in Nat
      /\ Clients \subseteq Agents
  BY <1>3, <1>5, ConnPoolAssumption DEF Agents, CountInv
<1>7. g'[c] \in Locals /\ g'[c].at = "prepare"
  <2>1. g'[c] = [g[c] EXCEPT !.conn = s, !.age = 0, !.at = "prepare"]
    BY <1>5, <1>6
  <2>2. g[c] \in Locals /\ "prepare" \in Steps /\ 0 \in 0..(MaxAge + 1)
    BY <1>6 DEF Steps, HoldsSlot
  <2> QED
    BY <2>1, <2>2 DEF Locals
<1>8. g'[a] = back
  <2>1. a \notin Skipped(s)
    BY <1>5, TargetWaits
  <2> QED
    BY <1>5, <1>6, <2>1
<1>9. ASSUME NEW b \in Agents, b # a, b # c
      PROVE  g'[b] \in Locals /\ g'[b].at = g[b].at /\ g'[b].loaded = g[b].loaded
  <2>1. CASE b \in Skipped(s)
    <3>1. g'[b] = [g[b] EXCEPT !.age = @ + 1]
      BY <1>5, <1>9, <2>1
    <3>2. g[b].age \in 0..MaxAge
      BY <2>1, TargetWaits
    <3>3. g[b] \in Locals /\ g[b].age + 1 \in 0..(MaxAge + 1)
      BY <1>6, <3>2
    <3> QED
      BY <3>1, <3>3 DEF Locals
  <2>2. CASE b \notin Skipped(s)
    <3>1. g'[b] = g[b]
      BY <1>5, <1>9, <2>2
    <3> QED
      BY <1>6, <3>1
  <2> QED
    BY <2>1, <2>2
<1>10. g' \in [Agents -> Locals]
  <2>1. \A b \in Agents : g'[b] \in Locals
    BY <1>4, <1>7, <1>8, <1>9
  <2>2. DOMAIN g' = Agents /\ g' = [b \in Agents |-> g'[b]]
    BY <1>5
  <2> QED
    BY <2>1, <2>2
<1>11. Count(Agents, HoldsSlot)' = Count(Agents, HoldsSlot)
  <2> DEFINE S == {b \in Agents : g[b].at \in HoldsSlot}
             T == {b \in Agents : g'[b].at \in HoldsSlot}
  <2>1. a \in S /\ c \notin S /\ a \notin T /\ c \in T
    BY <1>3, <1>5, <1>6, <1>4, <1>7, <1>8 DEF HoldsSlot
  <2>2. \A b \in Agents : b # a /\ b # c => (b \in S <=> b \in T)
    BY <1>9
  <2>3. IsFiniteSet(S) /\ S \subseteq Agents /\ T \subseteq Agents
    BY AgentsFinite
  <2>4. Count(Agents, HoldsSlot) = Cardinality(S) /\ Count(Agents, HoldsSlot)' = Cardinality(T)
    BY DEF Count
  <2> HIDE DEF S, T
  <2>5. T = (S \ {a}) \cup {c} /\ c \notin S \ {a}
    BY <1>6, <2>1, <2>2, <2>3
  <2>6. /\ IsFiniteSet(S \ {a}) /\ Cardinality(S \ {a}) = Cardinality(S) - 1
    BY <2>1, <2>3, FS_RemoveElement
  <2>7. Cardinality((S \ {a}) \cup {c}) = Cardinality(S \ {a}) + 1
    BY <2>5, <2>6, FS_AddElement
  <2>8. Cardinality(S) \in Nat
    BY <2>3, FS_CardinalityType
  <2> QED
    BY <2>4, <2>5, <2>6, <2>7, <2>8
<1>12. Count(Agents, Lent)' = Count(Agents, Lent)
  <2>1. \A b \in Agents : g'[b].at \in Lent <=> g[b].at \in Lent
    BY <1>3, <1>5, <1>4, <1>7, <1>8, <1>9 DEF Lent
  <2> QED
    BY <2>1 DEF Count
<1>13. Count(Clients, InProgress)' = Count(Clients, InProgress)
  <2>1. \A b \in Clients : g'[b].at \in InProgress <=> g[b].at \in InProgress
    BY <1>3, <1>5, <1>6, <1>4, <1>7, <1>8, <1>9, ZenonT(60) DEF InProgress
  <2> QED
    BY <2>1 DEF Count
<1>14. CountInv'
  <2>1. IdleConns' = IdleConns
    BY <1>5 DEF IdleConns
  <2> QED
    BY <1>5, <1>10, <1>11, <1>12, <1>13, <2>1 DEF CountInv, CountersMatch, Lent
<1>15. /\ list' \in Seq(Clients) /\ IsInjective(list') /\ Range(list') = Range(list) \ {c}
  BY <1>2, <1>3, <1>5, RemoveAtElements DEF ListInv
<1>16. {b \in Clients : At(b, "wait")}' = {b \in Clients : At(b, "wait")} \ {c}
  <2>1. \A b \in Clients : g'[b].at = "wait" <=> g[b].at = "wait" /\ b # c
    BY <1>5, <1>6, <1>4, <1>7, <1>8, <1>9
  <2> QED
    BY <2>1 DEF At
<1>17. ListInv'
  BY <1>15, <1>16 DEF ListInv
<1>18. \A b \in Agents : g'[b].at = "cas" => g[b].at = "cas" /\ g'[b].loaded = g[b].loaded
  BY <1>4, <1>7, <1>8, <1>9
<1> QED
  BY <1>14, <1>17, <1>18
-----------------------------------------------------------------------------
\* The capacity, and the pool as a whole.

\* The capacities the pool is ever given, other than by Close.
Given == scenario.capacities \cup {scenario.maxCapacity}

\* The settings of the pool.
ConfigInv ==
  /\ scenario \in ScenarioType /\ capacity \in Given \cup {0} /\ capacity \in Nat
  /\ idleCount \in Nat /\ open \in BOOLEAN /\ changes \in 0..scenario.maxChanges

\* A racing getNew goes for a slot within some capacity it has read.
CapInv ==
  /\ \E n \in Given : active <= n
  /\ \A a \in Agents : g[a].at = "cas" => \E n \in Given : g[a].loaded < n

PoolInv == CountInv /\ ListInv /\ ConfigInv /\ CapInv

\* The scenario never changes.
PoolStep == Next /\ UNCHANGED scenario

\* The settings keep their types.
LEMMA StepConfig == ConfigInv /\ [PoolStep]_<<vars, scenario>> => ConfigInv'
<1> SUFFICES ASSUME ConfigInv, [PoolStep]_<<vars, scenario>> PROVE ConfigInv'
  OBVIOUS
<1>1. UNCHANGED scenario /\ Given' = Given
  BY DEF PoolStep, Given
<1>2. \A n \in Nat : IdleCountFor(n) \in Nat
  BY ConnPoolAssumption DEF IdleCountFor
<1>3. ASSUME UNCHANGED <<capacity, open, changes>>, idleCount' \in {idleCount, IdleCountFor(capacity)}
      PROVE  ConfigInv'
  BY <1>1, <1>2, <1>3 DEF ConfigInv
<1>4. CASE UNCHANGED vars
  BY <1>3, <1>4 DEF vars
<1>5. ASSUME NEW a \in Agents, Step(a) PROVE ConfigInv'
  <2>1. UNCHANGED <<capacity, open, changes>> /\ idleCount' \in {idleCount, IdleCountFor(capacity)}
    BY <1>5 DEF Step, GetNewLoad, GetNewCas, Dial, DialFails, OverCapacityLoad, CloseOnOverCapacity,
       TryReturnConn, TryReturnConnSlow, ReturnToStack, EndsChange, counters
  <2> QED
    BY <1>3, <2>1
<1>6. ASSUME NEW c \in Clients,
             \/ ClientStep(c) \/ WaitCancelled(c) \/ Recycle(c) \/ RecycleDiscarded(c)
             \/ \E s \in Labels : Get(c, s)
      PROVE  ConfigInv'
  <2>1. UNCHANGED <<capacity, open, changes, idleCount>>
    BY <1>6 DEF ClientStep, Pop, GetFromSettingsStack, WaitForConn, WaitClosed, WaitCancelled,
       LeaveList, Prepared, PrepareFails, Redial, RedialFails, Recycle, RecycleDiscarded, Put, Get,
       counters
  <2> QED
    BY <1>3, <2>1
<1>7. CASE \/ ExpireStep \/ ScrubStep
           \/ \E s \in Labels : ScrubTake(s) \/ \E n \in 1..idle[s] : CloseIdleResources(s, n)
  <2>1. UNCHANGED <<capacity, open, changes, idleCount>>
    BY <1>7 DEF ExpireStep, ScrubStep, ExpireTick, TryReturnAnyConn, ScrubClean, ScrubDiverged,
       ScrubTake, CloseIdleResources, counters
  <2> QED
    BY <1>3, <2>1
<1>8. CASE SatisfyWaiters \/ ShrinkPop \/ ShrinkClose \/ ShrinkDone \/ WorkersWait
  <2>1. UNCHANGED <<capacity, open, changes>> /\ idleCount' \in {idleCount, IdleCountFor(capacity)}
    BY <1>8 DEF SatisfyWaiters, ShrinkPop, ShrinkClose, ShrinkDone, WorkersWait, EndsChange, counters
  <2> QED
    BY <1>3, <2>1
<1>9. CASE Drained \/ DrainTimesOut
  BY <1>1, <1>9 DEF Drained, DrainTimesOut, counters, ConfigInv
<1>10. CASE Close
  BY <1>1, <1>10 DEF Close, ConfigInv
<1>11. ASSUME NEW n \in scenario.capacities, SetCapacity(n) PROVE ConfigInv'
  <2>1. n \in Nat /\ n \in Given
    BY DEF ConfigInv, ScenarioType, Given
  <2>2. changes' \in 0..scenario.maxChanges
    BY <1>11 DEF SetCapacity, ConfigInv, ScenarioType
  <2> QED
    BY <1>1, <1>11, <2>1, <2>2 DEF SetCapacity, ConfigInv
<1> QED
  BY <1>4, <1>5, <1>6, <1>7, <1>8, <1>9, <1>10, <1>11 DEF PoolStep, Next, AdminStep

\* Counters, stacks and waiters after a step; a goroutine about to compare and swap
\* has been there, or has just found a free slot.
LEMMA StepCounts ==
  ASSUME CountInv, ListInv, ConfigInv, PoolStep
  PROVE  /\ CountInv' /\ ListInv'
         /\ \A b \in Agents : g'[b].at = "cas" => \/ g[b].at = "cas" /\ g'[b].loaded = g[b].loaded
                                                  \/ active < capacity /\ g'[b].loaded = active
<1> DEFINE Cas == \A b \in Agents :
                    g'[b].at = "cas" => \/ g[b].at = "cas" /\ g'[b].loaded = g[b].loaded
                                        \/ active < capacity /\ g'[b].loaded = active
<1> SUFFICES CountInv' /\ ListInv' /\ Cas
  OBVIOUS
<1>1. ASSUME NEW a \in Agents, NEW di \in Int, Moves(a, di) PROVE CountInv' /\ Cas
  <2>1. CountInv'
    BY <1>1, MovesCounted
  <2>2. Cas
    BY <1>1 DEF Moves
  <2> QED
    BY <2>1, <2>2
<1>2. Clients \subseteq Agents /\ Workers \subseteq Agents /\ Admin \in Agents /\ 0 \in Int
  BY DEF Agents
<1> HIDE DEF Cas
<1>3. ASSUME NEW a \in Agents, Step(a) PROVE CountInv' /\ ListInv' /\ Cas
  <2>1. CASE TryReturnConnSlow(a) /\ list # <<>>
    BY <2>1, HandOverCounted DEF Cas
  <2>2. CASE GetNewLoad(a) \/ GetNewCas(a) \/ Dial(a) \/ DialFails(a)
    BY <1>1, <1>2, <2>2, GetNewMoves, WaitersListed
  <2>3. CASE \/ OverCapacityLoad(a) \/ CloseOnOverCapacity(a) \/ TryReturnConn(a)
             \/ ReturnToStack(a) \/ (TryReturnConnSlow(a) /\ list = <<>>)
    BY <1>1, <2>3, ReturnMoves, WaitersListed
  <2>4. CASE TryReturnConnSlow(a)
    BY <2>1, <2>3, <2>4
  <2> QED
    BY <1>3, <2>2, <2>3, <2>4 DEF Step
<1>4. ASSUME NEW c \in Clients,
             \/ ClientStep(c) \/ WaitCancelled(c) \/ Recycle(c) \/ RecycleDiscarded(c)
             \/ \E s \in Labels : Get(c, s)
      PROVE  CountInv' /\ ListInv' /\ Cas
  <2>1. CASE LeaveList(c)
    <3>1. CountInv' /\ ListInv'
      BY <2>1, LeaveCounted
    <3>2. Cas
      <4>1. g' = [g EXCEPT ![c] = Resting(c)] /\ g \in [Agents -> Locals]
        BY <2>1 DEF LeaveList, Rest, CountInv
      <4>2. Resting(c).at = "out"
        BY DEF Resting
      <4> QED
        BY <1>2, <4>1, <4>2 DEF Cas
    <3> QED
      BY <3>1, <3>2
  <2>2. CASE WaitForConn(c) /\ open
    <3>1. CountInv' /\ ListInv'
      BY <2>2, JoinCounted
    <3>2. Cas
      <4>1. g' = [g EXCEPT ![c].at = "wait"] /\ g \in [Agents -> Locals]
        BY <2>2 DEF WaitForConn, Goto, CountInv
      <4>2. "wait" \in Steps
        BY DEF Steps, InProgress
      <4>3. Goes(c, "wait")
        BY <1>2, <4>1, <4>2, Updates
      <4> QED
        BY <1>2, <4>3 DEF Goes, Cas
    <3> QED
      BY <3>1, <3>2
  <2>3. CASE \/ \E s \in Labels : Get(c, s)
             \/ Pop(c) \/ GetFromSettingsStack(c) \/ (WaitForConn(c) /\ ~open)
             \/ Prepared(c) \/ PrepareFails(c) \/ Redial(c) \/ RedialFails(c)
             \/ Recycle(c) \/ RecycleDiscarded(c)
    BY <1>1, <1>2, <2>3, ClientMoves, WaitersListed
  <2>4. CASE WaitForConn(c)
    BY <2>2, <2>3, <2>4
  <2>5. CASE WaitClosed(c) \/ WaitCancelled(c)
    BY <2>1, <2>5 DEF WaitCancelled, WaitClosed
  <2> QED
    BY <1>4, <2>3, <2>4, <2>5 DEF ClientStep
<1>5. CASE \/ ExpireStep \/ ScrubStep
           \/ \E s \in Labels : ScrubTake(s) \/ \E n \in 1..idle[s] : CloseIdleResources(s, n)
  <2>1. (\E a \in Workers : \E di \in Int : Moves(a, di)) /\ WaitersKept
    BY <1>5, WorkerMoves DEF ExpireStep, ScrubStep, ListInv
  <2> QED
    BY <1>1, <1>2, <2>1, WaitersListed
<1>6. CASE AdminStep \/ Close \/ \E n \in scenario.capacities : SetCapacity(n)
  BY <1>1, <1>2, <1>6, AdminMoves, WaitersListed
<1> QED
  BY <1>3, <1>4, <1>5, <1>6 DEF PoolStep, Next

\* Only a compare-and-swap that finds what getNew has read takes a slot.
LEMMA ActiveGrows ==
  ASSUME CountInv, PoolStep
  PROVE  \/ active' \in Int /\ active' <= active
         \/ \E a \in Agents : g[a].at = "cas" /\ active = g[a].loaded /\ active' = active + 1
<1>1. active \in Nat /\ idle \in [Labels -> Nat]
  BY CounterTypes DEF CountInv
<1>2. /\ active \in Int /\ active - 1 \in Int /\ active + 0 \in Int
      /\ active - 1 <= active /\ active <= active /\ active + 0 <= active
      /\ \A n \in Nat : active - n \in Int /\ active - n <= active
  BY <1>1
<1>3. ASSUME NEW a \in Agents, Step(a)
      PROVE  \/ active' \in Int /\ active' <= active
             \/ g[a].at = "cas" /\ active = g[a].loaded /\ active' = active + 1
  <2>1. CASE GetNewCas(a)
    BY <1>2, <2>1 DEF GetNewCas, At
  <2>2. CASE ~GetNewCas(a)
    <3>1. active' = active \/ active' = active - 1
      BY <1>3, <2>2 DEF Step, GetNewLoad, Dial, DialFails, OverCapacityLoad, CloseOnOverCapacity,
         TryReturnConn, TryReturnConnSlow, ReturnToStack, counters
    <3> QED
      BY <1>2, <3>1
  <2> QED
    BY <2>1, <2>2
<1>4. ASSUME NEW c \in Clients,
             \/ ClientStep(c) \/ WaitCancelled(c) \/ Recycle(c) \/ RecycleDiscarded(c)
             \/ \E s \in Labels : Get(c, s)
      PROVE  active' \in Int /\ active' <= active
  <2>1. active' = active \/ active' = active - 1
    BY <1>4 DEF ClientStep, Pop, GetFromSettingsStack, WaitForConn, WaitClosed, WaitCancelled,
       LeaveList, Prepared, PrepareFails, Redial, RedialFails, Recycle, RecycleDiscarded, Put, Get,
       counters
  <2> QED
    BY <1>2, <2>1
<1>5. CASE \/ ExpireStep \/ ScrubStep \/ (\E s \in Labels : ScrubTake(s))
           \/ AdminStep \/ Close \/ \E n \in scenario.capacities : SetCapacity(n)
  <2>1. active' = active \/ active' = active - 1
    BY <1>5 DEF ExpireStep, ScrubStep, ExpireTick, TryReturnAnyConn, ScrubClean, ScrubDiverged,
       ScrubTake, AdminStep, SatisfyWaiters, ShrinkPop, ShrinkClose, ShrinkDone, Drained,
       DrainTimesOut, WorkersWait, Close, SetCapacity, counters
  <2> QED
    BY <1>2, <2>1
<1>6. ASSUME NEW s \in Labels, NEW n \in 1..idle[s], CloseIdleResources(s, n)
      PROVE  active' \in Int /\ active' <= active
  BY <1>2, <1>6 DEF CloseIdleResources
<1> QED
  BY <1>3, <1>4, <1>5, <1>6 DEF PoolStep, Next

\* Every step preserves the invariant.
LEMMA StepPool == PoolInv /\ [PoolStep]_<<vars, scenario>> => PoolInv'
<1> SUFFICES ASSUME PoolInv, [PoolStep]_<<vars, scenario>> PROVE PoolInv'
  OBVIOUS
<1>1. ConfigInv'
  BY StepConfig DEF PoolInv
<1>2. CASE UNCHANGED <<vars, scenario>>
  <2>1. UNCHANGED <<active, borrowed, requested, idle, list, g, scenario>>
    BY <1>2 DEF vars
  <2>2. CountInv'
    BY <2>1 DEF PoolInv, CountInv, CountersMatch, Count, IdleConns
  <2>3. ListInv' /\ CapInv'
    BY <2>1 DEF PoolInv, ListInv, CapInv, At, Given
  <2> QED
    BY <1>1, <2>2, <2>3 DEF PoolInv
<1>3. CASE PoolStep
  <2>1. /\ CountInv' /\ ListInv'
        /\ \A b \in Agents : g'[b].at = "cas" => \/ g[b].at = "cas" /\ g'[b].loaded = g[b].loaded
                                                 \/ active < capacity /\ g'[b].loaded = active
    BY <1>3, StepCounts DEF PoolInv
  <2>2. /\ \/ active' \in Int /\ active' <= active
           \/ \E a \in Agents : g[a].at = "cas" /\ active = g[a].loaded /\ active' = active + 1
    BY <1>3, ActiveGrows DEF PoolInv
  <2>3. active \in Nat /\ Given \subseteq Nat /\ Given' = Given
    BY <1>3, CounterTypes DEF PoolInv, ConfigInv, ScenarioType, Given, PoolStep
  <2>4. active < capacity => capacity \in Given
    BY <2>3 DEF PoolInv, ConfigInv
  <2>5. \E n \in Given : active' <= n
    <3>1. PICK n \in Given : active <= n
      BY DEF PoolInv, CapInv
    <3>2. CASE active' \in Int /\ active' <= active
      BY <2>3, <3>1, <3>2
    <3>3. CASE \E a \in Agents : g[a].at = "cas" /\ active = g[a].loaded /\ active' = active + 1
      <4>1. PICK m \in Given : active < m /\ active' = active + 1
        BY <3>3 DEF PoolInv, CapInv
      <4>2. active' <= m
        BY <2>3, <4>1
      <4> QED
        BY <4>2
    <3> QED
      BY <2>2, <3>2, <3>3
  <2>6. \A b \in Agents : g'[b].at = "cas" => \E n \in Given : g'[b].loaded < n
    BY <2>1, <2>4 DEF PoolInv, CapInv
  <2>7. CapInv'
    BY <2>3, <2>5, <2>6 DEF CapInv
  <2> QED
    BY <1>1, <2>1, <2>7 DEF PoolInv
<1> QED
  BY <1>2, <1>3

\* The pool opens empty.
LEMMA InitPool == Init => PoolInv
<1> SUFFICES ASSUME Init PROVE PoolInv
  OBVIOUS
<1>1. scenario \in ScenarioType /\ scenario.maxCapacity \in Nat /\ scenario.maxChanges \in Nat
  BY ConnPoolAssumption DEF Init, ScenarioType
<1>2. ConfigInv
  <2>1. IdleCountFor(scenario.maxCapacity) \in Nat
    BY <1>1, ConnPoolAssumption DEF IdleCountFor
  <2> QED
    BY <1>1, <2>1 DEF Init, ConfigInv, Given
<1>3. \A a \in Agents : g[a] = Resting(a) /\ g[a].at \in {"out", "rest"}
  BY RestingType DEF Init
<1>4. g \in [Agents -> Locals]
  BY RestingType DEF Init
<1>5. CapInv
  BY <1>1, <1>3 DEF Init, CapInv, Given
<1>6. ListInv
  <2>1. {c \in Clients : At(c, "wait")} = {}
    BY <1>3 DEF At, Agents
  <2>2. list = <<>> /\ <<>> \in Seq(Clients)
    BY DEF Init
  <2>3. Range(list) = {} /\ IsInjective(list)
    BY <2>2 DEF Range, IsInjective
  <2> QED
    BY <2>1, <2>2, <2>3 DEF ListInv
<1>7. CountInv
  <2>1. IdleConns = {} /\ idle \in [Labels -> Nat]
    BY DEF Init, IdleConns
  <2>2. /\ {a \in Agents : g[a].at \in HoldsSlot} = {} /\ {a \in Agents : g[a].at \in Lent} = {}
        /\ {c \in Clients : g[c].at \in InProgress} = {}
    BY <1>3 DEF HoldsSlot, Lent, InProgress, Agents
  <2>3. /\ Count(Agents, HoldsSlot) = 0 /\ Count(Agents, {"using", "probe"}) = 0
        /\ Count(Clients, InProgress) = 0
    BY <2>2, FS_EmptySet DEF Count, Lent
  <2>4. IsFiniteSet(IdleConns) /\ Cardinality(IdleConns) = 0
    BY <2>1, FS_EmptySet
  <2>5. active = 0 /\ borrowed = 0 /\ requested = 0
    BY DEF Init
  <2> QED
    BY <1>4, <2>1, <2>3, <2>4, <2>5 DEF CountInv, CountersMatch
<1> QED
  BY <1>2, <1>5, <1>6, <1>7 DEF PoolInv

\* The invariant always holds.
LEMMA PoolAlways == Spec => []PoolInv
BY InitPool, StepPool, PTL DEF Spec, PoolStep

\* Every variable keeps its type, and the waitlist holds the waiters, each once: a
\* waiter that gives up and a connection handed over never meet the same entry.
THEOREM PoolTypes == Spec => []PoolTypeOK
<1>1. PoolInv => PoolTypeOK
  BY DEF PoolInv, CountInv, ListInv, ConfigInv, PoolTypeOK, Locals
<1> QED
  BY <1>1, PoolAlways, PTL

\* No slot leaks and none is given away twice, for any number of clients and
\* connections and whatever fails: active, borrowed and requested count exactly the
\* connections and the requests they stand for.
THEOREM CountersAlwaysMatch == Spec => []CountersMatch
<1>1. PoolInv => CountersMatch
  BY DEF PoolInv, CountInv
<1> QED
  BY <1>1, PoolAlways, PTL

\* The pool never opens more connections than the largest capacity it was given.
THEOREM CapacityRespected == Spec => []ActiveWithinCapacity
<1>1. PoolInv => ActiveWithinCapacity
  <2> SUFFICES ASSUME PoolInv PROVE ActiveWithinCapacity
    OBVIOUS
  <2>1. active \in Nat /\ Given \subseteq Nat
    BY CounterTypes DEF PoolInv, ConfigInv, ScenarioType, Given
  <2>2. PICK n \in Given : active <= n
    BY DEF PoolInv, CapInv
  <2>3. active \in 0..n
    BY <2>1, <2>2
  <2> QED
    BY <2>2, <2>3 DEF ActiveWithinCapacity, Given
<1> QED
  BY <1>1, PoolAlways, PTL

=============================================================================
