------------------------- MODULE TermPromisesProofs -------------------------
(***************************************************************************)
(* Of two attempts at one term at most one wins, for any number of poolers,*)
(* attempts and terms.  AcceptancesDisjoint alone is not inductive: it     *)
(* needs AcceptanceHolds, that what a pooler has accepted bounds from below*)
(* what it has promised since, to exclude that a pooler which accepted an  *)
(* attempt accepts another one at the same term later.                     *)
(***************************************************************************)
EXTENDS TermPromises, FiniteSetTheorems, TLAPS

Inv == TypeOK /\ AcceptanceHolds /\ AcceptancesDisjoint

\* A term is a natural number.
LEMMA TermType ==
    ASSUME PromisesAssumption, TypeOK
    PROVE  \A a \in Attempts : term[a] \in Nat
<1>1. Terms \cup {0} \subseteq Nat
  BY DEF PromisesAssumption
<1> QED
  BY <1>1 DEF TypeOK

\* The initial state: nothing is promised.
LEMMA InitInv ==
    ASSUME PromisesAssumption, Init
    PROVE  Inv
BY DEF PromisesAssumption, Init, Inv, TypeOK, AcceptanceHolds, AcceptancesDisjoint

\* Authoring a revocation leaves the acceptances of the other attempts alone; its
\* own attempt has none yet.
LEMMA AuthorInv ==
    ASSUME PromisesAssumption, Inv, NEW a \in Attempts, NEW t \in Terms, Author(a, t)
    PROVE  Inv'
<1>1. TypeOK'
  BY DEF PromisesAssumption, Inv, TypeOK, Author
<1>2. AcceptanceHolds'
  <2> SUFFICES ASSUME NEW b \in Attempts, NEW p \in accepted[b]
               PROVE  /\ term'[b] # 0
                      /\ promise[p] # 0
                      /\ promise[p] = b \/ term'[b] < term'[promise[p]]
    BY DEF AcceptanceHolds, Author
  <2>1. /\ p \in Poolers
        /\ term[b] # 0
        /\ promise[p] # 0
        /\ promise[p] = b \/ term[b] < term[promise[p]]
    BY DEF Inv, AcceptanceHolds, TypeOK
  <2>2. promise[p] \in Attempts
    BY <2>1 DEF Inv, TypeOK
  <2>3. b # a
    BY <2>1 DEF Author
  <2>4. term'[b] = term[b]
    BY <2>3 DEF Author, Inv, TypeOK
  <2>5. CASE promise[p] = b
    BY <2>1, <2>4, <2>5
  <2>6. CASE promise[p] # b
    <3>1. term[promise[p]] # 0
      BY <2>1, <2>2, <2>6, TermType DEF Inv
    <3>2. term'[promise[p]] = term[promise[p]]
      BY <2>2, <3>1 DEF Author, Inv, TypeOK
    <3> QED
      BY <2>1, <2>4, <2>6, <3>2
  <2> QED
    BY <2>5, <2>6
<1>3. AcceptancesDisjoint'
  <2>1. accepted[a] = {}
    BY DEF Author, Inv, TypeOK, AcceptanceHolds
  <2> QED
    BY <2>1 DEF Author, Inv, TypeOK, AcceptancesDisjoint
<1> QED
  BY <1>1, <1>2, <1>3 DEF Inv

\* Accepting an attempt raises the pooler's promise.
LEMMA AcceptInv ==
    ASSUME PromisesAssumption, Inv, NEW a \in Attempts, NEW q \in Poolers, Accept(a, q)
    PROVE  Inv'
<1>1. TypeOK'
  BY DEF PromisesAssumption, Inv, TypeOK, Accept
<1>2. AcceptanceHolds'
  <2> SUFFICES ASSUME NEW b \in Attempts, NEW p \in accepted'[b]
               PROVE  /\ term[b] # 0
                      /\ promise'[p] # 0
                      /\ promise'[p] = b \/ term[b] < term[promise'[p]]
    BY DEF AcceptanceHolds, Accept
  <2>1. p \in accepted[b] \/ (b = a /\ p = q)
    BY DEF Accept, Inv, TypeOK
  <2>2. CASE b = a /\ p = q
    BY <2>2 DEF PromisesAssumption, Accept, Inv, TypeOK
  <2>3. CASE p \in accepted[b]
    <3>1. /\ p \in Poolers
          /\ term[b] # 0
          /\ promise[p] # 0
          /\ promise[p] = b \/ term[b] < term[promise[p]]
      BY <2>3 DEF Inv, AcceptanceHolds, TypeOK
    <3>2. CASE p # q
      <4>1. promise'[p] = promise[p]
        BY <3>1, <3>2 DEF Accept, Inv, TypeOK
      <4> QED
        BY <3>1, <4>1
    <3>3. CASE p = q
      <4>1. promise'[p] = a /\ MayAccept(a, p)
        BY <3>3 DEF Accept, Inv, TypeOK
      <4>2. promise[p] \in Attempts
        BY <3>1 DEF Inv, TypeOK
      <4>3. promise[p] = a \/ term[promise[p]] < term[a]
        BY <3>1, <4>1 DEF MayAccept
      <4>4. /\ term[a] \in Nat
            /\ term[b] \in Nat
            /\ term[promise[p]] \in Nat
        BY <4>2, TermType DEF Inv
      <4> QED
        BY <3>1, <4>1, <4>3, <4>4 DEF PromisesAssumption
    <3> QED
      BY <3>2, <3>3
  <2> QED
    BY <2>1, <2>2, <2>3
<1>3. AcceptancesDisjoint'
  <2>1. ASSUME NEW b \in Attempts, b # a, term[b] = term[a], q \in accepted[b]
        PROVE  FALSE
    <3>1. /\ promise[q] \in Attempts
          /\ promise[q] = b \/ term[b] < term[promise[q]]
      BY <2>1 DEF Inv, TypeOK, AcceptanceHolds
    <3>2. promise[q] \notin {0, a} => term[promise[q]] < term[a]
      BY DEF Accept, MayAccept
    <3>3. term[a] \in Nat /\ term[promise[q]] \in Nat
      BY <3>1, TermType DEF Inv
    <3>4. CASE promise[q] = b
      BY <2>1, <3>2, <3>3, <3>4 DEF PromisesAssumption
    <3>5. CASE promise[q] # b
      BY <2>1, <3>1, <3>2, <3>3, <3>5 DEF PromisesAssumption
    <3> QED
      BY <3>4, <3>5
  <2>2. \A b \in Attempts : accepted'[b] = IF b = a THEN accepted[a] \cup {q} ELSE accepted[b]
    BY DEF Accept, Inv, TypeOK
  <2>3. ASSUME NEW b \in Attempts, NEW c \in Attempts, b # c, term[b] = term[c]
        PROVE  accepted'[b] \cap accepted'[c] = {}
    <3>1. accepted[b] \cap accepted[c] = {}
      BY <2>3 DEF Inv, AcceptancesDisjoint
    <3> QED
      BY <2>1, <2>2, <2>3, <3>1
  <2> QED
    BY <2>3 DEF AcceptancesDisjoint, Accept
<1> QED
  BY <1>1, <1>2, <1>3 DEF Inv

\* A step that changes nothing.
LEMMA StutterInv ==
    ASSUME Inv, UNCHANGED promises
    PROVE  Inv'
BY DEF Inv, TypeOK, AcceptanceHolds, AcceptancesDisjoint, promises

\* The acceptances of a promise book hold in every behaviour of it.
THEOREM AcceptancesHold ==
    ASSUME PromisesAssumption
    PROVE  Spec => []Inv
<1>1. Init => Inv
  BY InitInv
<1>2. Inv /\ [Next]_promises => Inv'
  <2> SUFFICES ASSUME Inv, [Next]_promises
               PROVE  Inv'
    OBVIOUS
  <2>1. CASE Next
    BY <2>1, AuthorInv, AcceptInv DEF Next
  <2>2. CASE UNCHANGED promises
    BY <2>2, StutterInv
  <2> QED
    BY <2>1, <2>2
<1> QED
  BY <1>1, <1>2, PTL DEF Spec

\* Two majorities of one finite cohort have a member in common.
LEMMA MajoritiesMeet ==
    ASSUME PromisesAssumption,
           NEW cohort \in SUBSET Poolers, NEW S, NEW T,
           Majority(cohort, S), Majority(cohort, T)
    PROVE  S \cap T # {}
<1>1. IsFiniteSet(cohort)
  BY FS_Subset DEF PromisesAssumption
<1>2. /\ IsFiniteSet(cohort \cap S)
      /\ IsFiniteSet(cohort \cap T)
  BY <1>1, FS_Intersection
<1>3. /\ Cardinality(cohort) \in Nat
      /\ Cardinality(cohort \cap S) \in Nat
      /\ Cardinality(cohort \cap T) \in Nat
  BY <1>1, <1>2, FS_CardinalityType
<1>4. Cardinality(cohort \cap S) + Cardinality(cohort \cap T) > Cardinality(cohort)
  BY <1>3 DEF Majority
<1>5. (cohort \cap S) \cap (cohort \cap T) # {}
  BY <1>1, <1>4, FS_MajoritiesIntersect
<1> QED
  BY <1>5

\* The invariant leaves room for one winner of each term.
LEMMA InvOneWinner ==
    ASSUME PromisesAssumption, Inv
    PROVE  OneWinner
<1> SUFFICES ASSUME NEW a \in Attempts, NEW b \in Attempts,
                    a # b, term[a] = term[b]
             PROVE  /\ accepted[a] \cap accepted[b] = {}
                    /\ \A cohort \in SUBSET Poolers :
                         ~(Majority(cohort, accepted[a]) /\ Majority(cohort, accepted[b]))
  BY DEF OneWinner
<1>1. accepted[a] \cap accepted[b] = {}
  BY DEF Inv, AcceptancesDisjoint
<1> QED
  BY <1>1, MajoritiesMeet

\* Of the attempts at one term, however many coordinators make them and whatever
\* the cohort they recruit from, at most one gathers a majority.
THEOREM AtMostOneWinner ==
    ASSUME PromisesAssumption
    PROVE  Spec => []OneWinner
<1>1. Inv => OneWinner
  BY InvOneWinner
<1>2. Spec => []Inv
  BY AcceptancesHold
<1> QED
  BY <1>1, <1>2, PTL

=============================================================================
