----------------------------- MODULE SwissProofs -----------------------------
(***************************************************************************)
(* Proofs about SwissRounds, for every finite set of players, every set of *)
(* scores and any number of rounds.                                        *)
(***************************************************************************)
EXTENDS SwissRounds, FiniteSetTheorems, SequenceTheorems, WellFoundedInduction, TLAPS

-----------------------------------------------------------------------------
(* Finite sets *)

LEMMA LeastNatural ==
    ASSUME NEW T \in SUBSET Nat, T # {}
    PROVE  \E n \in T : \A m \in T : n <= m
<1>1. PICK n \in T : \A m \in T : <<m, n>> \notin OpToRel(<, Nat)
      BY NatLessThanWellFounded, WFMin
<1>2. \A m \in T : ~(m < n)
      BY <1>1 DEF OpToRel
<1> QED
      BY <1>2

LEMMA LeastIsMember ==
    ASSUME NEW T \in SUBSET Nat, T # {}
    PROVE  Min(T) \in T /\ \A m \in T : Min(T) <= m
BY LeastNatural DEF Min

Some(s) == CHOOSE x \in s : TRUE

LEMMA OneFewer ==
    ASSUME NEW s, IsFiniteSet(s), NEW x \in s
    PROVE  /\ IsFiniteSet(s \ {x})
           /\ Cardinality(s) \in Nat \ {0}
           /\ Cardinality(s \ {x}) = Cardinality(s) - 1
<1>1. Cardinality(s) \in Nat /\ Cardinality(s) # 0
      BY FS_CardinalityType, FS_EmptySet
<1>2. IsFiniteSet(s \ {x}) /\ Cardinality(s \ {x}) = Cardinality(s) - 1
      BY FS_RemoveElement
<1> QED
      BY <1>1, <1>2

LEMMA TwoSeats ==
    ASSUME NEW t
    PROVE  IsFiniteSet(t) /\ Cardinality(t) = 2 <=> \E a, b : a # b /\ t = {a, b}
<1>1. ASSUME IsFiniteSet(t), Cardinality(t) = 2
      PROVE  \E a, b : a # b /\ t = {a, b}
  <2>1. PICK a : a \in t
        BY <1>1, FS_EmptySet
  <2>2. Cardinality(t \ {a}) = 1 /\ IsFiniteSet(t \ {a})
        BY <1>1, <2>1, OneFewer
  <2>3. PICK b : t \ {a} = {b}
        BY <2>2, FS_Singleton
  <2> QED
        BY <2>1, <2>3
<1>2. ASSUME NEW a, NEW b, a # b, t = {a, b}
      PROVE  IsFiniteSet(t) /\ Cardinality(t) = 2
  <2>1. IsFiniteSet({a}) /\ Cardinality({a}) = 1 /\ t = {a} \cup {b} /\ b \notin {a}
        BY <1>2, FS_Singleton
  <2> QED
        BY <2>1, FS_AddElement
<1> QED
      BY <1>1, <1>2

-----------------------------------------------------------------------------
(* tryPair *)

Orderings(S, N) == UNION {[1..n -> S] : n \in 0..N}

Cost(o, i, played) == IF {o[1], o[i]} \in played THEN 1 ELSE 0

Sub(try, o, i, b, played) == try[Without(o, i)][b - Cost(o, i, played)]

Fits(try, o, b, played) ==
    {i \in 2..Len(o) : Cost(o, i, played) <= b /\ Sub(try, o, i, b, played) # NoPairing}

\* One call of tryPair, with try for the calls it makes.
Call(try, o, b, played) ==
    IF Len(o) = 0 THEN {}
    ELSE IF Fits(try, o, b, played) = {} THEN NoPairing
    ELSE LET i == Min(Fits(try, o, b, played))
         IN  {{o[1], o[i]}} \cup Sub(try, o, i, b, played)

\* The recursion of TryPair on the orders of up to N members of S.
Tries(try, S, N, played, budget) ==
    try = [o \in Orderings(S, N) |-> [b \in 0..budget |-> Call(try, o, b, played)]]

LEMMA OrderingLength ==
    ASSUME NEW S, NEW n \in Nat, NEW o \in [1..n -> S]
    PROVE  Len(o) = n /\ DOMAIN o = 1..n
OBVIOUS

LEMMA WithoutIsOrdering ==
    ASSUME NEW S, NEW n \in Nat, NEW o \in [1..n -> S], NEW i \in 2..n
    PROVE  /\ n - 2 \in Nat
           /\ Without(o, i) \in [1..(n - 2) -> S]
           /\ \A j \in 1..(n - 2) : Without(o, i)[j] = IF j + 1 < i THEN o[j + 1] ELSE o[j + 2]
<1>1. Len(o) = n
      BY OrderingLength
<1>2. \A j \in 1..(n - 2) : j + 1 \in 1..n /\ j + 2 \in 1..n
      OBVIOUS
<1>3. Without(o, i) = [j \in 1..(n - 2) |-> IF j + 1 < i THEN o[j + 1] ELSE o[j + 2]]
      BY <1>1 DEF Without
<1> QED
      BY <1>2, <1>3

\* A call depends only on the calls it makes.
LEMMA CallsAgree ==
    ASSUME NEW f, NEW g, NEW o, NEW b \in Nat, NEW played,
           \A i \in 2..Len(o) : Cost(o, i, played) <= b =>
               Sub(f, o, i, b, played) = Sub(g, o, i, b, played)
    PROVE  Call(f, o, b, played) = Call(g, o, b, played)
<1>1. Fits(f, o, b, played) = Fits(g, o, b, played)
      BY DEF Fits
<1>2. CASE Fits(f, o, b, played) = {}
      BY <1>1, <1>2 DEF Call
<1>3. CASE Fits(f, o, b, played) # {}
  <2>1. Min(Fits(f, o, b, played)) \in Fits(f, o, b, played)
    <3>1. Fits(f, o, b, played) \in SUBSET Nat
          BY DEF Fits
    <3> HIDE DEF Fits
    <3> QED
          BY <1>3, <3>1, LeastNatural DEF Min
  <2> DEFINE i == Min(Fits(f, o, b, played))
  <2>2. i \in 2..Len(o) /\ Cost(o, i, played) <= b
        BY <2>1 DEF Fits
  <2> HIDE DEF i
  <2>3. Sub(f, o, i, b, played) = Sub(g, o, i, b, played)
        BY <2>2
  <2> QED
        BY <1>1, <1>3, <2>3 DEF Call, i
<1> QED
      BY <1>2, <1>3

LEMMA CostIsBit ==
    ASSUME NEW o, NEW i, NEW played
    PROVE  Cost(o, i, played) \in {0, 1}
BY DEF Cost

LEMMA TriesExist ==
    ASSUME NEW S, NEW N \in Nat, NEW played, NEW budget \in Nat
    PROVE  \E try : Tries(try, S, N, played, budget)
<1> DEFINE T == {n \in Nat : ~ \E try : Tries(try, S, n, played, budget)}
<1>1. SUFFICES ASSUME T # {}
               PROVE  FALSE
      OBVIOUS
<1>2. PICK n \in T : \A m \in T : n <= m
  <2>1. T \in SUBSET Nat
        OBVIOUS
  <2> HIDE DEF T
  <2> QED
        BY <1>1, <2>1, LeastNatural
<1>3. n \in Nat /\ ~ \E try : Tries(try, S, n, played, budget)
      BY <1>2
<1>4. CASE n = 0
  <2> DEFINE f == [o \in Orderings(S, n) |-> [b \in 0..budget |-> {}]]
  <2>1. \A o \in Orderings(S, n) : Len(o) = 0
        BY <1>4 DEF Orderings
  <2>2. \A o \in Orderings(S, n) : \A b \in 0..budget : {} = Call(f, o, b, played)
        BY <2>1 DEF Call
  <2>3. f = [o \in Orderings(S, n) |-> [b \in 0..budget |-> Call(f, o, b, played)]]
    <3> HIDE DEF f
    <3>1. \A o \in Orderings(S, n) :
              [b \in 0..budget |-> {}] = [b \in 0..budget |-> Call(f, o, b, played)]
          BY <2>2
    <3> QED
          BY <3>1 DEF f
  <2>4. Tries(f, S, n, played, budget)
        BY <2>3 DEF Tries
  <2> QED
        BY <1>3, <2>4
<1>5. CASE n # 0
  <2>1. n - 1 \in Nat /\ n - 1 \notin T
    <3> HIDE DEF T
    <3> QED
        BY <1>2, <1>3, <1>5
  <2>2. PICK g : Tries(g, S, n - 1, played, budget)
        BY <2>1
  <2> DEFINE h == [o \in Orderings(S, n) |-> [b \in 0..budget |-> Call(g, o, b, played)]]
  <2>3. \A o \in Orderings(S, n - 1) : o \in Orderings(S, n) /\ h[o] = g[o]
    <3> TAKE o \in Orderings(S, n - 1)
    <3>1. o \in Orderings(S, n)
          BY <1>3 DEF Orderings
    <3>2. g[o] = [b \in 0..budget |-> Call(g, o, b, played)]
          BY <2>2 DEF Tries
    <3> QED
          BY <3>1, <3>2
  <2> HIDE DEF h
  <2>4. ASSUME NEW o \in Orderings(S, n), NEW b \in 0..budget
        PROVE  Call(g, o, b, played) = Call(h, o, b, played)
    <3>1. PICK k \in 0..n : o \in [1..k -> S]
          BY DEF Orderings
    <3>2. Len(o) = k
          BY <3>1, OrderingLength
    <3>3. ASSUME NEW i \in 2..Len(o)
          PROVE  Sub(g, o, i, b, played) = Sub(h, o, i, b, played)
      <4>1. Without(o, i) \in [1..(k - 2) -> S] /\ k - 2 \in 0..(n - 1)
        <5> k \in Nat /\ i \in 2..k /\ n \in Nat
            BY <1>3, <3>2, <3>3
        <5>1. k - 2 \in Nat /\ Without(o, i) \in [1..(k - 2) -> S]
              BY <3>1, WithoutIsOrdering
        <5> QED
            BY <5>1
      <4>2. Without(o, i) \in Orderings(S, n - 1)
            BY <4>1 DEF Orderings
      <4> QED
            BY <2>3, <4>2 DEF Sub
    <3> QED
          BY <3>3, CallsAgree
  <2>5. \A o \in Orderings(S, n) :
            [b \in 0..budget |-> Call(g, o, b, played)] = [b \in 0..budget |-> Call(h, o, b, played)]
        BY <2>4
  <2>6. h = [o \in Orderings(S, n) |-> [b \in 0..budget |-> Call(h, o, b, played)]]
        BY <2>5 DEF h
  <2>7. Tries(h, S, n, played, budget)
        BY <2>6 DEF Tries
  <2> QED
        BY <1>3, <2>7
<1> QED
      BY <1>4, <1>5

LEMMA TryPairIs ==
    ASSUME NEW order, Len(order) \in Nat, NEW played, NEW budget \in Nat
    PROVE  \E try : /\ Tries(try, Range(order), Len(order), played, budget)
                    /\ TryPair(order, played, budget) = try[order][budget]
<1> DEFINE try == CHOOSE f : Tries(f, Range(order), Len(order), played, budget)
<1>1. Tries(try, Range(order), Len(order), played, budget)
      BY TriesExist
<1>2. TryPair(order, played, budget) = try[order][budget]
      BY DEF TryPair, Tries, Call, Fits, Sub, Cost, Orderings
<1> QED
      BY <1>1, <1>2

\* Players of S at tables of two, each at one of them.
Perfect(P, S) ==
    /\ \A t \in P : \E p, q \in S : p # q /\ t = {p, q}
    /\ \A p \in S : \E t \in P : p \in t
    /\ \A t, u \in P : t # u => t \cap u = {}

LEMMA WithoutLeavesTheRest ==
    ASSUME NEW S, NEW n \in Nat, NEW o \in [1..n -> S], IsInjective(o), NEW i \in 2..n
    PROVE  /\ n - 2 \in Nat
           /\ Without(o, i) \in [1..(n - 2) -> S]
           /\ IsInjective(Without(o, i))
           /\ Range(Without(o, i)) = Range(o) \ {o[1], o[i]}
           /\ o[1] # o[i] /\ o[1] \in Range(o) /\ o[i] \in Range(o)
<1> DEFINE w == Without(o, i)
<1>1. /\ n - 2 \in Nat /\ DOMAIN w = 1..(n - 2) /\ DOMAIN o = 1..n
      /\ \A j \in 1..(n - 2) : w[j] = IF j + 1 < i THEN o[j + 1] ELSE o[j + 2]
  <2>1. n - 2 \in Nat /\ DOMAIN o = 1..n /\ Len(o) = n
        BY OrderingLength
  <2>2. w = [j \in 1..(n - 2) |-> IF j + 1 < i THEN o[j + 1] ELSE o[j + 2]]
        BY <2>1 DEF Without
  <2> HIDE DEF w
  <2> QED
      BY <2>1, <2>2
<1>2. \A x, y \in 1..n : o[x] = o[y] => x = y
      BY <1>1 DEF IsInjective
<1> HIDE DEF w
<1>3. \A j \in 1..(n - 2) : \E x \in 1..n :
          /\ w[j] = o[x] /\ x # 1 /\ x # i
          /\ x = IF j + 1 < i THEN j + 1 ELSE j + 2
  <2> TAKE j \in 1..(n - 2)
  <2>1. w[j] = IF j + 1 < i THEN o[j + 1] ELSE o[j + 2]
        BY <1>1
  <2>2. j + 1 \in 1..n /\ j + 2 \in 1..n /\ i \in Nat /\ j + 1 # 1 /\ j + 2 # 1
        BY <1>1
  <2>3. CASE j + 1 < i
        BY <2>1, <2>2, <2>3
  <2>4. CASE ~(j + 1 < i)
    <3>1. j + 2 # i
          BY <2>2, <2>4
    <3> QED
        BY <2>1, <2>2, <2>4, <3>1
  <2> QED
      BY <2>3, <2>4
<1>4. \A x \in 1..n : x # 1 /\ x # i => \E j \in 1..(n - 2) : w[j] = o[x]
  <2> SUFFICES ASSUME NEW x \in 1..n, x # 1, x # i
               PROVE  \E j \in 1..(n - 2) : w[j] = o[x]
      OBVIOUS
  <2>1. CASE x < i
    <3>1. x - 1 \in 1..(n - 2) /\ (x - 1) + 1 < i /\ (x - 1) + 1 = x
          BY <2>1
    <3>2. w[x - 1] = o[x]
          BY <1>1, <3>1
    <3> QED
        BY <3>1, <3>2
  <2>2. CASE ~(x < i)
    <3>1. x - 2 \in 1..(n - 2) /\ ~((x - 2) + 1 < i) /\ (x - 2) + 2 = x
          BY <2>2
    <3>2. w[x - 2] = o[x]
      <4>1. w[x - 2] = IF (x - 2) + 1 < i THEN o[(x - 2) + 1] ELSE o[(x - 2) + 2]
            BY <1>1, <3>1
      <4> QED
          BY <3>1, <4>1
    <3> QED
        BY <3>1, <3>2
  <2> QED
      BY <2>1, <2>2
<1>5. o[1] # o[i] /\ o[1] \in Range(o) /\ o[i] \in Range(o)
      BY <1>1, <1>2 DEF Range
<1>6. IsInjective(w)
  <2> SUFFICES ASSUME NEW j \in 1..(n - 2), NEW k \in 1..(n - 2), w[j] = w[k]
               PROVE  j = k
      BY <1>1 DEF IsInjective
  <2>1. PICK x \in 1..n : w[j] = o[x] /\ x = IF j + 1 < i THEN j + 1 ELSE j + 2
        BY <1>3
  <2>2. PICK y \in 1..n : w[k] = o[y] /\ y = IF k + 1 < i THEN k + 1 ELSE k + 2
        BY <1>3
  <2>3. x = y
        BY <1>2, <2>1, <2>2
  <2> QED
      BY <2>1, <2>2, <2>3
<1>7. Range(w) = Range(o) \ {o[1], o[i]}
  <2>1. ASSUME NEW e \in Range(w)
        PROVE  e \in Range(o) \ {o[1], o[i]}
    <3>1. PICK j \in 1..(n - 2) : e = w[j]
          BY <1>1 DEF Range
    <3>2. PICK x \in 1..n : e = o[x] /\ x # 1 /\ x # i
          BY <1>3, <3>1
    <3>3. o[x] # o[1] /\ o[x] # o[i] /\ x \in DOMAIN o
          BY <1>1, <1>2, <3>2
    <3> QED
        BY <3>2, <3>3 DEF Range
  <2>2. ASSUME NEW e \in Range(o) \ {o[1], o[i]}
        PROVE  e \in Range(w)
    <3>1. PICK x \in 1..n : e = o[x] /\ x # 1 /\ x # i
          BY <1>1 DEF Range
    <3> QED
        BY <1>1, <1>4, <3>1 DEF Range
  <2> QED
      BY <2>1, <2>2
<1>8. w \in [1..(n - 2) -> S]
      BY WithoutIsOrdering DEF w
<1> QED
    BY <1>1, <1>5, <1>6, <1>7, <1>8 DEF w

\* A table and a pairing of the others are a pairing, and the other way round.
LEMMA OneMoreTable ==
    ASSUME NEW S, NEW p \in S, NEW q \in S, p # q, NEW P, Perfect(P, S \ {p, q})
    PROVE  Perfect({{p, q}} \cup P, S) /\ {p, q} \notin P
<1>1. \A t \in P : \E a, b \in S \ {p, q} : a # b /\ t = {a, b}
      BY DEF Perfect
<1>2. \A t \in P : t \cap {p, q} = {}
      BY <1>1
<1>3. {p, q} \notin P
      BY <1>2
<1>4. \A t \in {{p, q}} \cup P : \E a, b \in S : a # b /\ t = {a, b}
      BY <1>1
<1>5. \A a \in S : \E t \in {{p, q}} \cup P : a \in t
      BY DEF Perfect
<1>6. \A t, u \in {{p, q}} \cup P : t # u => t \cap u = {}
      BY <1>2 DEF Perfect
<1> QED
    BY <1>3, <1>4, <1>5, <1>6 DEF Perfect

LEMMA OneTableLess ==
    ASSUME NEW S, NEW P, Perfect(P, S), NEW p \in S, NEW q \in S, p # q, {p, q} \in P
    PROVE  Perfect(P \ {{p, q}}, S \ {p, q})
<1>1. \A t \in P \ {{p, q}} : t \cap {p, q} = {}
      BY DEF Perfect
<1>2. \A t \in P \ {{p, q}} : \E a, b \in S \ {p, q} : a # b /\ t = {a, b}
  <2> TAKE t \in P \ {{p, q}}
  <2>1. PICK a \in S, b \in S : a # b /\ t = {a, b}
        BY DEF Perfect
  <2>2. a \notin {p, q} /\ b \notin {p, q}
        BY <1>1, <2>1
  <2> QED
      BY <2>1, <2>2
<1>3. \A a \in S \ {p, q} : \E t \in P \ {{p, q}} : a \in t
  <2> TAKE a \in S \ {p, q}
  <2>1. PICK t \in P : a \in t
        BY DEF Perfect
  <2> QED
      BY <2>1
<1>4. \A t, u \in P \ {{p, q}} : t # u => t \cap u = {}
      BY DEF Perfect
<1> QED
    BY <1>2, <1>3, <1>4 DEF Perfect

LEMMA TryIsCall ==
    ASSUME NEW S, NEW N \in Nat, NEW played, NEW budget \in Nat,
           NEW try, Tries(try, S, N, played, budget),
           NEW n \in 0..N, NEW o \in [1..n -> S], NEW b \in 0..budget
    PROVE  try[o][b] = Call(try, o, b, played) /\ Len(o) = n /\ DOMAIN o = 1..n
<1>1. o \in Orderings(S, N)
      BY DEF Orderings
<1>2. try[o] = [a \in 0..budget |-> Call(try, o, a, played)]
      BY <1>1 DEF Tries
<1>3. try[o][b] = Call(try, o, b, played)
      BY <1>2
<1>4. n \in Nat
      OBVIOUS
<1> QED
    BY <1>3, <1>4, OrderingLength

\* What tryPair returns is a pairing with no more rematches than the budget.
LEMMA TriesAreSound ==
    ASSUME NEW S, NEW N \in Nat, NEW played, NEW budget \in Nat,
           NEW try, Tries(try, S, N, played, budget),
           NEW n \in 0..N, NEW o \in [1..n -> S], IsInjective(o),
           NEW b \in 0..budget, try[o][b] # NoPairing
    PROVE  /\ Perfect(try[o][b], Range(o))
           /\ IsFiniteSet(try[o][b])
           /\ Cardinality(try[o][b] \cap played) <= b
<1>0. \A k \in 0..N : \A x \in [1..k -> S] : \A c \in 0..budget :
          try[x][c] = Call(try, x, c, played) /\ Len(x) = k /\ DOMAIN x = 1..k
      BY TryIsCall
<1> DEFINE Sound(l, a) ==
               /\ Perfect(try[l][a], Range(l))
               /\ IsFiniteSet(try[l][a])
               /\ Cardinality(try[l][a] \cap played) <= a
           Bad(l, a) == IsInjective(l) /\ try[l][a] # NoPairing /\ ~Sound(l, a)
           T == {m \in 0..N : \E l \in [1..m -> S], a \in 0..budget : Bad(l, a)}
<1>1. SUFFICES ASSUME T # {}
               PROVE  FALSE
      OBVIOUS
<1>2. PICK m \in T : \A k \in T : m <= k
  <2>1. T \in SUBSET Nat
        OBVIOUS
  <2> HIDE DEF T
  <2> QED
      BY <1>1, <2>1, LeastNatural
<1>3. m \in 0..N /\ m \in Nat
      BY <1>2
<1>4. PICK l \in [1..m -> S], a \in 0..budget : Bad(l, a)
      BY <1>2
<1> HIDE DEF T, Bad, Sound
<1>5. try[l][a] = Call(try, l, a, played) /\ Len(l) = m /\ DOMAIN l = 1..m
  <2>1. l \in [1..m -> S] /\ a \in 0..budget
        BY <1>4
  <2> QED
      BY ONLY <1>0, <1>3, <2>1
<1>6. CASE m = 0
  <2>1. try[l][a] = {} /\ Range(l) = {}
        BY <1>5, <1>6 DEF Call, Range
  <2>2. Sound(l, a)
        BY <2>1, <1>4, FS_EmptySet DEF Perfect, Sound
  <2> QED
      BY <1>4, <2>2 DEF Bad
<1>7. CASE m # 0
  <2> DEFINE F == Fits(try, l, a, played)
             i == Min(F)
             w == Without(l, i)
             c == Cost(l, i, played)
             t == {l[1], l[i]}
             P == try[w][a - c]
  <2>1. try[l][a] = IF F = {} THEN NoPairing ELSE {t} \cup P
        BY <1>3, <1>5, <1>7 DEF Call, Sub
  <2>2. F # {}
        BY <1>4, <2>1 DEF Bad
  <2>3. i \in F
    <3>1. F \in SUBSET Nat
          BY DEF Fits
    <3> HIDE DEF F
    <3> QED
        BY <2>2, <3>1, LeastNatural DEF Min
  <2>4. i \in 2..m /\ c <= a /\ P # NoPairing /\ c \in {0, 1}
        BY <2>3, <1>5, CostIsBit DEF Fits, Sub
  <2>5. c = IF t \in played THEN 1 ELSE 0
        BY DEF Cost
  <2> HIDE DEF F, i, c
  <2>6. m - 2 \in 0..N /\ m - 2 \notin T /\ a - c \in 0..budget
    <3>1. m - 2 \in 0..N /\ m - 2 < m /\ a - c \in 0..budget
          BY <1>3, <1>4, <2>4
    <3> QED
        BY <1>2, <1>3, <3>1
  <2>7. /\ w \in [1..(m - 2) -> S] /\ IsInjective(w)
        /\ Range(w) = Range(l) \ t
        /\ l[1] # l[i] /\ l[1] \in Range(l) /\ l[i] \in Range(l)
    <3>1. IsInjective(l)
          BY <1>4 DEF Bad
    <3>2. m \in Nat /\ l \in [1..m -> S] /\ i \in 2..m
          BY <1>3, <1>4, <2>4
    <3>3. /\ m - 2 \in Nat
          /\ Without(l, i) \in [1..(m - 2) -> S]
          /\ IsInjective(Without(l, i))
          /\ Range(Without(l, i)) = Range(l) \ {l[1], l[i]}
          /\ l[1] # l[i] /\ l[1] \in Range(l) /\ l[i] \in Range(l)
          BY ONLY <3>1, <3>2, WithoutLeavesTheRest, Zenon
    <3> QED
        BY <3>3
  <2>8. Sound(w, a - c)
    <3>1. ~Bad(w, a - c)
          BY <2>6, <2>7 DEF T
    <3> QED
        BY <2>4, <2>7, <3>1 DEF Bad
  <2>10. Perfect({t} \cup P, Range(l)) /\ t \notin P
    <3>1. Perfect(P, Range(l) \ {l[1], l[i]})
          BY <2>7, <2>8 DEF Sound
    <3> QED
        BY <2>7, <3>1, OneMoreTable
  <2>11. IsFiniteSet({t} \cup P)
    <3>1. {t} \cup P = P \cup {t} /\ IsFiniteSet(P)
          BY <2>8 DEF Sound
    <3> HIDE DEF t, P
    <3> QED
        BY <3>1, FS_AddElement
  <2>12. Cardinality(({t} \cup P) \cap played) <= a
    <3> DEFINE R == P \cap played
    <3>1. IsFiniteSet(R) /\ Cardinality(R) \in Nat /\ Cardinality(R) <= a - c /\ t \notin R
          BY <2>8, <2>10, FS_Intersection, FS_CardinalityType DEF Sound
    <3>2. CASE t \in played
      <4>1. ({t} \cup P) \cap played = R \cup {t}
            BY <3>2
      <4>2. Cardinality(R \cup {t}) = Cardinality(R) + 1
            BY <3>1, FS_AddElement
      <4>3. c = 1 /\ Cardinality(R) + 1 <= a
        <5> HIDE DEF R
        <5> QED
            BY <1>4, <2>4, <2>5, <3>1, <3>2
      <4> QED
          BY <4>1, <4>2, <4>3
    <3>3. CASE t \notin played
      <4>1. ({t} \cup P) \cap played = R
            BY <3>3
      <4>2. c = 0 /\ Cardinality(R) <= a
        <5> HIDE DEF R
        <5> QED
            BY <1>4, <2>4, <2>5, <3>1, <3>3
      <4> QED
          BY <4>1, <4>2
    <3> QED
        BY <3>2, <3>3
  <2>13. try[l][a] = {t} \cup P
         BY <2>1, <2>2
  <2>14. Sound(l, a)
    <3> HIDE DEF P, t
    <3> QED
        BY <2>10, <2>11, <2>12, <2>13 DEF Sound
  <2> QED
      BY <1>4, <2>14 DEF Bad
<1> QED
    BY <1>6, <1>7

\* tryPair finds a pairing whenever there is one within the budget.
LEMMA TriesAreComplete ==
    ASSUME NEW S, NEW N \in Nat, NEW played, NEW budget \in Nat,
           NEW try, Tries(try, S, N, played, budget),
           NEW n \in 0..N, NEW o \in [1..n -> S], IsInjective(o),
           NEW b \in 0..budget,
           NEW Q, Perfect(Q, Range(o)), IsFiniteSet(Q), Cardinality(Q \cap played) <= b
    PROVE  try[o][b] # NoPairing
<1>0. \A k \in 0..N : \A x \in [1..k -> S] : \A c \in 0..budget :
          try[x][c] = Call(try, x, c, played) /\ Len(x) = k /\ DOMAIN x = 1..k
      BY TryIsCall
<1> DEFINE Within(P, l, a) ==
               Perfect(P, Range(l)) /\ IsFiniteSet(P) /\ Cardinality(P \cap played) <= a
           Bad(l, a) == IsInjective(l) /\ try[l][a] = NoPairing /\ \E P : Within(P, l, a)
           T == {m \in 0..N : \E l \in [1..m -> S], a \in 0..budget : Bad(l, a)}
<1>1. SUFFICES ASSUME T # {}
               PROVE  FALSE
      OBVIOUS
<1>2. PICK m \in T : \A k \in T : m <= k
  <2>1. T \in SUBSET Nat
        OBVIOUS
  <2> HIDE DEF T
  <2> QED
      BY <1>1, <2>1, LeastNatural
<1>3. m \in 0..N /\ m \in Nat
      BY <1>2
<1>4. PICK l \in [1..m -> S], a \in 0..budget : Bad(l, a)
      BY <1>2
<1> HIDE DEF T, Bad, Within
<1>5. try[l][a] = Call(try, l, a, played) /\ Len(l) = m /\ DOMAIN l = 1..m
  <2>1. l \in [1..m -> S] /\ a \in 0..budget
        BY <1>4
  <2> QED
      BY ONLY <1>0, <1>3, <2>1
<1>6. CASE m = 0
      BY <1>4, <1>5, <1>6 DEF Call, NoPairing, Bad
<1>7. CASE m # 0
  <2>1. PICK P : Within(P, l, a)
        BY <1>4 DEF Bad
  <2>2. l[1] \in Range(l)
        BY <1>3, <1>5, <1>7 DEF Range
  <2>3. PICK t \in P : l[1] \in t
        BY <2>1, <2>2 DEF Perfect, Within
  <2>4. PICK q \in Range(l) : q # l[1] /\ t = {l[1], q}
        BY <2>1, <2>3 DEF Perfect, Within
  <2>5. PICK i \in 2..m : q = l[i]
    <3>1. PICK i \in 1..m : q = l[i]
          BY <1>5, <2>4 DEF Range
    <3>2. i # 1
          BY <2>4, <3>1
    <3>3. i \in 2..m
          BY <1>3, <3>1, <3>2
    <3> QED
        BY <3>1, <3>3
  <2> DEFINE w == Without(l, i)
             c == Cost(l, i, played)
  <2>6. c = (IF t \in played THEN 1 ELSE 0) /\ c \in {0, 1}
        BY <2>4, <2>5 DEF Cost
  <2> HIDE DEF c
  <2>7. w \in [1..(m - 2) -> S] /\ IsInjective(w) /\ Range(w) = Range(l) \ t
    <3>1. IsInjective(l)
          BY <1>4 DEF Bad
    <3>2. m \in Nat /\ l \in [1..m -> S] /\ i \in 2..m
          BY <1>3, <1>4, <2>5
    <3>3. /\ m - 2 \in Nat
          /\ Without(l, i) \in [1..(m - 2) -> S]
          /\ IsInjective(Without(l, i))
          /\ Range(Without(l, i)) = Range(l) \ {l[1], l[i]}
          /\ l[1] # l[i] /\ l[1] \in Range(l) /\ l[i] \in Range(l)
          BY ONLY <3>1, <3>2, WithoutLeavesTheRest, Zenon
    <3> QED
        BY <3>3, <2>4, <2>5
  <2>8. Perfect(P \ {t}, Range(w))
    <3>1. Perfect(P, Range(l))
          BY <2>1 DEF Within
    <3>2. Perfect(P \ {t}, Range(l) \ t)
          BY <2>2, <2>3, <2>4, <3>1, OneTableLess
    <3> QED
        BY <2>7, <3>2
  <2>9. IsFiniteSet(P \ {t}) /\ Cardinality((P \ {t}) \cap played) <= a - c /\ c <= a
    <3> DEFINE R == (P \ {t}) \cap played
    <3>1. IsFiniteSet(P) /\ IsFiniteSet(P \ {t}) /\ IsFiniteSet(R) /\ Cardinality(R) \in Nat /\ t \notin R
          BY <2>1, FS_Difference, FS_Intersection, FS_CardinalityType DEF Within
    <3>2. CASE t \in played
      <4>1. P \cap played = R \cup {t}
            BY <2>3, <3>2
      <4>2. Cardinality(R \cup {t}) = Cardinality(R) + 1
            BY <3>1, FS_AddElement
      <4>3. Cardinality(R) + 1 <= a
            BY <2>1, <4>1, <4>2 DEF Within
      <4> HIDE DEF R
      <4>4. c = 1 /\ c <= a /\ Cardinality(R) <= a - c
            BY <1>4, <2>6, <3>1, <3>2, <4>3
      <4> QED
          BY <3>1, <4>4 DEF R
    <3>3. CASE t \notin played
      <4>1. P \cap played = R
            BY <3>3
      <4>2. Cardinality(R) <= a
            BY <2>1, <4>1 DEF Within
      <4> HIDE DEF R
      <4>3. c = 0 /\ c <= a /\ Cardinality(R) <= a - c
            BY <1>4, <2>6, <3>1, <3>3, <4>2
      <4> QED
          BY <3>1, <4>3 DEF R
    <3> QED
        BY <3>2, <3>3
  <2>10. m - 2 \in 0..N /\ m - 2 \notin T /\ a - c \in 0..budget
    <3>1. m - 2 \in 0..N /\ m - 2 < m /\ a - c \in 0..budget
          BY <1>3, <1>4, <2>5, <2>6, <2>9
    <3> QED
        BY <1>2, <1>3, <3>1
  <2>11. try[w][a - c] # NoPairing
    <3>1. ~Bad(w, a - c)
          BY <2>7, <2>10 DEF T
    <3>2. Within(P \ {t}, w, a - c)
          BY <2>8, <2>9 DEF Within
    <3> QED
        BY <2>7, <3>1, <3>2 DEF Bad
  <2>12. i \in Fits(try, l, a, played)
         BY <1>5, <2>5, <2>9, <2>11 DEF Fits, Sub, c
  <2> DEFINE j == Min(Fits(try, l, a, played))
  <2>13. try[l][a] = {{l[1], l[j]}} \cup Sub(try, l, j, a, played)
         BY <1>3, <1>5, <1>7, <2>12 DEF Call
  <2>14. {l[1], l[j]} \in try[l][a] /\ {l[1], l[j]} # {}
         BY <2>13
  <2> QED
      BY <1>4, <2>14 DEF NoPairing, Bad
<1> QED
    BY <1>6, <1>7

LEMMA TryPairFinds ==
    ASSUME NEW S, NEW n \in Nat, NEW o \in [1..n -> S], IsInjective(o), NEW played, NEW b \in Nat
    PROVE  /\ TryPair(o, played, b) # NoPairing =>
                 /\ Perfect(TryPair(o, played, b), Range(o))
                 /\ IsFiniteSet(TryPair(o, played, b))
                 /\ Cardinality(TryPair(o, played, b) \cap played) <= b
           /\ \A Q : /\ Perfect(Q, Range(o)) /\ IsFiniteSet(Q)
                     /\ Cardinality(Q \cap played) <= b
                     => TryPair(o, played, b) # NoPairing
<1>1. Len(o) = n /\ o \in [1..n -> Range(o)] /\ n \in 0..n /\ b \in 0..b
      BY OrderingLength DEF Range
<1>2. PICK try : /\ Tries(try, Range(o), n, played, b)
                 /\ TryPair(o, played, b) = try[o][b]
      BY <1>1, TryPairIs
<1>3. try[o][b] # NoPairing =>
          /\ Perfect(try[o][b], Range(o))
          /\ IsFiniteSet(try[o][b])
          /\ Cardinality(try[o][b] \cap played) <= b
      BY <1>1, <1>2, TriesAreSound
<1>4. ASSUME NEW Q, Perfect(Q, Range(o)), IsFiniteSet(Q), Cardinality(Q \cap played) <= b
      PROVE  try[o][b] # NoPairing
      BY <1>1, <1>2, <1>4, TriesAreComplete
<1> QED
    BY <1>2, <1>3, <1>4

\* An even number of players can be paired, with whatever rematches.
LEMMA PairingOfEveryOther ==
    ASSUME NEW S, NEW n \in Nat, n % 2 = 0, NEW o \in [1..n -> S], IsInjective(o)
    PROVE  \E P : Perfect(P, Range(o)) /\ IsFiniteSet(P) /\ Cardinality(P) <= n
<1> DEFINE h == n \div 2
           table == [k \in 1..h |-> {o[2 * k - 1], o[2 * k]}]
           P == Range(table)
<1>1. h \in Nat /\ n = 2 * h /\ DOMAIN o = 1..n
      OBVIOUS
<1> HIDE DEF h
<1>2. \A k \in 1..h : 2 * k - 1 \in 1..n /\ 2 * k \in 1..n
      BY <1>1
<1>3. \A x, y \in 1..n : o[x] = o[y] => x = y
      BY <1>1 DEF IsInjective
<1>4. \A t \in P : \E p, q \in Range(o) : p # q /\ t = {p, q}
  <2> TAKE t \in P
  <2>1. PICK k \in 1..h : t = {o[2 * k - 1], o[2 * k]}
        BY DEF Range
  <2>2. o[2 * k - 1] # o[2 * k]
    <3>1. 2 * k - 1 # 2 * k
          OBVIOUS
    <3> QED
        BY <1>2, <1>3, <3>1
  <2>3. o[2 * k - 1] \in Range(o) /\ o[2 * k] \in Range(o)
        BY <1>1, <1>2 DEF Range
  <2> QED
      BY <2>1, <2>2, <2>3
<1>5. \A p \in Range(o) : \E t \in P : p \in t
  <2> TAKE p \in Range(o)
  <2>1. PICK x \in 1..n : p = o[x]
        BY <1>1 DEF Range
  <2>2. PICK k \in 1..h : x = 2 * k - 1 \/ x = 2 * k
    <3>1. (x + 1) \div 2 \in 1..h /\ (x = 2 * ((x + 1) \div 2) - 1 \/ x = 2 * ((x + 1) \div 2))
          BY <1>1
    <3> QED
        BY <3>1
  <2>3. table[k] \in P /\ p \in table[k]
        BY <2>1, <2>2 DEF Range
  <2> QED
      BY <2>3
<1>6. \A t, u \in P : t # u => t \cap u = {}
  <2> SUFFICES ASSUME NEW t \in P, NEW u \in P, NEW p, p \in t, p \in u
               PROVE  t = u
      OBVIOUS
  <2>1. PICK k \in 1..h : t = {o[2 * k - 1], o[2 * k]}
        BY DEF Range
  <2>2. PICK l \in 1..h : u = {o[2 * l - 1], o[2 * l]}
        BY DEF Range
  <2>3. PICK x \in 1..n : p = o[x] /\ (x = 2 * k - 1 \/ x = 2 * k)
        BY <1>2, <2>1
  <2>4. PICK y \in 1..n : p = o[y] /\ (y = 2 * l - 1 \/ y = 2 * l)
        BY <1>2, <2>2
  <2>5. x = y
        BY <1>3, <2>3, <2>4
  <2>6. k = l
        BY <2>3, <2>4, <2>5
  <2> QED
      BY <2>1, <2>2, <2>6
<1>7. IsFiniteSet(P) /\ Cardinality(P) <= h
  <2>1. IsFiniteSet(1..h) /\ Cardinality(1..h) = h
        BY <1>1, FS_Interval
  <2>2. table \in Surjection(1..h, P)
        BY DEF Surjection, Range
  <2> HIDE DEF table, P
  <2> QED
      BY <2>1, <2>2, FS_Surjection
<1>8. Cardinality(P) <= n
  <2>1. Cardinality(P) \in Nat
        BY <1>7, FS_CardinalityType
  <2> HIDE DEF P
  <2> QED
      BY <1>1, <1>7, <2>1
<1> HIDE DEF P
<1>9. Perfect(P, Range(o))
      BY <1>4, <1>5, <1>6 DEF Perfect
<1> QED
    BY <1>7, <1>8, <1>9

\* The first budget that works gives a pairing with the fewest rematches.
LEMMA FirstBudgetIsLeast ==
    ASSUME NEW S, NEW n \in Nat, n % 2 = 0, NEW o \in [1..n -> S], IsInjective(o), NEW played
    PROVE  /\ Perfect(FirstBudget(o, played), Range(o))
           /\ \A Q : Perfect(Q, Range(o)) /\ IsFiniteSet(Q) =>
                  Cardinality(FirstBudget(o, played) \cap played) <= Cardinality(Q \cap played)
<1> DEFINE B == {b \in 0..n : TryPair(o, played, b) # NoPairing}
           least == Min(B)
           M == TryPair(o, played, least)
<1>1. Len(o) = n
      BY OrderingLength
<1>2. FirstBudget(o, played) = M
      BY <1>1 DEF FirstBudget
<1>3. B # {}
  <2>1. PICK P : Perfect(P, Range(o)) /\ IsFiniteSet(P) /\ Cardinality(P) <= n
        BY PairingOfEveryOther
  <2>2. Cardinality(P \cap played) <= n
    <3>1. /\ Cardinality(P \cap played) <= Cardinality(P)
          /\ Cardinality(P) \in Nat /\ Cardinality(P \cap played) \in Nat
          BY <2>1, FS_Intersection, FS_CardinalityType
    <3> QED
        BY <2>1, <3>1
  <2>3. TryPair(o, played, n) # NoPairing
        BY <2>1, <2>2, TryPairFinds
  <2> QED
      BY <2>3
<1>4. least \in B /\ \A b \in B : least <= b
  <2>1. B \in SUBSET Nat
        OBVIOUS
  <2> HIDE DEF B
  <2> QED
      BY <1>3, <2>1, LeastNatural DEF Min
<1>5. least \in 0..n /\ M # NoPairing
      BY <1>4
<1> HIDE DEF B, least
<1>6. Perfect(M, Range(o)) /\ IsFiniteSet(M) /\ Cardinality(M \cap played) <= least
  <2>1. n \in Nat /\ o \in [1..n -> S] /\ IsInjective(o)
        OBVIOUS
  <2>2. least \in Nat
        BY <1>5
  <2> QED
      BY ONLY <1>5, <2>1, <2>2, TryPairFinds
<1>7. ASSUME NEW Q, Perfect(Q, Range(o)), IsFiniteSet(Q)
      PROVE  Cardinality(M \cap played) <= Cardinality(Q \cap played)
  <2> DEFINE r == Cardinality(Q \cap played)
             s == Cardinality(M \cap played)
  <2>1. r \in Nat /\ s \in Nat
        BY <1>6, <1>7, FS_Intersection, FS_CardinalityType
  <2>2. TryPair(o, played, r) # NoPairing
    <3>1. Cardinality(Q \cap played) <= r
          BY <2>1
    <3> HIDE DEF r
    <3> QED
        BY <1>7, <2>1, <3>1, TryPairFinds
  <2>3. r <= n => r \in B
        BY <2>1, <2>2 DEF B
  <2>4. s <= least
        BY <1>6
  <2> HIDE DEF r, s
  <2>5. s <= r
        BY <1>4, <1>5, <2>1, <2>3, <2>4
  <2> QED
      BY <2>5 DEF r, s
<1> QED
    BY <1>2, <1>6, <1>7

-----------------------------------------------------------------------------
(* Pair *)

ByeTable(b) == IF b = {} THEN {} ELSE {b}

\* The bye of a pairing: nobody's, or a player's whom pickBye may pick.
ByeOf(b, active, hist) ==
    IF Cardinality(active) % 2 = 1 THEN \E p \in PickBye(active, hist) : b = {p} ELSE b = {}

LEMMA PairParts ==
    ASSUME NEW active, NEW hist, NEW P \in Pair(active, hist)
    PROVE  \E b : \E o \in Orders(active \ b, hist) :
               ByeOf(b, active, hist) /\ P = FirstBudget(o, Played(hist)) \cup ByeTable(b)
<1> DEFINE byes == IF Cardinality(active) % 2 = 1 THEN {{p} : p \in PickBye(active, hist)} ELSE {{}}
           made(o, b) == FirstBudget(o, Played(hist)) \cup (IF b = {} THEN {} ELSE {b})
<1>1. Pair(active, hist) = UNION {{made(o, b) : o \in Orders(active \ b, hist)} : b \in byes}
      BY DEF Pair
<1>2. PICK b \in byes : P \in {made(o, b) : o \in Orders(active \ b, hist)}
      BY <1>1
<1>3. PICK o \in Orders(active \ b, hist) : P = made(o, b)
      BY <1>2
<1>4. ByeOf(b, active, hist)
      BY DEF ByeOf
<1> QED
    BY <1>3, <1>4 DEF ByeTable

LEMMA OthersAreEven ==
    ASSUME NEW active, IsFiniteSet(active), NEW hist, NEW b, ByeOf(b, active, hist)
    PROVE  /\ b \in SUBSET active /\ Cardinality(b) = Cardinality(active) % 2
           /\ IsFiniteSet(active \ b) /\ Cardinality(active \ b) \in Nat
           /\ Cardinality(active \ b) % 2 = 0
<1>1. Cardinality(active) \in Nat
      BY FS_CardinalityType
<1>2. CASE Cardinality(active) % 2 = 1
  <2>1. PICK p \in PickBye(active, hist) : b = {p}
        BY <1>2 DEF ByeOf
  <2>2. p \in active
        BY DEF PickBye
  <2>3. Cardinality(b) = 1
        BY <2>1, FS_Singleton
  <2>4. IsFiniteSet(active \ b) /\ Cardinality(active \ b) = Cardinality(active) - 1
        BY <2>1, <2>2, OneFewer
  <2>5. Cardinality(active \ b) \in Nat /\ Cardinality(active \ b) % 2 = 0
        BY <1>1, <1>2, <2>4
  <2> QED
      BY <1>2, <2>1, <2>2, <2>3, <2>4, <2>5
<1>3. CASE Cardinality(active) % 2 # 1
  <2>1. Cardinality(active) % 2 = 0
        BY <1>1, <1>3
  <2>2. b = {} /\ active \ b = active
        BY <1>3 DEF ByeOf
  <2> QED
      BY <1>1, <2>1, <2>2, FS_EmptySet
<1> QED
    BY <1>2, <1>3

LEMMA EnumerationIs ==
    ASSUME NEW S, IsFiniteSet(S), NEW o \in Enumerations(S)
    PROVE  /\ Cardinality(S) \in Nat /\ o \in [1..Cardinality(S) -> S]
           /\ IsInjective(o) /\ Range(o) = S
           /\ DOMAIN o = 1..Cardinality(S) /\ Len(o) = Cardinality(S)
<1>1. Cardinality(S) \in Nat
      BY FS_CardinalityType
<1>2. /\ o \in [1..Cardinality(S) -> S] /\ IsInjective(o)
      /\ \A t \in S : \E k \in 1..Cardinality(S) : o[k] = t
      BY DEF Enumerations, Bijection, Injection, Surjection
<1>3. Range(o) = S
      BY <1>2 DEF Range
<1> QED
    BY <1>1, <1>2, <1>3, OrderingLength

LEMMA ByesOfPairing ==
    ASSUME NEW S, IsFiniteSet(S), NEW b \in SUBSET S, Cardinality(b) = Cardinality(S) % 2,
           NEW M, Perfect(M, S \ b)
    PROVE  /\ M \cup ByeTable(b) \in Pairings(S)
           /\ ByesIn(M \cup ByeTable(b)) = ByeTable(b)
<1> DEFINE P == M \cup ByeTable(b)
<1>1. \A t \in M : /\ t \in SUBSET (S \ b) /\ IsFiniteSet(t) /\ Cardinality(t) = 2
  <2> TAKE t \in M
  <2>1. PICK p \in S \ b, q \in S \ b : p # q /\ t = {p, q}
        BY DEF Perfect
  <2> QED
      BY <2>1, TwoSeats
<1>2. Cardinality(S) \in Nat /\ IsFiniteSet(b)
      BY FS_CardinalityType, FS_Subset
<1>3. b = {} <=> Cardinality(b) = 0
      BY <1>2, FS_EmptySet
<1>4. b # {} => Cardinality(b) = 1
      BY <1>2, <1>3
<1>5. ByesIn(P) = ByeTable(b)
  <2>1. \A t \in M : Cardinality(t) # 1
        BY <1>1
  <2> QED
      BY <1>4, <2>1 DEF ByesIn, ByeTable
<1>6. Cardinality(ByesIn(P)) = Cardinality(S) % 2
      BY <1>3, <1>4, <1>5, FS_EmptySet, FS_Singleton DEF ByeTable
<1>7. P \in SUBSET {t \in SUBSET S : Cardinality(t) \in {1, 2}}
      BY <1>1, <1>4 DEF ByeTable
<1>8. UNION P = S
  <2>1. \A p \in S : \E t \in P : p \in t
    <3> TAKE p \in S
    <3>1. CASE p \in b
          BY <3>1 DEF ByeTable
    <3>2. CASE p \notin b
          BY <3>2 DEF Perfect
    <3> QED
        BY <3>1, <3>2
  <2> QED
      BY <1>7, <2>1
<1>9. \A t, u \in P : t # u => t \cap u = {}
      BY <1>1 DEF Perfect, ByeTable
<1>10. {t \in P : Cardinality(t) = 1} = ByesIn(P)
       BY DEF ByesIn
<1> HIDE DEF P
<1>11. P \in Pairings(S)
       BY <1>6, <1>7, <1>8, <1>9, <1>10 DEF Pairings
<1> QED
    BY <1>5, <1>11 DEF P

LEMMA PairingWithoutBye ==
    ASSUME NEW S, IsFiniteSet(S), NEW P \in Pairings(S), NEW b, ByesIn(P) = ByeTable(b)
    PROVE  Perfect(P \ ByeTable(b), S \ b) /\ IsFiniteSet(P)
<1> DEFINE M == P \ ByeTable(b)
<1>1. /\ P \in SUBSET {t \in SUBSET S : Cardinality(t) \in {1, 2}}
      /\ UNION P = S
      /\ \A t, u \in P : t # u => t \cap u = {}
      BY DEF Pairings
<1>2. IsFiniteSet(P)
  <2>1. IsFiniteSet(SUBSET S) /\ P \in SUBSET SUBSET S
        BY <1>1, FS_SUBSET
  <2> QED
      BY <2>1, FS_Subset
<1>3. b = {} \/ b \in P
      BY DEF ByesIn, ByeTable
<1>4. \A t \in M : t \in SUBSET (S \ b)
      BY <1>1, <1>3 DEF ByeTable
<1>5. \A t \in M : \E p, q \in S \ b : p # q /\ t = {p, q}
  <2> TAKE t \in M
  <2>1. Cardinality(t) = 2 /\ IsFiniteSet(t)
    <3>1. Cardinality(t) # 1
          BY DEF ByesIn
    <3> QED
        BY <1>1, <3>1, FS_Subset
  <2> QED
      BY <1>4, <2>1, TwoSeats
<1>6. \A p \in S \ b : \E t \in M : p \in t
      BY <1>1 DEF ByeTable
<1>7. \A t, u \in M : t # u => t \cap u = {}
      BY <1>1
<1> QED
    BY <1>2, <1>5, <1>6, <1>7 DEF Perfect

LEMMA PairIsFair ==
    ASSUME NEW active, IsFiniteSet(active), NEW hist, NEW P \in Pair(active, hist)
    PROVE  /\ P \in Pairings(active)
           /\ \A Q \in Pairings(active) : ByesIn(Q) = ByesIn(P) =>
                  Cardinality(P \cap Played(hist)) <= Cardinality(Q \cap Played(hist))
           /\ \A t \in ByesIn(P) : \A p \in t : p \in PickBye(active, hist)
<1>0. PICK b : \E o \in Orders(active \ b, hist) :
          ByeOf(b, active, hist) /\ P = FirstBudget(o, Played(hist)) \cup ByeTable(b)
  <2>1. P \in Pair(active, hist)
        OBVIOUS
  <2> QED
      BY ONLY <2>1, PairParts
<1>1. PICK o \in Orders(active \ b, hist) :
          ByeOf(b, active, hist) /\ P = FirstBudget(o, Played(hist)) \cup ByeTable(b)
      BY <1>0
<1> DEFINE S == active \ b
           n == Cardinality(S)
           M == FirstBudget(o, Played(hist))
<1>2. /\ b \in SUBSET active /\ Cardinality(b) = Cardinality(active) % 2
      /\ IsFiniteSet(S) /\ n \in Nat /\ n % 2 = 0
      BY <1>1, OthersAreEven
<1>3. o \in [1..n -> S] /\ IsInjective(o) /\ Range(o) = S
  <2>1. o \in Enumerations(S)
        BY DEF Orders
  <2> QED
      BY <1>2, <2>1, EnumerationIs
<1> HIDE DEF S, n
<1>4. /\ Perfect(M, S)
      /\ \A Q : Perfect(Q, S) /\ IsFiniteSet(Q) =>
             Cardinality(M \cap Played(hist)) <= Cardinality(Q \cap Played(hist))
      BY <1>2, <1>3, FirstBudgetIsLeast
<1>5. P \in Pairings(active) /\ ByesIn(P) = ByeTable(b)
      BY <1>1, <1>2, <1>4, ByesOfPairing DEF S
<1>6. \A R : (R \cup ByeTable(b)) \cap Played(hist) = R \cap Played(hist)
  <2>1. \A t \in ByeTable(b) : Cardinality(t) # 2
    <3>1. Cardinality(b) # 2
      <4>1. Cardinality(active) \in Nat
            BY FS_CardinalityType
      <4> QED
          BY <1>2, <4>1
    <3> QED
        BY <3>1 DEF ByeTable
  <2>2. \A t \in Played(hist) : Cardinality(t) = 2
        BY DEF Played
  <2> QED
      BY <2>1, <2>2
<1>7. ASSUME NEW Q \in Pairings(active), ByesIn(Q) = ByesIn(P)
      PROVE  Cardinality(P \cap Played(hist)) <= Cardinality(Q \cap Played(hist))
  <2> DEFINE R == Q \ ByeTable(b)
  <2>1. Perfect(R, S) /\ IsFiniteSet(Q)
        BY <1>5, <1>7, PairingWithoutBye DEF S
  <2>2. IsFiniteSet(R) /\ Q = R \cup ByeTable(b)
    <3>1. ByeTable(b) \subseteq Q
          BY <1>5, <1>7 DEF ByesIn
    <3> QED
        BY <2>1, <3>1, FS_Difference
  <2> HIDE DEF R, M
  <2>3. Cardinality(M \cap Played(hist)) <= Cardinality(R \cap Played(hist))
        BY <1>4, <2>1, <2>2
  <2>4. P \cap Played(hist) = M \cap Played(hist)
        BY <1>1, <1>6 DEF M
  <2>5. Q \cap Played(hist) = R \cap Played(hist)
        BY <1>6, <2>2
  <2> QED
      BY <2>3, <2>4, <2>5
<1>8. \A t \in ByesIn(P) : \A p \in t : p \in PickBye(active, hist)
      BY <1>1, <1>5 DEF ByeOf, ByeTable
<1> QED
    BY <1>5, <1>7, <1>8

\* Whatever the rounds so far and the seed, a round pairs exactly the active
\* players, and no pairing with the same bye has fewer rematches.
THEOREM FewestRematchesAlways == Spec => FewestRematches
<1>1. ASSUME PairNextRound \/ Reroll
      PROVE  /\ draft' \in Pairings(Active)
             /\ \A P \in Pairings(Active) :
                   ByesIn(P) = ByesIn(draft') => Rematches(draft') <= Rematches(P)
  <2>1. IsFiniteSet(Active) /\ draft' \in Pair(Active, history)
        BY <1>1, PlayersAreFinite, FS_Difference DEF Active, PairNextRound, Reroll
  <2> HIDE DEF Active
  <2> QED
      BY <2>1, PairIsFair DEF Rematches
<1> QED
    BY <1>1, PTL DEF Spec, FewestRematches

-----------------------------------------------------------------------------
(* What the steps keep of the rounds *)

MatchRecords ==
    [seats : SUBSET Players, games : {NoResult} \cup UNION {[t -> 0..2] : t \in SUBSET Players}]

\* A match has one seat or two, and each of them wins up to two games.
MatchOK(m) ==
    /\ m \in MatchRecords
    /\ Cardinality(m.seats) \in {1, 2}
    /\ m.games = NoResult \/ m.games \in [m.seats -> 0..2]

RoundOK(R) == IsFiniteSet(R) /\ \A m \in R : MatchOK(m)

HistoryOK ==
    /\ history \in Seq(SUBSET MatchRecords)
    /\ \A i \in 1..Len(history) : RoundOK(history[i])

TableOK(t) == t \in SUBSET Players /\ Cardinality(t) \in {1, 2}

DraftOK == draft = NoDraft \/ \A t \in draft : TableOK(t)

RoundsInvariant == HistoryOK /\ DraftOK

LEMMA PairIsOfTables ==
    ASSUME NEW P \in Pair(Active, history), NEW t \in P
    PROVE  TableOK(t)
<1>1. IsFiniteSet(Active) /\ Active \in SUBSET Players
      BY PlayersAreFinite, FS_Difference DEF Active
<1>2. P \in Pairings(Active)
      BY <1>1, PairIsFair
<1>3. t \in SUBSET Active /\ Cardinality(t) \in {1, 2}
      BY <1>2 DEF Pairings
<1> QED
    BY <1>1, <1>3 DEF TableOK

\* An exchange leaves every table with somebody, and with two at most.
LEMMA ExchangedTable ==
    ASSUME NEW t, TableOK(t), NEW p \in t, NEW q \in Players
    PROVE  TableOK((t \ {p}) \cup {q})
<1> DEFINE r == t \ {p}
<1>1. IsFiniteSet(t)
      BY PlayersAreFinite, FS_Subset DEF TableOK
<1>2. IsFiniteSet(r) /\ Cardinality(r) = Cardinality(t) - 1 /\ r \in SUBSET Players
      BY <1>1, OneFewer DEF TableOK
<1>3. Cardinality(r) \in {0, 1}
      BY <1>2 DEF TableOK
<1> HIDE DEF r
<1>4. Cardinality(r \cup {q}) = IF q \in r THEN Cardinality(r) ELSE Cardinality(r) + 1
      BY <1>2, FS_AddElement
<1>5. q \in r => Cardinality(r) # 0
      BY <1>2, FS_EmptySet
<1>6. Cardinality(r \cup {q}) \in {1, 2}
      BY <1>3, <1>4, <1>5
<1> QED
    BY <1>2, <1>6 DEF TableOK, r

LEMMA PublishedMatch ==
    ASSUME NEW t, TableOK(t)
    PROVE  MatchOK(IF Cardinality(t) = 1 THEN Bye(t) ELSE Unreported(t))
<1>1. [p \in t |-> 2] \in [t -> 0..2] /\ t \in SUBSET Players
      BY DEF TableOK
<1>2. MatchOK(Bye(t))
  <2>1. Bye(t).seats = t /\ Bye(t).games = [p \in t |-> 2]
        BY DEF Bye
  <2>2. Bye(t) \in MatchRecords
        BY <1>1 DEF Bye, MatchRecords
  <2> QED
      BY <1>1, <2>1, <2>2 DEF MatchOK, TableOK
<1>3. MatchOK(Unreported(t))
  <2>1. Unreported(t).seats = t /\ Unreported(t).games = NoResult
        BY DEF Unreported
  <2>2. Unreported(t) \in MatchRecords
        BY <1>1 DEF Unreported, MatchRecords
  <2> QED
      BY <2>1, <2>2 DEF MatchOK, TableOK
<1> QED
    BY <1>2, <1>3

LEMMA PublishedRound ==
    ASSUME NEW D, \A t \in D : TableOK(t)
    PROVE  RoundOK({IF Cardinality(t) = 1 THEN Bye(t) ELSE Unreported(t) : t \in D})
<1> DEFINE match(t) == IF Cardinality(t) = 1 THEN Bye(t) ELSE Unreported(t)
           f == [t \in D |-> match(t)]
           R == {match(t) : t \in D}
<1>1. IsFiniteSet(D)
  <2>1. IsFiniteSet(SUBSET Players) /\ D \in SUBSET SUBSET Players
        BY PlayersAreFinite, FS_SUBSET DEF TableOK
  <2> QED
      BY <2>1, FS_Subset
<1>2. f \in Surjection(D, R)
  <2> HIDE DEF match
  <2>1. f \in [D -> R]
        OBVIOUS
  <2>2. \A m \in R : \E t \in D : f[t] = m
        OBVIOUS
  <2> QED
      BY <2>1, <2>2 DEF Surjection
<1>3. \A t \in D : MatchOK(match(t))
      BY PublishedMatch
<1> HIDE DEF match
<1>4. IsFiniteSet(R)
      BY <1>1, <1>2, FS_Surjection
<1>5. \A m \in R : MatchOK(m)
      BY <1>3
<1>6. RoundOK(R)
      BY <1>4, <1>5 DEF RoundOK
<1> QED
    BY <1>6 DEF match

LEMMA ReportedMatch ==
    ASSUME NEW m, MatchOK(m), NEW g \in [m.seats -> 0..2]
    PROVE  MatchOK([m EXCEPT !.games = g])
<1> DEFINE n == [m EXCEPT !.games = g]
<1>1. m = [seats |-> m.seats, games |-> m.games] /\ m.seats \in SUBSET Players
      BY DEF MatchOK, MatchRecords
<1>2. n = [seats |-> m.seats, games |-> g]
      BY <1>1
<1>3. n.seats = m.seats /\ n.games = g
      BY <1>2
<1>4. g \in UNION {[t -> 0..2] : t \in SUBSET Players}
      BY <1>1
<1>5. n \in MatchRecords
      BY <1>1, <1>2, <1>4 DEF MatchRecords
<1> HIDE DEF n
<1>6. MatchOK(n)
      BY <1>3, <1>5 DEF MatchOK
<1> QED
    BY <1>6 DEF n

LEMMA ReportedRound ==
    ASSUME NEW R, RoundOK(R), NEW m \in R, NEW g \in [m.seats -> 0..2]
    PROVE  RoundOK((R \ {m}) \cup {[m EXCEPT !.games = g]})
<1> DEFINE n == [m EXCEPT !.games = g]
<1>1. MatchOK(n)
      BY ReportedMatch DEF RoundOK
<1> HIDE DEF n
<1>2. IsFiniteSet((R \ {m}) \cup {n})
      BY FS_RemoveElement, FS_AddElement DEF RoundOK
<1>3. RoundOK((R \ {m}) \cup {n})
      BY <1>1, <1>2 DEF RoundOK
<1> QED
    BY <1>3 DEF n

LEMMA RoundsInit == Init => RoundsInvariant
BY DEF Init, RoundsInvariant, HistoryOK, DraftOK

LEMMA RoundsNext == RoundsInvariant /\ [Next]_vars => RoundsInvariant'
<1> SUFFICES ASSUME RoundsInvariant, [Next]_vars
             PROVE  RoundsInvariant'
    OBVIOUS
<1>0. HistoryOK /\ DraftOK
      BY DEF RoundsInvariant
<1>1. CASE PairNextRound \/ Reroll
  <2>1. draft' \in Pair(Active, history) /\ UNCHANGED history
        BY <1>1 DEF PairNextRound, Reroll
  <2>2. DraftOK'
        BY <2>1, PairIsOfTables DEF DraftOK, TableOK
  <2>3. HistoryOK'
        BY <1>0, <2>1 DEF HistoryOK
  <2> QED
      BY <2>2, <2>3 DEF RoundsInvariant
<1>2. CASE Swap
  <2>1. PICK t \in draft, u \in draft : \E p \in t, q \in u :
            draft' = (draft \ {t, u}) \cup {(t \ {p}) \cup {q}, (u \ {q}) \cup {p}}
        BY <1>2 DEF Swap
  <2>2. PICK p \in t, q \in u :
            draft' = (draft \ {t, u}) \cup {(t \ {p}) \cup {q}, (u \ {q}) \cup {p}}
        BY <2>1
  <2>3. \A v \in draft : TableOK(v)
        BY <1>0, <1>2 DEF Swap, DraftOK
  <2>4. p \in Players /\ q \in Players /\ TableOK(t) /\ TableOK(u)
        BY <2>3 DEF TableOK
  <2>5. TableOK((t \ {p}) \cup {q}) /\ TableOK((u \ {q}) \cup {p})
        BY <2>4, ExchangedTable
  <2>6. \A v \in draft' : TableOK(v)
        BY <2>2, <2>3, <2>5
  <2>7. DraftOK'
        BY <2>6 DEF DraftOK, TableOK
  <2>8. HistoryOK'
        BY <1>0, <1>2 DEF Swap, HistoryOK
  <2> QED
      BY <2>7, <2>8 DEF RoundsInvariant
<1>3. CASE Publish
  <2> DEFINE R == {IF Cardinality(t) = 1 THEN Bye(t) ELSE Unreported(t) : t \in draft}
  <2>1. history' = Append(history, R) /\ draft' = NoDraft
        BY <1>3 DEF Publish
  <2>2. RoundOK(R)
        BY <1>0, <1>3, PublishedRound DEF DraftOK, Publish
  <2> HIDE DEF R
  <2>3. R \in SUBSET MatchRecords
        BY <2>2 DEF RoundOK, MatchOK
  <2>4. history' \in Seq(SUBSET MatchRecords)
        BY <1>0, <2>1, <2>3 DEF HistoryOK
  <2>5. ASSUME NEW i \in 1..Len(history')
        PROVE  RoundOK(history'[i])
    <3>1. Len(history') = Len(history) + 1 /\ Len(history) \in Nat /\ history \in Seq(SUBSET MatchRecords)
          BY <1>0, <2>1 DEF HistoryOK
    <3>2. CASE i = Len(history) + 1
      <4>1. history'[i] = R
            BY <2>1, <3>1, <3>2
      <4> QED
          BY <2>2, <4>1
    <3>3. CASE i # Len(history) + 1
      <4>1. i \in 1..Len(history)
            BY <3>1, <3>3
      <4>2. history'[i] = history[i]
            BY <2>1, <3>1, <4>1
      <4> QED
          BY <1>0, <4>1, <4>2 DEF HistoryOK
    <3> QED
        BY <3>2, <3>3
  <2>6. HistoryOK'
        BY <2>4, <2>5 DEF HistoryOK, RoundOK, MatchOK, MatchRecords
  <2> QED
      BY <2>1, <2>6 DEF RoundsInvariant, DraftOK, NoDraft
<1>4. CASE Report
  <2> DEFINE n == Len(history)
             made(m, g) == (history[n] \ {m}) \cup {[m EXCEPT !.games = g]}
  <2>1. PICK m \in history[n] : \E g \in Results(m.seats) :
            history' = [history EXCEPT ![n] = made(m, g)]
        BY <1>4 DEF Report
  <2>2. PICK g \in Results(m.seats) : history' = [history EXCEPT ![n] = made(m, g)]
        BY <2>1
  <2>3. history \in Seq(SUBSET MatchRecords) /\ history # <<>>
        BY <1>0, <1>4 DEF HistoryOK, Report
  <2>4. n \in 1..Len(history) /\ RoundOK(history[n])
        BY <1>0, <2>3 DEF HistoryOK
  <2>5. g \in [m.seats -> 0..2]
        BY DEF Results
  <2>6. RoundOK(made(m, g))
        BY <2>4, <2>5, ReportedRound
  <2> DEFINE R == made(m, g)
  <2>7. history' = [history EXCEPT ![n] = R] /\ RoundOK(R)
        BY <2>2, <2>6
  <2> HIDE DEF R, made
  <2>8. R \in SUBSET MatchRecords
        BY <2>7 DEF RoundOK, MatchOK
  <2>9. history' \in Seq(SUBSET MatchRecords) /\ Len(history') = n
        BY <2>3, <2>7, <2>8
  <2>10. \A i \in 1..Len(history') : RoundOK(history'[i])
    <3> TAKE i \in 1..Len(history')
    <3>1. i \in 1..Len(history)
          BY <2>9
    <3>2. history'[i] = IF i = n THEN R ELSE history[i]
          BY <2>3, <2>7, <3>1
    <3> QED
        BY <1>0, <2>7, <3>1, <3>2 DEF HistoryOK
  <2>11. HistoryOK'
         BY <2>9, <2>10 DEF HistoryOK, RoundOK, MatchOK, MatchRecords
  <2> QED
      BY <1>0, <1>4, <2>11 DEF RoundsInvariant, DraftOK, Report, NoDraft, TableOK
<1>5. CASE (\E p \in Active : Drop(p)) \/ UNCHANGED vars
  <2>1. UNCHANGED <<history, draft>>
        BY <1>5 DEF Drop, vars
  <2> QED
      BY <1>0, <2>1 DEF RoundsInvariant, HistoryOK, DraftOK, RoundOK, MatchOK, MatchRecords, TableOK, NoDraft
<1> QED
    BY <1>1, <1>2, <1>3, <1>4, <1>5 DEF Next

-----------------------------------------------------------------------------
(* Sums over finite sets *)

Small(S, n) == {s \in SUBSET S : Cardinality(s) <= n}

\* The recursion of SumFunction.
Tally(g, f, D) ==
    g = [s \in D |-> IF s = {} THEN 0 ELSE f[Some(s)] + g[s \ {Some(s)}]]

LEMMA SomeIsIn ==
    ASSUME NEW S, IsFiniteSet(S), NEW s \in SUBSET S, s # {}
    PROVE  /\ Some(s) \in s /\ s \ {Some(s)} \in SUBSET S
           /\ Cardinality(s) \in Nat \ {0}
           /\ Cardinality(s \ {Some(s)}) = Cardinality(s) - 1
<1>1. IsFiniteSet(s) /\ Some(s) \in s
      BY FS_Subset DEF Some
<1> QED
    BY <1>1, OneFewer

LEMMA TalliesExist ==
    ASSUME NEW S, IsFiniteSet(S), NEW f
    PROVE  \E g : Tally(g, f, SUBSET S)
<1> DEFINE N == Cardinality(S)
           T == {n \in 0..N : ~ \E g : Tally(g, f, Small(S, n))}
<1>0. N \in Nat /\ N \in 0..N
      BY FS_CardinalityType
<1>1. SUFFICES ASSUME T # {}
               PROVE  FALSE
  <2>1. Small(S, N) = SUBSET S
    <3>1. \A s \in SUBSET S : Cardinality(s) <= N
          BY FS_Subset
    <3> QED
        BY <3>1 DEF Small
  <2>2. \E g : Tally(g, f, Small(S, N))
        BY <1>0
  <2> QED
      BY <2>1, <2>2
<1>2. PICK n \in T : \A m \in T : n <= m
  <2>1. T \in SUBSET Nat
        OBVIOUS
  <2> HIDE DEF T
  <2> QED
      BY <1>1, <2>1, LeastNatural
<1>3. n \in 0..N /\ n \in Nat /\ ~ \E g : Tally(g, f, Small(S, n))
      BY <1>0, <1>2
<1> DEFINE Next1(g, s) == f[Some(s)] + g[s \ {Some(s)}]
<1>4. CASE n = 0
  <2> DEFINE g == [s \in Small(S, n) |-> 0]
  <2>1. ASSUME NEW s \in Small(S, n), s # {}
        PROVE  FALSE
    <3>1. s \in SUBSET S /\ Cardinality(s) <= 0
          BY <1>4 DEF Small
    <3>2. Cardinality(s) \in Nat \ {0}
          BY <2>1, <3>1, SomeIsIn
    <3> QED
        BY <3>1, <3>2
  <2> HIDE DEF Next1
  <2>2. \A s \in Small(S, n) : g[s] = IF s = {} THEN 0 ELSE Next1(g, s)
        BY <2>1
  <2>3. g = [s \in Small(S, n) |-> IF s = {} THEN 0 ELSE Next1(g, s)]
        BY <2>2
  <2>4. Tally(g, f, Small(S, n))
        BY <2>3 DEF Tally, Next1
  <2> QED
      BY <1>3, <2>4
<1>5. CASE n # 0
  <2>1. n - 1 \in 0..N /\ n - 1 \notin T
    <3> HIDE DEF T, N
    <3> QED
        BY <1>0, <1>2, <1>3, <1>5
  <2>2. PICK g : Tally(g, f, Small(S, n - 1))
        BY <2>1
  <2>3. g = [s \in Small(S, n - 1) |-> IF s = {} THEN 0 ELSE Next1(g, s)]
        BY <2>2 DEF Tally
  <2> DEFINE h == [s \in Small(S, n) |-> IF s = {} THEN 0 ELSE Next1(g, s)]
  <2>4. \A s \in Small(S, n - 1) : s \in Small(S, n) /\ h[s] = g[s]
    <3> TAKE s \in Small(S, n - 1)
    <3>1. s \in SUBSET S /\ Cardinality(s) \in Nat /\ Cardinality(s) <= n - 1
          BY FS_Subset, FS_CardinalityType DEF Small
    <3>2. s \in Small(S, n)
          BY <1>3, <3>1 DEF Small
    <3> HIDE DEF Next1
    <3>3. g[s] = IF s = {} THEN 0 ELSE Next1(g, s)
          BY <2>3
    <3> QED
        BY <3>2, <3>3
  <2>5. \A s \in Small(S, n) : s # {} => h[s \ {Some(s)}] = g[s \ {Some(s)}]
    <3> SUFFICES ASSUME NEW s \in Small(S, n), s # {}
                 PROVE  h[s \ {Some(s)}] = g[s \ {Some(s)}]
        OBVIOUS
    <3>1. s \ {Some(s)} \in Small(S, n - 1)
          BY <1>3, SomeIsIn DEF Small
    <3> QED
        BY <2>4, <3>1
  <2> HIDE DEF h
  <2>6. \A s \in Small(S, n) : s # {} => Next1(g, s) = Next1(h, s)
        BY <2>5
  <2> HIDE DEF Next1
  <2>7. h = [s \in Small(S, n) |-> IF s = {} THEN 0 ELSE Next1(h, s)]
        BY <2>6 DEF h
  <2>8. Tally(h, f, Small(S, n))
        BY <2>7 DEF Tally, Next1
  <2> QED
      BY <1>3, <2>8
<1> QED
    BY <1>4, <1>5

LEMMA SumIsTally ==
    ASSUME NEW S, IsFiniteSet(S), NEW f
    PROVE  \E g : Tally(g, f, SUBSET S) /\ SumFunctionOnSet(f, S) = g[S]
<1> DEFINE iter == CHOOSE g : Tally(g, f, SUBSET S)
<1>1. Tally(iter, f, SUBSET S)
      BY TalliesExist
<1>2. SumFunctionOnSet(f, S) = iter[S]
      BY DEF SumFunctionOnSet, FoldFunctionOnSet, MapThenFoldSet, Tally, Some
<1> QED
    BY <1>1, <1>2

LEMMA TallyType ==
    ASSUME NEW S, IsFiniteSet(S), NEW f, \A x \in S : f[x] \in Nat,
           NEW g, Tally(g, f, SUBSET S), NEW s \in SUBSET S
    PROVE  g[s] \in Nat
<1> DEFINE T == {n \in Nat : \E r \in SUBSET S : Cardinality(r) = n /\ g[r] \notin Nat}
<1>1. SUFFICES ASSUME T # {}
               PROVE  FALSE
  <2>1. Cardinality(s) \in Nat
        BY FS_Subset, FS_CardinalityType
  <2> QED
      BY <1>1, <2>1
<1>2. PICK n \in T : \A m \in T : n <= m
  <2>1. T \in SUBSET Nat
        OBVIOUS
  <2> HIDE DEF T
  <2> QED
      BY <1>1, <2>1, LeastNatural
<1>3. PICK r \in SUBSET S : Cardinality(r) = n /\ g[r] \notin Nat
      BY <1>2
<1>4. g[r] = IF r = {} THEN 0 ELSE f[Some(r)] + g[r \ {Some(r)}]
      BY DEF Tally
<1>5. /\ r # {} /\ r \ {Some(r)} \in SUBSET S /\ Some(r) \in S
      /\ Cardinality(r \ {Some(r)}) = n - 1 /\ n \in Nat \ {0}
      BY <1>3, <1>4, SomeIsIn
<1>6. n - 1 \in Nat /\ n - 1 \notin T
  <2> HIDE DEF T
  <2> QED
      BY <1>2, <1>5
<1>7. g[r \ {Some(r)}] \in Nat
      BY <1>5, <1>6
<1> QED
    BY <1>3, <1>4, <1>5, <1>7

LEMMA SumType ==
    ASSUME NEW S, IsFiniteSet(S), NEW f, \A x \in S : f[x] \in Nat
    PROVE  SumFunctionOnSet(f, S) \in Nat
<1>1. PICK g : Tally(g, f, SUBSET S) /\ SumFunctionOnSet(f, S) = g[S]
      BY SumIsTally
<1>2. S \in SUBSET S
      OBVIOUS
<1>3. g[S] \in Nat
      BY <1>1, <1>2, TallyType
<1> QED
    BY <1>1, <1>3

\* The sum does not depend on what is taken first.
LEMMA TallyOfOneMore ==
    ASSUME NEW S, IsFiniteSet(S), NEW f, \A x \in S : f[x] \in Nat,
           NEW g, Tally(g, f, SUBSET S), NEW s \in SUBSET S, NEW x \in s
    PROVE  g[s] = f[x] + g[s \ {x}]
<1> DEFINE T == {n \in Nat : \E r \in SUBSET S : \E y \in r :
                     Cardinality(r) = n /\ g[r] # f[y] + g[r \ {y}]}
<1>1. SUFFICES ASSUME T # {}
               PROVE  FALSE
  <2>1. Cardinality(s) \in Nat
        BY FS_Subset, FS_CardinalityType
  <2> QED
      BY <1>1, <2>1
<1>2. PICK n \in T : \A m \in T : n <= m
  <2>1. T \in SUBSET Nat
        OBVIOUS
  <2> HIDE DEF T
  <2> QED
      BY <1>1, <2>1, LeastNatural
<1>0. PICK r \in SUBSET S : \E y \in r : Cardinality(r) = n /\ g[r] # f[y] + g[r \ {y}]
       BY <1>2
<1>3. PICK y \in r : Cardinality(r) = n /\ g[r] # f[y] + g[r \ {y}]
      BY <1>0
<1> DEFINE z == Some(r)
<1>4. /\ z \in r /\ r \ {z} \in SUBSET S /\ r \ {y} \in SUBSET S /\ IsFiniteSet(r)
      /\ n \in Nat \ {0}
      BY <1>3, SomeIsIn, FS_Subset
<1>5. g[r] = f[z] + g[r \ {z}]
      BY <1>4 DEF Tally
<1>6. z # y
      BY <1>3, <1>5
<1> HIDE DEF z
<1>7. Cardinality(r \ {z}) = n - 1 /\ Cardinality(r \ {y}) = n - 1
      BY <1>3, <1>4, OneFewer
<1>8. n - 1 \in Nat /\ n - 1 \notin T
  <2> HIDE DEF T
  <2> QED
      BY <1>2, <1>4
<1>9. g[r \ {z}] = f[y] + g[(r \ {z}) \ {y}]
  <2>1. y \in r \ {z}
        BY <1>6
  <2> QED
      BY <1>4, <1>7, <1>8, <2>1
<1>10. g[r \ {y}] = f[z] + g[(r \ {y}) \ {z}]
  <2>1. z \in r \ {y}
        BY <1>4, <1>6
  <2> QED
      BY <1>4, <1>7, <1>8, <2>1
<1>11. (r \ {z}) \ {y} = (r \ {y}) \ {z} /\ (r \ {y}) \ {z} \in SUBSET S
       OBVIOUS
<1>12. g[(r \ {y}) \ {z}] \in Nat /\ f[y] \in Nat /\ f[z] \in Nat
       BY <1>4, <1>11, TallyType
<1>13. f[z] + (f[y] + g[(r \ {y}) \ {z}]) = f[y] + (f[z] + g[(r \ {y}) \ {z}])
       BY <1>12
<1> QED
    BY <1>3, <1>5, <1>9, <1>10, <1>11, <1>13

\* A sum in three parts: the same members, members of three each, members of zero.
LEMMA SumInParts ==
    ASSUME NEW S, IsFiniteSet(S), NEW f, NEW h, NEW G \in SUBSET S, NEW B \in SUBSET S,
           G \cap B = {},
           \A x \in G : f[x] = h[x] /\ h[x] \in Nat,
           \A x \in B : f[x] = 3,
           \A x \in S \ (G \cup B) : f[x] = 0
    PROVE  SumFunctionOnSet(f, S) = SumFunctionOnSet(h, G) + 3 * Cardinality(B)
<1>1. IsFiniteSet(G) /\ IsFiniteSet(B)
      BY FS_Subset
<1>2. \A x \in S : f[x] \in Nat
      OBVIOUS
<1>3. PICK a : Tally(a, f, SUBSET S) /\ SumFunctionOnSet(f, S) = a[S]
      BY SumIsTally
<1>4. PICK c : Tally(c, h, SUBSET G) /\ SumFunctionOnSet(h, G) = c[G]
      BY <1>1, SumIsTally
<1> DEFINE Splits(s) == a[s] = c[s \cap G] + 3 * Cardinality(s \cap B)
           T == {n \in Nat : \E s \in SUBSET S : Cardinality(s) = n /\ ~Splits(s)}
<1>5. SUFFICES ASSUME T # {}
               PROVE  FALSE
  <2>1. Cardinality(S) \in Nat /\ S \in SUBSET S
        BY FS_CardinalityType
  <2>2. Splits(S)
        BY <1>5, <2>1
  <2>3. S \cap G = G /\ S \cap B = B
        OBVIOUS
  <2> QED
      BY <1>3, <1>4, <2>2, <2>3
<1>6. PICK n \in T : \A m \in T : n <= m
  <2>1. T \in SUBSET Nat
        OBVIOUS
  <2> HIDE DEF T
  <2> QED
      BY <1>5, <2>1, LeastNatural
<1>7. PICK s \in SUBSET S : Cardinality(s) = n /\ ~Splits(s)
      BY <1>6
<1> HIDE DEF Splits, T
<1> DEFINE parts(r) == c[r \cap G] + 3 * Cardinality(r \cap B)
<1>8. a[s] # parts(s)
       BY <1>7 DEF Splits
<1>9. CASE s = {}
  <2>1. s \cap G = {} /\ s \cap B = {} /\ a[s] = 0 /\ c[{}] = 0
        BY <1>3, <1>4, <1>9 DEF Tally
  <2>2. Cardinality(s \cap B) = 0 /\ c[s \cap G] = 0
        BY <2>1, FS_EmptySet
  <2>3. parts(s) = 0
        BY <2>2
  <2> QED
      BY <1>8, <2>1, <2>3
<1>10. CASE s # {}
  <2>1. PICK x : x \in s
        BY <1>10
  <2> DEFINE r == s \ {x}
  <2>2. r \in SUBSET S /\ Cardinality(r) = n - 1 /\ n \in Nat \ {0}
        BY <1>7, <2>1, FS_Subset, OneFewer
  <2>3. n - 1 \in Nat /\ n - 1 \notin T
    <3> QED
        BY <1>6, <2>2
  <2>4. a[r] = parts(r)
        BY <2>2, <2>3 DEF T, Splits
  <2>5. a[s] = f[x] + a[r]
        BY <1>2, <1>3, <2>1, TallyOfOneMore
  <2>6. /\ IsFiniteSet(r \cap B) /\ Cardinality(r \cap B) \in Nat
        /\ c[r \cap G] \in Nat
    <3>1. r \cap G \in SUBSET G
          OBVIOUS
    <3> QED
        BY <1>1, <1>4, <3>1, FS_Intersection, FS_CardinalityType, TallyType
  <2>7. CASE x \in G
    <3>1. s \cap B = r \cap B /\ (s \cap G) \ {x} = r \cap G /\ x \in s \cap G /\ s \cap G \in SUBSET G
          BY <2>1, <2>7
    <3>2. c[s \cap G] = h[x] + c[r \cap G]
          BY <1>1, <1>4, <3>1, TallyOfOneMore
    <3>3. f[x] = h[x] /\ h[x] \in Nat
          BY <2>7
    <3>4. parts(s) = (h[x] + c[r \cap G]) + 3 * Cardinality(r \cap B)
          BY <3>1, <3>2
    <3> HIDE DEF r
    <3> QED
        BY <1>8, <2>4, <2>5, <2>6, <3>4, <3>3
  <2>8. CASE x \in B
    <3>1. s \cap G = r \cap G /\ s \cap B = (r \cap B) \cup {x} /\ x \notin r \cap B
          BY <2>1, <2>8
    <3>2. Cardinality(s \cap B) = Cardinality(r \cap B) + 1
          BY <2>6, <3>1, FS_AddElement
    <3>3. f[x] = 3
          BY <2>8
    <3>4. parts(s) = c[r \cap G] + 3 * (Cardinality(r \cap B) + 1)
          BY <3>1, <3>2
    <3> HIDE DEF r
    <3> QED
        BY <1>8, <2>4, <2>5, <2>6, <3>4, <3>3
  <2>9. CASE x \notin G \cup B
    <3>1. s \cap G = r \cap G /\ s \cap B = r \cap B
          BY <2>1, <2>9
    <3>2. f[x] = 0
          BY <2>1, <2>9
    <3>3. parts(s) = parts(r)
          BY <3>1
    <3> HIDE DEF r
    <3> QED
        BY <1>8, <2>4, <2>5, <2>6, <3>2, <3>3
  <2> QED
      BY <2>7, <2>8, <2>9
<1> QED
    BY <1>9, <1>10

-----------------------------------------------------------------------------
(* Match points *)

LEMMA MatchesFinite ==
    ASSUME HistoryOK, NEW p
    PROVE  /\ IsFiniteSet(MatchesOf(history, p))
           /\ IsFiniteSet(Reported(history, p))
           /\ IsFiniteSet(Games(history, p))
           /\ \A x \in MatchesOf(history, p) : MatchOK(x[2]) /\ p \in x[2].seats
<1>1. Len(history) \in Nat /\ DOMAIN history = 1..Len(history)
      BY DEF HistoryOK
<1> DEFINE rounds == [i \in 1..Len(history) |-> {i} \X history[i]]
<1>2. Matches(history) = UNION Range(rounds)
      BY <1>1 DEF Matches, Range
<1>3. IsFiniteSet(Range(rounds))
  <2>1. rounds \in Surjection(1..Len(history), Range(rounds))
        BY DEF Surjection, Range
  <2>2. IsFiniteSet(1..Len(history))
        BY <1>1, FS_Interval
  <2> HIDE DEF rounds
  <2> QED
      BY <2>1, <2>2, FS_Surjection
<1>4. \A R \in Range(rounds) : IsFiniteSet(R)
  <2> SUFFICES ASSUME NEW i \in 1..Len(history)
               PROVE  IsFiniteSet({i} \X history[i])
      BY DEF Range
  <2>1. IsFiniteSet({i}) /\ IsFiniteSet(history[i])
        BY FS_Singleton DEF HistoryOK, RoundOK
  <2> QED
      BY <2>1, FS_Product
<1>5. IsFiniteSet(Matches(history))
  <2> HIDE DEF rounds
  <2> QED
      BY <1>2, <1>3, <1>4, FS_UNION
<1>6. /\ MatchesOf(history, p) \in SUBSET Matches(history)
      /\ Reported(history, p) \in SUBSET MatchesOf(history, p)
      /\ Games(history, p) \in SUBSET Reported(history, p)
      BY DEF MatchesOf, Reported, Games
<1>7. \A x \in Matches(history) : MatchOK(x[2])
      BY <1>1 DEF Matches, HistoryOK, RoundOK
<1>8. \A x \in MatchesOf(history, p) : p \in x[2].seats
      BY DEF MatchesOf
<1> QED
    BY <1>5, <1>6, <1>7, <1>8, FS_Subset

\* Points per match: three for a win, one for a draw.
Earned(m, p) ==
    IF m.games[p] > m.games[Opponent(m, p)] THEN 3
    ELSE IF m.games[p] = m.games[Opponent(m, p)] THEN 1 ELSE 0

LEMMA PlayersPointsAgree ==
    ASSUME HistoryOK, NEW p
    PROVE  /\ Points(history, p) = MatchPoints(history, p)
           /\ Points(history, p) \in Nat
<1> DEFINE S == MatchesOf(history, p)
           G == Games(history, p)
           B == Reported(history, p) \ G
           of(m) == IF m.games = NoResult THEN 0
                    ELSE IF ~BothSeats(m) THEN 3 ELSE Earned(m, p)
           f == [x \in S |-> of(x[2])]
           h == [x \in G |-> Earned(x[2], p)]
<1>1. /\ IsFiniteSet(S) /\ IsFiniteSet(Reported(history, p)) /\ IsFiniteSet(G)
      BY MatchesFinite
<1>2. Points(history, p) = SumFunctionOnSet(f, S)
      BY DEF Points, SumFunction, Earned
<1>3. MatchPointsOfGames(history, p) = SumFunctionOnSet(h, G)
      BY DEF MatchPointsOfGames, SumFunction, Earned
<1>4. G \in SUBSET S /\ B \in SUBSET S /\ G \cap B = {} /\ G \in SUBSET Reported(history, p)
      BY DEF Reported, Games
<1>5. \A x \in G : f[x] = h[x] /\ h[x] \in Nat
  <2>1. \A x \in G : x \in S /\ x[2].games # NoResult /\ BothSeats(x[2])
        BY DEF Reported, Games
  <2>2. \A m : Earned(m, p) \in Nat
        BY DEF Earned
  <2> QED
      BY <2>1, <2>2
<1>6. \A x \in B : f[x] = 3
      BY DEF Reported, Games
<1>7. \A x \in S \ (G \cup B) : f[x] = 0
      BY DEF Reported, Games
<1> HIDE DEF f, h, S, G, B
<1>8. SumFunctionOnSet(f, S) = SumFunctionOnSet(h, G) + 3 * Cardinality(B)
      BY <1>1, <1>4, <1>5, <1>6, <1>7, SumInParts
<1>9. Cardinality(B) = Cardinality(Reported(history, p)) - Cardinality(G)
  <2>1. Reported(history, p) \cap G = G
        BY <1>4
  <2> QED
      BY <1>1, <2>1, FS_Difference DEF B
<1>10. Points(history, p) = MatchPoints(history, p)
       BY <1>2, <1>3, <1>8, <1>9 DEF MatchPoints, G
<1>11. SumFunctionOnSet(f, S) \in Nat
  <2>1. \A x \in S : f[x] \in Nat
        BY <1>5, <1>6, <1>7
  <2> QED
      BY <1>1, <2>1, SumType
<1> QED
    BY <1>2, <1>10, <1>11

\* The points by which players are paired are the match points of the standings,
\* in every state: dropped players, byes and matches without a result included.
THEOREM PointsAlwaysAgree == Spec => []PointsAgree
<1>1. RoundsInvariant => PointsAgree
      BY PlayersPointsAgree DEF RoundsInvariant, PointsAgree
<1> QED
    BY <1>1, RoundsInit, RoundsNext, PTL DEF Spec

-----------------------------------------------------------------------------
(* The byes *)

\* Whoever has the bye among these tables may have it.
FairTables(tables, hist) ==
    \A t, u \in tables : \A p \in t, q \in u : t = {p} /\ ~HadBye(hist, q) =>
        ~HadBye(hist, p) /\ Points(hist, p) <= Points(hist, q)

TablesOf(R) == {m.seats : m \in R}
Before(i)   == SubSeq(history, 1, i - 1)

\* The draft's bye is fair as a published one is, for the points do not change
\* while there is a draft.
ByesInvariant ==
    /\ RoundsInvariant
    /\ \A i \in DOMAIN history \ moved : FairTables(TablesOf(history[i]), Before(i))
    /\ draft # NoDraft /\ NextRound \notin moved => FairTables(draft, history)

LEMMA PickByeIsFair ==
    ASSUME HistoryOK, NEW active, NEW p \in PickBye(active, history),
           NEW q \in active, ~HadBye(history, q)
    PROVE  ~HadBye(history, p) /\ Points(history, p) <= Points(history, q)
<1> DEFINE group(k) == {r \in active : Points(history, r) = k}
           fresh(k) == {r \in group(k) : ~HadBye(history, r)}
           keys     == {Points(history, r) : r \in active}
           tried    == {k \in keys : fresh(k) # {}}
<1>1. keys \in SUBSET Nat
      BY PlayersPointsAgree
<1>2. Points(history, q) \in tried
      OBVIOUS
<1>3. p \in fresh(Min(tried))
      BY <1>2 DEF PickBye
<1>4. \A k \in tried : Min(tried) <= k
  <2>1. tried \in SUBSET Nat
        BY <1>1
  <2> HIDE DEF tried
  <2> QED
      BY <1>2, <2>1, LeastIsMember
<1> QED
    BY <1>2, <1>3, <1>4

LEMMA PairedTablesAreFair ==
    ASSUME HistoryOK, NEW P \in Pair(Active, history)
    PROVE  FairTables(P, history)
<1> SUFFICES ASSUME NEW t \in P, NEW u \in P, NEW p \in t, NEW q \in u,
                    t = {p}, ~HadBye(history, q)
             PROVE  ~HadBye(history, p) /\ Points(history, p) <= Points(history, q)
    BY DEF FairTables
<1>1. IsFiniteSet(Active)
      BY PlayersAreFinite, FS_Difference DEF Active
<1>2. /\ P \in Pairings(Active)
      /\ \A v \in ByesIn(P) : \A r \in v : r \in PickBye(Active, history)
      BY <1>1, PairIsFair
<1>3. t \in ByesIn(P)
      BY FS_Singleton DEF ByesIn
<1>4. p \in PickBye(Active, history) /\ q \in Active
      BY <1>2, <1>3 DEF Pairings
<1> QED
    BY <1>4, PickByeIsFair

\* Whoever swaps tables without the bye leaves it where it was.
LEMMA SwappedTablesAreFair ==
    ASSUME NEW D, NEW E, NEW hist, FairTables(D, hist), ByesIn(E) = ByesIn(D), UNION E = UNION D
    PROVE  FairTables(E, hist)
<1> SUFFICES ASSUME NEW t \in E, NEW u \in E, NEW p \in t, NEW q \in u,
                    t = {p}, ~HadBye(hist, q)
             PROVE  ~HadBye(hist, p) /\ Points(hist, p) <= Points(hist, q)
    BY DEF FairTables
<1>1. t \in ByesIn(E)
      BY FS_Singleton DEF ByesIn
<1>2. t \in D
      BY <1>1 DEF ByesIn
<1>3. PICK w \in D : q \in w
      OBVIOUS
<1> QED
    BY <1>2, <1>3 DEF FairTables

\* A round that is not the last is what it was.
LEMMA BeforeStays ==
    ASSUME HistoryOK, HistoryOK', NEW i \in DOMAIN history,
           Len(history') >= Len(history), \A k \in 1..(i - 1) : history'[k] = history[k]
    PROVE  SubSeq(history', 1, i - 1) = SubSeq(history, 1, i - 1)
<1>1. /\ history \in Seq(SUBSET MatchRecords) /\ history' \in Seq(SUBSET MatchRecords)
      BY DEF HistoryOK, MatchRecords
<1>2. i - 1 \in 0..Len(history) /\ i - 1 \in 0..Len(history')
      BY <1>1
<1>3. /\ SubSeq(history, 1, i - 1) = Restrict(history, 1..(i - 1))
      /\ SubSeq(history', 1, i - 1) = Restrict(history', 1..(i - 1))
      BY <1>1, <1>2, SubSeqRestrict
<1> QED
    BY <1>3 DEF Restrict

LEMMA ByesInit == Init => ByesInvariant
BY RoundsInit DEF Init, ByesInvariant, NoDraft

LEMMA ByesNext == ByesInvariant /\ [Next]_vars => ByesInvariant'
<1> SUFFICES ASSUME ByesInvariant, [Next]_vars
             PROVE  ByesInvariant'
    OBVIOUS
<1>0. RoundsInvariant /\ RoundsInvariant'
      BY RoundsNext DEF ByesInvariant
<1>1. HistoryOK /\ HistoryOK'
      BY <1>0 DEF RoundsInvariant
<1>2. /\ history \in Seq(SUBSET MatchRecords) /\ Len(history) \in Nat
      /\ DOMAIN history = 1..Len(history)
      BY <1>1 DEF HistoryOK
<1>3. NextRound \notin DOMAIN history
      BY <1>2 DEF NextRound
<1>4. ASSUME UNCHANGED history,
             moved' \cap DOMAIN history = moved \cap DOMAIN history,
             draft' # NoDraft /\ NextRound \notin moved' => FairTables(draft', history)
      PROVE  ByesInvariant'
  <2>1. NextRound' = NextRound
        BY <1>4 DEF NextRound
  <2>2. \A i \in DOMAIN history \ moved' : FairTables(TablesOf(history[i]), Before(i))
        BY <1>4 DEF ByesInvariant
  <2>3. \A i : Before(i)' = Before(i)
        BY <1>4 DEF Before
  <2> QED
      BY <1>0, <1>4, <2>1, <2>2, <2>3 DEF ByesInvariant
<1>5. CASE PairNextRound \/ Reroll
  <2>1. draft' \in Pair(Active, history) /\ UNCHANGED history /\ moved' = moved \ {NextRound}
        BY <1>5 DEF PairNextRound, Reroll
  <2>2. FairTables(draft', history)
        BY <1>1, <2>1, PairedTablesAreFair
  <2> QED
      BY <1>3, <1>4, <2>1, <2>2
<1>6. CASE Swap
  <2>1. PICK t \in draft, u \in draft : \E p \in t, q \in u :
            t # u /\ draft' = (draft \ {t, u}) \cup {(t \ {p}) \cup {q}, (u \ {q}) \cup {p}}
        BY <1>6 DEF Swap
  <2>2. PICK p \in t, q \in u :
            draft' = (draft \ {t, u}) \cup {(t \ {p}) \cup {q}, (u \ {q}) \cup {p}}
        BY <2>1
  <2>3. UNION draft' = UNION draft
    <3> DEFINE v == (t \ {p}) \cup {q}
               w == (u \ {q}) \cup {p}
               D == draft \ {t, u}
    <3>1. v \cup w = t \cup u
          OBVIOUS
    <3>2. draft' = D \cup {v, w} /\ draft = D \cup {t, u}
          BY <2>2
    <3> HIDE DEF v, w, D
    <3>3. UNION draft' = (UNION D) \cup (v \cup w)
          BY ONLY <3>2
    <3>4. UNION draft = (UNION D) \cup (t \cup u)
          BY ONLY <3>2
    <3> QED
        BY ONLY <3>1, <3>3, <3>4
  <2>4. /\ draft # NoDraft /\ UNCHANGED history
        /\ moved' = IF ByesIn(draft') = ByesIn(draft) THEN moved ELSE moved \cup {NextRound}
        BY <1>6 DEF Swap
  <2>5. NextRound \notin moved' => ByesIn(draft') = ByesIn(draft) /\ FairTables(draft, history)
        BY <2>4 DEF ByesInvariant
  <2>6. NextRound \notin moved' => FairTables(draft', history)
        BY <2>3, <2>5, SwappedTablesAreFair
  <2> QED
      BY <1>3, <1>4, <2>4, <2>6
<1>7. CASE Publish
  <2> DEFINE match(t) == IF Cardinality(t) = 1 THEN Bye(t) ELSE Unreported(t)
             R == {match(t) : t \in draft}
  <2>1. history' = Append(history, R) /\ draft # NoDraft /\ draft' = NoDraft /\ UNCHANGED moved
        BY <1>7 DEF Publish
  <2>2. TablesOf(R) = draft
    <3>1. \A t \in draft : match(t).seats = t
          BY DEF Bye, Unreported
    <3> HIDE DEF match
    <3> QED
        BY <3>1 DEF TablesOf
  <2> HIDE DEF R
  <2>3. /\ Len(history') = NextRound /\ DOMAIN history' = 1..NextRound
        /\ history'[NextRound] = R /\ \A i \in DOMAIN history : history'[i] = history[i]
        BY <1>2, <2>1 DEF NextRound
  <2>4. ASSUME NEW i \in DOMAIN history' \ moved'
        PROVE  FairTables(TablesOf(history'[i]), Before(i)')
    <3>1. CASE i = NextRound
      <4>1. Before(i)' = history
        <5>1. SubSeq(history', 1, i - 1) = Restrict(history', 1..(i - 1))
          <6>1. history' \in Seq(SUBSET MatchRecords) /\ i - 1 \in 0..Len(history')
                BY <1>1, <1>2, <2>3, <3>1 DEF HistoryOK, NextRound, MatchRecords
          <6> QED
              BY <6>1, SubSeqRestrict
        <5>2. 1..(i - 1) = DOMAIN history
              BY <1>2, <3>1 DEF NextRound
        <5>3. Restrict(history', DOMAIN history) = history
              BY <1>2, <2>3 DEF Restrict
        <5> QED
            BY <5>1, <5>2, <5>3 DEF Before
      <4>2. FairTables(draft, history)
            BY <2>1, <2>4, <3>1 DEF ByesInvariant
      <4> QED
          BY <2>2, <2>3, <3>1, <4>1, <4>2
    <3>2. CASE i # NextRound
      <4>1. i \in DOMAIN history \ moved /\ Len(history') >= Len(history)
            BY <1>2, <2>1, <2>3, <3>2 DEF NextRound
      <4>2. \A k \in 1..(i - 1) : history'[k] = history[k]
            BY <1>2, <2>3, <4>1
      <4>3. Before(i)' = Before(i)
            BY <1>1, <4>1, <4>2, BeforeStays DEF Before
      <4>4. FairTables(TablesOf(history[i]), Before(i))
            BY <4>1 DEF ByesInvariant
      <4> QED
          BY <2>3, <4>1, <4>3, <4>4
    <3> QED
        BY <3>1, <3>2
  <2>5. \A i \in DOMAIN history' \ moved' : FairTables(TablesOf(history'[i]), Before(i)')
        BY <2>4
  <2>6. (NoDraft = {{}})'
        BY DEF NoDraft
  <2> QED
      BY <1>0, <2>1, <2>5, <2>6 DEF ByesInvariant, NoDraft
<1>8. CASE Report
  <2> DEFINE n == Len(history)
             made(m, g) == (history[n] \ {m}) \cup {[m EXCEPT !.games = g]}
  <2>1. PICK m \in history[n] : \E g \in Results(m.seats) :
            history' = [history EXCEPT ![n] = made(m, g)]
        BY <1>8 DEF Report
  <2>2. PICK g \in Results(m.seats) : history' = [history EXCEPT ![n] = made(m, g)]
        BY <2>1
  <2>3. draft' = NoDraft /\ UNCHANGED moved /\ n \in DOMAIN history
    <3>1. history # <<>>
          BY <1>8 DEF Report
    <3> QED
        BY <1>2, <1>8, <3>1 DEF Report
  <2>4. TablesOf(made(m, g)) = TablesOf(history[n])
    <3>1. MatchOK(m)
          BY <1>1, <1>2, <2>3 DEF HistoryOK, RoundOK
    <3>2. [m EXCEPT !.games = g].seats = m.seats
          BY <3>1 DEF MatchOK, MatchRecords
    <3> DEFINE r == [m EXCEPT !.games = g]
    <3> HIDE DEF r
    <3>3. r.seats = m.seats => TablesOf((history[n] \ {m}) \cup {r}) = TablesOf(history[n])
          BY DEF TablesOf
    <3> QED
        BY <3>2, <3>3 DEF r
  <2> DEFINE R == made(m, g)
  <2>5. history' = [history EXCEPT ![n] = R] /\ TablesOf(R) = TablesOf(history[n])
        BY <2>2, <2>4
  <2> HIDE DEF R, made
  <2>6. /\ DOMAIN history' = DOMAIN history /\ Len(history') = Len(history)
        /\ \A k \in DOMAIN history : history'[k] = IF k = n THEN R ELSE history[k]
    <3>1. DOMAIN history' = DOMAIN history
          BY <2>5
    <3>2. history' \in Seq(SUBSET MatchRecords)
          BY <1>1 DEF HistoryOK, MatchRecords
    <3>3. Len(history') = Len(history)
          BY <1>2, <3>1, <3>2
    <3> QED
        BY <2>5, <3>1, <3>3
  <2>7. ASSUME NEW i \in DOMAIN history' \ moved'
        PROVE  FairTables(TablesOf(history'[i]), Before(i)')
    <3>1. i \in DOMAIN history \ moved
          BY <2>3, <2>6
    <3>2. \A k \in 1..(i - 1) : history'[k] = history[k]
          BY <1>2, <2>6, <3>1
    <3>3. Len(history') >= Len(history)
          BY <1>2, <2>6
    <3>4. Before(i)' = Before(i)
          BY <1>1, <3>1, <3>2, <3>3, BeforeStays DEF Before
    <3>5. TablesOf(history'[i]) = TablesOf(history[i])
          BY <2>5, <2>6, <3>1
    <3> QED
        BY <3>1, <3>4, <3>5 DEF ByesInvariant
  <2>8. \A i \in DOMAIN history' \ moved' : FairTables(TablesOf(history'[i]), Before(i)')
        BY <2>7
  <2> QED
      BY <1>0, <2>3, <2>8 DEF ByesInvariant, NoDraft
<1>9. CASE (\E p \in Active : Drop(p)) \/ UNCHANGED vars
  <2>1. UNCHANGED <<history, draft, moved>>
        BY <1>9 DEF Drop, vars
  <2> QED
      BY <1>4, <2>1 DEF ByesInvariant
<1> QED
    BY <1>5, <1>6, <1>7, <1>8, <1>9 DEF Next

\* Whatever is dropped, rerolled, swapped and corrected in between: in every
\* published round the bye is one that the players before it allow, unless the
\* organizer has moved it.
THEOREM ByesAreAlwaysFair == Spec => []ByesAreFair
<1>1. ASSUME ByesInvariant
      PROVE  ByesAreFair
  <2> SUFFICES ASSUME NEW i \in DOMAIN history \ moved, NEW m \in history[i], NEW o \in history[i],
                      NEW p \in m.seats, NEW q \in o.seats,
                      m.seats = {p}, ~HadBye(Before(i), q)
               PROVE  ~HadBye(Before(i), p) /\ Points(Before(i), p) <= Points(Before(i), q)
      BY DEF ByesAreFair, Before
  <2>1. FairTables(TablesOf(history[i]), Before(i))
        BY <1>1 DEF ByesInvariant
  <2>2. m.seats \in TablesOf(history[i]) /\ o.seats \in TablesOf(history[i])
        BY DEF TablesOf
  <2> HIDE DEF FairTables
  <2> QED
      BY <2>1, <2>2 DEF FairTables
<1>2. ByesInvariant => ByesAreFair
      BY <1>1
<1> QED
    BY <1>2, ByesInit, ByesNext, PTL DEF Spec

-----------------------------------------------------------------------------
(* The keys of the standings *)

Fractions == [num : Nat, den : Nat \ {0}]

LEMMA ProductPositive ==
    ASSUME NEW m \in Nat \ {0}, NEW n \in Nat \ {0}
    PROVE  m * n \in Nat \ {0}
OBVIOUS

LEMMA RoundedType ==
    ASSUME NEW n \in Nat, NEW d \in Nat \ {0}
    PROVE  Rounded(n, d) \in Fractions
<1> DEFINE fine == {s \in Scales : n * s >= d * Normal}
           s    == IF fine = {} THEN Max(Scales) ELSE Min(fine)
           q    == (n * s) \div d
           r    == (n * s) % d
<1>1. Scales \in SUBSET (Nat \ {0}) /\ Max(Scales) \in Scales
      BY ScalesAreBounded DEF Max
<1>2. fine # {} => Min(fine) \in fine
  <2>1. fine \in SUBSET Nat
        BY <1>1
  <2> HIDE DEF fine
  <2> QED
      BY <2>1, LeastIsMember
<1>3. s \in Nat \ {0}
      BY <1>1, <1>2
<1> HIDE DEF s, fine
<1>4. n * s \in Nat
      BY <1>3
<1>5. q \in Nat
  <2> DEFINE x == n * s
  <2> HIDE DEF x
  <2>1. x \in Nat => x \div d \in Nat
        OBVIOUS
  <2> QED
      BY <1>4, <2>1 DEF x
<1>6. Rounded(n, d) = Fraction(IF 2 * r > d \/ (2 * r = d /\ q % 2 = 1) THEN q + 1 ELSE q, s)
      BY DEF Rounded, s, fine
<1> HIDE DEF q, r
<1> QED
    BY <1>3, <1>5, <1>6 DEF Fraction, Fractions

LEMMA FractionType ==
    /\ Zero \in Fractions /\ Third \in Fractions
    /\ \A n \in Nat : Fraction(n, 1) \in Fractions
    /\ \A a \in Fractions : Floored(a) \in Fractions /\ Percent(a) \in Fractions
    /\ \A a, b \in Fractions : Plus(a, b) \in Fractions
<1>1. Zero \in Fractions /\ \A n \in Nat : Fraction(n, 1) \in Fractions
      BY DEF Zero, Fraction, Fractions
<1>2. Third \in Fractions
      BY RoundedType DEF Third
<1>3. \A a \in Fractions : Floored(a) \in Fractions
      BY <1>2 DEF Floored
<1>4. \A a \in Fractions : Percent(a) \in Fractions
  <2> TAKE a \in Fractions
  <2>1. 100 * a.num \in Nat /\ a.den \in Nat \ {0}
        BY DEF Fractions
  <2> QED
      BY <2>1, RoundedType DEF Percent
<1>5. ASSUME NEW a \in Fractions, NEW b \in Fractions
      PROVE  Plus(a, b) \in Fractions
  <2> DEFINE den == IF a.den > b.den THEN a.den ELSE b.den
  <2>1. a.num \in Nat /\ b.num \in Nat /\ a.den \in Nat \ {0} /\ b.den \in Nat \ {0}
        BY DEF Fractions
  <2>2. den \in Nat \ {0}
        BY <2>1
  <2> HIDE DEF den
  <2>3. den \div a.den \in Nat /\ den \div b.den \in Nat
        BY <2>1, <2>2
  <2>4. \A k, l, m, n \in Nat : k * l + m * n \in Nat
        OBVIOUS
  <2>5. a.num * (den \div a.den) + b.num * (den \div b.den) \in Nat
        BY <2>1, <2>3, <2>4
  <2> QED
      BY <2>2, <2>5, RoundedType DEF Plus, den
<1> QED
    BY <1>1, <1>2, <1>3, <1>4, <1>5

LEMMA SeatsOfGame ==
    ASSUME HistoryOK, NEW p, NEW x \in Games(history, p)
    PROVE  /\ p \in x[2].seats /\ Opponent(x[2], p) \in x[2].seats
           /\ x[2].games[p] \in Nat /\ x[2].games[Opponent(x[2], p)] \in Nat
<1> DEFINE m == x[2]
<1>1. MatchOK(m) /\ p \in m.seats /\ m.games # NoResult /\ Cardinality(m.seats) = 2
      BY MatchesFinite DEF Games, Reported, BothSeats
<1> HIDE DEF m
<1>2. IsFiniteSet(m.seats)
      BY <1>1, PlayersAreFinite, FS_Subset DEF MatchOK, MatchRecords
<1>3. PICK a, b : a # b /\ m.seats = {a, b}
      BY <1>1, <1>2, TwoSeats
<1>4. \E q \in m.seats : q # p
      BY <1>3
<1>5. Opponent(m, p) \in m.seats
      BY <1>4 DEF Opponent
<1>6. m.games \in [m.seats -> 0..2]
      BY <1>1 DEF MatchOK
<1>7. m.games[p] \in Nat /\ m.games[Opponent(m, p)] \in Nat
      BY <1>1, <1>5, <1>6
<1> QED
    BY <1>1, <1>5, <1>7 DEF m

LEMMA WinShares ==
    ASSUME HistoryOK, NEW p
    PROVE  MW(history, p) \in Fractions /\ GW(history, p) \in Fractions
<1>1. MW(history, p) \in Fractions
  <2> DEFINE n == Cardinality(Reported(history, p))
  <2>1. n \in Nat
        BY MatchesFinite, FS_CardinalityType
  <2>2. MatchPoints(history, p) \in Nat
        BY PlayersPointsAgree
  <2>3. MW(history, p) = IF n = 0 THEN Third ELSE Floored(Rounded(MatchPoints(history, p), 3 * n))
        BY DEF MW
  <2> HIDE DEF n
  <2>4. CASE n = 0
        BY <2>3, <2>4, FractionType
  <2>5. CASE n # 0
    <3>1. 3 * n \in Nat \ {0}
          BY <2>1, <2>5
    <3>2. Rounded(MatchPoints(history, p), 3 * n) \in Fractions
          BY <2>2, <3>1, RoundedType
    <3> QED
        BY <2>3, <2>5, <3>2, FractionType
  <2> QED
      BY <2>4, <2>5
<1>2. GW(history, p) \in Fractions
  <2> DEFINE met  == Games(history, p)
             w    == [x \in met |-> x[2].games[p]]
             l    == [x \in met |-> x[2].games[Opponent(x[2], p)]]
             won  == SumFunction(w)
             lost == SumFunction(l)
  <2>1. IsFiniteSet(met)
        BY MatchesFinite
  <2>2. \A x \in met : w[x] \in Nat /\ l[x] \in Nat
        BY SeatsOfGame
  <2>3. won = SumFunctionOnSet(w, met) /\ lost = SumFunctionOnSet(l, met)
        BY DEF SumFunction
  <2>4. GW(history, p) = IF won + lost = 0 THEN Zero ELSE Rounded(3 * won, 3 * (won + lost))
        BY DEF GW
  <2> HIDE DEF met, w, l, won, lost
  <2>5. won \in Nat /\ lost \in Nat
        BY <2>1, <2>2, <2>3, SumType
  <2>6. CASE won + lost = 0
        BY <2>4, <2>6, FractionType
  <2>7. CASE won + lost # 0
    <3>1. 3 * (won + lost) \in Nat \ {0} /\ 3 * won \in Nat
          BY <2>5, <2>7
    <3>2. Rounded(3 * won, 3 * (won + lost)) \in Fractions
          BY <3>1, RoundedType
    <3> QED
        BY <2>4, <2>7, <3>2
  <2> QED
      BY <2>6, <2>7
<1> QED
    BY <1>1, <1>2

\* The recursion of MeanOfOpponents over the first n rounds; v has what a round adds.
MeanSum(g, R, v, n) ==
    g = [i \in 0..n |-> IF i = 0 THEN Zero
                        ELSE IF i \notin R THEN g[i - 1] ELSE Plus(g[i - 1], v[i])]

LEMMA MeanSumExists ==
    ASSUME NEW R, NEW v, NEW N \in Nat
    PROVE  \E g : MeanSum(g, R, v, N)
<1> DEFINE T == {n \in Nat : ~ \E g : MeanSum(g, R, v, n)}
<1>1. SUFFICES ASSUME T # {}
               PROVE  FALSE
      OBVIOUS
<1>2. PICK n \in T : \A m \in T : n <= m
  <2>1. T \in SUBSET Nat
        OBVIOUS
  <2> HIDE DEF T
  <2> QED
      BY <1>1, <2>1, LeastNatural
<1>3. n \in Nat /\ ~ \E g : MeanSum(g, R, v, n)
      BY <1>2
<1> DEFINE of(r, i) == IF i = 0 THEN Zero
                       ELSE IF i \notin R THEN r[i - 1] ELSE Plus(r[i - 1], v[i])
<1>4. CASE n = 0
  <2> DEFINE g == [i \in 0..n |-> Zero]
  <2>1. \A i \in 0..n : i = 0
        BY <1>4
  <2>2. g = [i \in 0..n |-> of(g, i)]
        BY <2>1
  <2>3. MeanSum(g, R, v, n)
        BY <2>2 DEF MeanSum
  <2> QED
      BY <1>3, <2>3
<1>5. CASE n # 0
  <2>1. n - 1 \in Nat /\ n - 1 \notin T
    <3> HIDE DEF T
    <3> QED
        BY <1>2, <1>3, <1>5
  <2>2. PICK g : MeanSum(g, R, v, n - 1)
        BY <2>1
  <2> DEFINE h == [i \in 0..n |-> of(g, i)]
  <2>3. \A i \in 0..(n - 1) : h[i] = g[i]
    <3> TAKE i \in 0..(n - 1)
    <3>1. g[i] = of(g, i)
          BY <2>2 DEF MeanSum
    <3>2. i \in 0..n
          BY <1>3
    <3> HIDE DEF of
    <3> QED
        BY <3>1, <3>2
  <2> HIDE DEF h
  <2>4. \A i \in 0..n : of(g, i) = of(h, i)
    <3> TAKE i \in 0..n
    <3>1. i # 0 => i - 1 \in 0..(n - 1)
          BY <1>3
    <3> QED
        BY <2>3, <3>1
  <2> HIDE DEF of
  <2>5. h = [i \in 0..n |-> of(h, i)]
        BY <2>4 DEF h
  <2>6. MeanSum(h, R, v, n)
        BY <2>5 DEF MeanSum, of
  <2> QED
      BY <1>3, <2>6
<1> QED
    BY <1>4, <1>5

LEMMA MeanSumType ==
    ASSUME NEW R, NEW v, NEW N \in Nat, NEW g, MeanSum(g, R, v, N),
           \A i \in 0..N : v[i] \in Fractions
    PROVE  g[N] \in Fractions
<1> DEFINE T == {n \in 0..N : g[n] \notin Fractions}
<1>1. SUFFICES ASSUME T # {}
               PROVE  FALSE
      OBVIOUS
<1>2. PICK n \in T : \A m \in T : n <= m
  <2>1. T \in SUBSET Nat
        OBVIOUS
  <2> HIDE DEF T
  <2> QED
      BY <1>1, <2>1, LeastNatural
<1>3. n \in 0..N /\ g[n] \notin Fractions
      OBVIOUS
<1>4. g[n] = IF n = 0 THEN Zero
             ELSE IF n \notin R THEN g[n - 1] ELSE Plus(g[n - 1], v[n])
      BY <1>3 DEF MeanSum
<1>5. n # 0
      BY <1>3, <1>4, FractionType
<1>6. n - 1 \in 0..N /\ n - 1 \notin T
  <2> HIDE DEF T
  <2> QED
      BY <1>2, <1>3, <1>5
<1>7. g[n - 1] \in Fractions /\ v[n] \in Fractions
      BY <1>3, <1>6
<1> QED
    BY <1>3, <1>4, <1>5, <1>7, FractionType

LEMMA MeanType ==
    ASSUME HistoryOK, NEW p, NEW total \in Fractions
    PROVE  LET met == Games(history, p)
           IN  (IF met = {} THEN Zero ELSE Rounded(total.num, total.den * Cardinality(met))) \in Fractions
<1> DEFINE met == Games(history, p)
<1>1. IsFiniteSet(met) /\ total.num \in Nat /\ total.den \in Nat \ {0}
      BY MatchesFinite DEF Fractions
<1> HIDE DEF met
<1>2. CASE met = {}
      BY <1>2, FractionType DEF met
<1>3. CASE met # {}
  <2>1. Cardinality(met) \in Nat \ {0}
        BY <1>1, <1>3, FS_CardinalityType, FS_EmptySet
  <2>2. total.den * Cardinality(met) \in Nat \ {0}
        BY <1>1, <2>1, ProductPositive
  <2>3. Rounded(total.num, total.den * Cardinality(met)) \in Fractions
        BY <1>1, <2>2, RoundedType
  <2> QED
      BY <1>3, <2>3 DEF met
<1> QED
    BY <1>2, <1>3

LEMMA OpponentShares ==
    ASSUME HistoryOK, NEW p
    PROVE  OMW(history, p) \in Fractions /\ OGW(history, p) \in Fractions
<1> DEFINE met == Games(history, p)
           R == {x[1] : x \in met}
           N == Len(history)
           other(i) == Opponent((CHOOSE x \in met : x[1] = i)[2], p)
           mean(total) == IF met = {} THEN Zero ELSE Rounded(total.num, total.den * Cardinality(met))
<1>1. N \in Nat
      BY DEF HistoryOK
<1>2. OMW(history, p) \in Fractions
  <2> DEFINE v == [i \in 0..N |-> MW(history, other(i))]
             of(g, i) == IF i = 0 THEN Zero ELSE IF i \notin R THEN g[i - 1]
                         ELSE Plus(g[i - 1], MW(history, other(i)))
             sum == CHOOSE g : g = [i \in 0..N |-> of(g, i)]
  <2>1. OMW(history, p) = mean(sum[N])
        BY DEF OMW, MeanOfOpponents
  <2>2. \A g : MeanSum(g, R, v, N) <=> g = [i \in 0..N |-> of(g, i)]
    <3> TAKE g
    <3> DEFINE by(i) == IF i = 0 THEN Zero ELSE IF i \notin R THEN g[i - 1] ELSE Plus(g[i - 1], v[i])
    <3>1. \A i \in 0..N : by(i) = of(g, i)
          OBVIOUS
    <3> HIDE DEF by, of
    <3>2. [i \in 0..N |-> by(i)] = [i \in 0..N |-> of(g, i)]
          BY <3>1
    <3> QED
        BY <3>2 DEF MeanSum, by
  <2>3. \A i \in 0..N : v[i] \in Fractions
        BY WinShares
  <2> HIDE DEF v, of, R
  <2>4. MeanSum(sum, R, v, N)
        BY <1>1, <2>2, MeanSumExists
  <2> HIDE DEF sum, N
  <2>5. sum[N] \in Fractions
        BY <1>1, <2>3, <2>4, MeanSumType
  <2>6. mean(sum[N]) \in Fractions
        BY <2>5, MeanType
  <2> QED
      BY <2>1, <2>6
<1>3. OGW(history, p) \in Fractions
  <2> DEFINE v == [i \in 0..N |-> Floored(GW(history, other(i)))]
             of(g, i) == IF i = 0 THEN Zero ELSE IF i \notin R THEN g[i - 1]
                         ELSE Plus(g[i - 1], Floored(GW(history, other(i))))
             sum == CHOOSE g : g = [i \in 0..N |-> of(g, i)]
  <2>1. OGW(history, p) = mean(sum[N])
        BY DEF OGW, MeanOfOpponents
  <2>2. \A g : MeanSum(g, R, v, N) <=> g = [i \in 0..N |-> of(g, i)]
    <3> TAKE g
    <3> DEFINE by(i) == IF i = 0 THEN Zero ELSE IF i \notin R THEN g[i - 1] ELSE Plus(g[i - 1], v[i])
    <3>1. \A i \in 0..N : by(i) = of(g, i)
          OBVIOUS
    <3> HIDE DEF by, of
    <3>2. [i \in 0..N |-> by(i)] = [i \in 0..N |-> of(g, i)]
          BY <3>1
    <3> QED
        BY <3>2 DEF MeanSum, by
  <2>3. \A i \in 0..N : v[i] \in Fractions
        BY WinShares, FractionType
  <2> HIDE DEF v, of, R
  <2>4. MeanSum(sum, R, v, N)
        BY <1>1, <2>2, MeanSumExists
  <2> HIDE DEF sum, N
  <2>5. sum[N] \in Fractions
        BY <1>1, <2>3, <2>4, MeanSumType
  <2>6. mean(sum[N]) \in Fractions
        BY <2>5, MeanType
  <2> QED
      BY <2>1, <2>6
<1> QED
    BY <1>2, <1>3

RowOK(r) == \A k \in 1..4 : r.keys[k] \in Fractions

LEMMA RowType ==
    ASSUME HistoryOK, NEW p
    PROVE  RowOK(Row(history, p))
<1>1. Fraction(MatchPoints(history, p), 1) \in Fractions
      BY PlayersPointsAgree, FractionType
<1>2. /\ Percent(OMW(history, p)) \in Fractions /\ Percent(GW(history, p)) \in Fractions
      /\ Percent(OGW(history, p)) \in Fractions
      BY OpponentShares, WinShares, FractionType
<1> DEFINE keys == Row(history, p).keys
<1>3. /\ keys[1] = Fraction(MatchPoints(history, p), 1) /\ keys[2] = Percent(OMW(history, p))
      /\ keys[3] = Percent(GW(history, p)) /\ keys[4] = Percent(OGW(history, p))
      BY DEF Row
<1> QED
    BY <1>1, <1>2, <1>3 DEF RowOK

-----------------------------------------------------------------------------
(* The order of the standings *)

LEMMA TimesPositive ==
    ASSUME NEW x \in Int, NEW y \in Int, NEW n \in Nat \ {0}
    PROVE  x >= y <=> x * n >= y * n
<1>1. x >= y => x * n >= y * n
      OBVIOUS
<1>2. ~(x >= y) => ~(x * n >= y * n)
  <2>1. ~(x >= y) => (y - x) * n >= n
        OBVIOUS
  <2>2. (y - x) * n = y * n - x * n
        OBVIOUS
  <2>3. x * n \in Int /\ y * n \in Int
        OBVIOUS
  <2> QED
      BY <2>1, <2>2, <2>3
<1> QED
    BY <1>1, <1>2

LEMMA AtLeastOrders ==
    ASSUME NEW a \in Fractions, NEW b \in Fractions, NEW c \in Fractions
    PROVE  /\ AtLeast(a, b) \/ AtLeast(b, a)
           /\ AtLeast(a, b) /\ AtLeast(b, c) => AtLeast(a, c)
<1>1. /\ a.num \in Int /\ b.num \in Int /\ c.num \in Int
      /\ a.den \in Nat \ {0} /\ b.den \in Nat \ {0} /\ c.den \in Nat \ {0}
      BY DEF Fractions
<1> DEFINE ab == a.num * b.den
           ba == b.num * a.den
           bc == b.num * c.den
           cb == c.num * b.den
           ac == a.num * c.den
           ca == c.num * a.den
<1>2. ab \in Int /\ ba \in Int /\ bc \in Int /\ cb \in Int /\ ac \in Int /\ ca \in Int
      BY <1>1
<1>3. ab * c.den = ac * b.den /\ ba * c.den = bc * a.den /\ cb * a.den = ca * b.den
      BY <1>1
<1>4. /\ AtLeast(a, b) <=> ab >= ba
      /\ AtLeast(b, a) <=> ba >= ab
      /\ AtLeast(b, c) <=> bc >= cb
      /\ AtLeast(a, c) <=> ac >= ca
      BY DEF AtLeast
<1> HIDE DEF ab, ba, bc, cb, ac, ca
<1>5. ASSUME ab >= ba, bc >= cb
      PROVE  ac >= ca
  <2>1. ab * c.den >= ba * c.den
        BY <1>1, <1>2, <1>5, TimesPositive
  <2>2. bc * a.den >= cb * a.den
        BY <1>1, <1>2, <1>5, TimesPositive
  <2>3. ab * c.den \in Int /\ ba * c.den \in Int /\ cb * a.den \in Int
        BY <1>1, <1>2
  <2>4. ac * b.den >= ca * b.den
        BY <1>3, <2>1, <2>2, <2>3
  <2> QED
      BY <1>1, <1>2, <2>4, TimesPositive
<1> QED
    BY <1>2, <1>4, <1>5

SameKeys(a, b) == \A k \in 1..4 : Same(a.keys[k], b.keys[k])

\* The keys order the rows: whoever does not come after comes before or has the
\* same keys, and the same keys are one place in the order.
LEMMA PrecedesOrders ==
    ASSUME NEW a, RowOK(a), NEW b, RowOK(b), NEW c, RowOK(c)
    PROVE  /\ ~Precedes(a, a)
           /\ SameKeys(a, b) \/ Precedes(a, b) \/ Precedes(b, a)
           /\ ~(Precedes(a, b) /\ Precedes(b, a))
           /\ Precedes(a, b) /\ Precedes(b, c) => Precedes(a, c)
           /\ SameKeys(a, b) => (Precedes(a, c) <=> Precedes(b, c))
           /\ SameKeys(a, b) => (Precedes(c, a) <=> Precedes(c, b))
<1> DEFINE G(x, y, k) == AtLeast(x.keys[k], y.keys[k])
<1>1. \A k \in 1..4 :
          /\ G(a, b, k) \/ G(b, a, k)
          /\ G(a, b, k) /\ G(b, c, k) => G(a, c, k)
          /\ G(a, c, k) /\ G(c, b, k) => G(a, b, k)
          /\ G(b, a, k) /\ G(a, c, k) => G(b, c, k)
          /\ G(b, c, k) /\ G(c, a, k) => G(b, a, k)
          /\ G(c, a, k) /\ G(a, b, k) => G(c, b, k)
          /\ G(c, b, k) /\ G(b, a, k) => G(c, a, k)
  <2> TAKE k \in 1..4
  <2>1. a.keys[k] \in Fractions /\ b.keys[k] \in Fractions /\ c.keys[k] \in Fractions
        BY DEF RowOK
  <2> QED
      BY <2>1, AtLeastOrders
<1>2. \A x, y : SameKeys(x, y) <=> \A k \in 1..4 : G(x, y, k) /\ G(y, x, k)
      BY DEF SameKeys, Same
<1>3. \A x, y : Precedes(x, y) <=>
          \E k \in 1..4 : /\ G(x, y, k) /\ ~G(y, x, k)
                          /\ \A j \in 1..(k - 1) : G(x, y, j) /\ G(y, x, j)
      BY DEF Precedes, Same
<1> HIDE DEF G
<1>4. \A k \in 1..4 : \A j \in 1..(k - 1) : j \in 1..4
      OBVIOUS
<1>5. ~Precedes(a, a)
      BY <1>3
<1>6. SameKeys(a, b) \/ Precedes(a, b) \/ Precedes(b, a)
  <2> SUFFICES ASSUME ~SameKeys(a, b)
               PROVE  Precedes(a, b) \/ Precedes(b, a)
      OBVIOUS
  <2> DEFINE D == {k \in 1..4 : ~(G(a, b, k) /\ G(b, a, k))}
  <2>1. D # {}
        BY <1>2
  <2>2. PICK k \in D : \A j \in D : k <= j
    <3>1. D \in SUBSET Nat
          OBVIOUS
    <3> HIDE DEF D
    <3> QED
        BY <2>1, <3>1, LeastNatural
  <2>3. k \in 1..4 /\ ~(G(a, b, k) /\ G(b, a, k))
        OBVIOUS
  <2>4. \A j \in 1..(k - 1) : G(a, b, j) /\ G(b, a, j)
    <3> TAKE j \in 1..(k - 1)
    <3>1. j \in 1..4 /\ ~(k <= j)
          BY <2>3
    <3> QED
        BY <2>2, <3>1
  <2>5. G(a, b, k) \/ G(b, a, k)
        BY <1>1, <2>3
  <2> HIDE DEF D
  <2> QED
      BY <1>3, <2>3, <2>4, <2>5
<1>7. ~(Precedes(a, b) /\ Precedes(b, a))
  <2> SUFFICES ASSUME Precedes(a, b), Precedes(b, a)
               PROVE  FALSE
      OBVIOUS
  <2>1. PICK k \in 1..4 : /\ G(a, b, k) /\ ~G(b, a, k)
                          /\ \A j \in 1..(k - 1) : G(a, b, j) /\ G(b, a, j)
        BY <1>3
  <2>2. PICK l \in 1..4 : /\ G(b, a, l) /\ ~G(a, b, l)
                          /\ \A j \in 1..(l - 1) : G(b, a, j) /\ G(a, b, j)
        BY <1>3
  <2>3. k = l \/ k \in 1..(l - 1) \/ l \in 1..(k - 1)
        OBVIOUS
  <2> QED
      BY <2>1, <2>2, <2>3
<1>8. Precedes(a, b) /\ Precedes(b, c) => Precedes(a, c)
  <2> SUFFICES ASSUME Precedes(a, b), Precedes(b, c)
               PROVE  Precedes(a, c)
      OBVIOUS
  <2>1. PICK k \in 1..4 : /\ G(a, b, k) /\ ~G(b, a, k)
                          /\ \A j \in 1..(k - 1) : G(a, b, j) /\ G(b, a, j)
        BY <1>3
  <2>2. PICK l \in 1..4 : /\ G(b, c, l) /\ ~G(c, b, l)
                          /\ \A j \in 1..(l - 1) : G(b, c, j) /\ G(c, b, j)
        BY <1>3
  <2>3. CASE k \in 1..(l - 1)
    <3>1. G(a, c, k) /\ ~G(c, a, k)
          BY <1>1, <2>1, <2>2, <2>3
    <3>2. \A j \in 1..(k - 1) : G(a, c, j) /\ G(c, a, j)
      <4> TAKE j \in 1..(k - 1)
      <4>1. j \in 1..4 /\ j \in 1..(l - 1)
            BY <2>3
      <4> QED
          BY <1>1, <2>1, <2>2, <4>1
    <3> QED
        BY <1>3, <3>1, <3>2
  <2>4. CASE k \notin 1..(l - 1)
    <3>1. k = l \/ l \in 1..(k - 1)
          BY <2>4
    <3>2. G(a, c, l) /\ ~G(c, a, l)
          BY <1>1, <2>1, <2>2, <3>1
    <3>3. \A j \in 1..(l - 1) : G(a, c, j) /\ G(c, a, j)
      <4> TAKE j \in 1..(l - 1)
      <4>1. j \in 1..4 /\ j \in 1..(k - 1)
            BY <3>1
      <4> QED
          BY <1>1, <2>1, <2>2, <4>1
    <3> QED
        BY <1>3, <3>2, <3>3
  <2> QED
      BY <2>3, <2>4
<1>9. ASSUME SameKeys(a, b)
      PROVE  /\ Precedes(a, c) <=> Precedes(b, c)
             /\ Precedes(c, a) <=> Precedes(c, b)
  <2>1. \A k \in 1..4 : (G(a, c, k) <=> G(b, c, k)) /\ (G(c, a, k) <=> G(c, b, k))
        BY <1>1, <1>2, <1>9
  <2>2. Precedes(a, c) <=> Precedes(b, c)
        BY <1>3, <1>4, <2>1
  <2>3. Precedes(c, a) <=> Precedes(c, b)
        BY <1>3, <1>4, <2>1
  <2> QED
      BY <2>2, <2>3
<1> QED
    BY <1>5, <1>6, <1>7, <1>8, <1>9

-----------------------------------------------------------------------------
(* Ranks *)

\* The recursion of Ranks over the first n rows.
RankTally(g, rows, n) ==
    g = [i \in 1..n |-> IF i > 1 /\ Ties(rows[i], rows[i - 1]) THEN g[i - 1] ELSE i]

LEMMA RanksExist ==
    ASSUME NEW rows, NEW N \in Nat
    PROVE  \E g : RankTally(g, rows, N)
<1> DEFINE T == {n \in Nat : ~ \E g : RankTally(g, rows, n)}
<1>1. SUFFICES ASSUME T # {}
               PROVE  FALSE
      OBVIOUS
<1>2. PICK n \in T : \A m \in T : n <= m
  <2>1. T \in SUBSET Nat
        OBVIOUS
  <2> HIDE DEF T
  <2> QED
      BY <1>1, <2>1, LeastNatural
<1>3. n \in Nat /\ ~ \E g : RankTally(g, rows, n)
      BY <1>2
<1>4. CASE n = 0
  <2> DEFINE g == [i \in 1..n |-> i]
  <2>1. g = [i \in 1..n |-> IF i > 1 /\ Ties(rows[i], rows[i - 1]) THEN g[i - 1] ELSE i]
        BY <1>4
  <2>2. RankTally(g, rows, n)
        BY <2>1 DEF RankTally
  <2> QED
      BY <1>3, <2>2
<1>5. CASE n # 0
  <2>1. n - 1 \in Nat /\ n - 1 \notin T
    <3> HIDE DEF T
    <3> QED
        BY <1>2, <1>3, <1>5
  <2>2. PICK g : RankTally(g, rows, n - 1)
        BY <2>1
  <2> DEFINE of(r, i) == IF i > 1 /\ Ties(rows[i], rows[i - 1]) THEN r[i - 1] ELSE i
             h == [i \in 1..n |-> of(g, i)]
  <2>3. \A i \in 1..(n - 1) : h[i] = g[i]
    <3> TAKE i \in 1..(n - 1)
    <3>1. g[i] = of(g, i)
          BY <2>2 DEF RankTally
    <3>2. i \in 1..n
          BY <1>3
    <3> HIDE DEF of
    <3> QED
        BY <3>1, <3>2
  <2> HIDE DEF h
  <2>4. \A i \in 1..n : of(g, i) = of(h, i)
    <3> TAKE i \in 1..n
    <3>1. i > 1 => i - 1 \in 1..(n - 1)
          BY <1>3
    <3> QED
        BY <2>3, <3>1
  <2> HIDE DEF of
  <2>5. h = [i \in 1..n |-> of(h, i)]
        BY <2>4 DEF h
  <2>6. RankTally(h, rows, n)
        BY <2>5 DEF RankTally, of
  <2> QED
      BY <1>3, <2>6
<1> QED
    BY <1>4, <1>5

LEMMA RanksAre ==
    ASSUME NEW rows, Len(rows) \in Nat, NEW i \in 1..Len(rows)
    PROVE  Ranks(rows)[i] =
               IF i > 1 /\ Ties(rows[i], rows[i - 1]) THEN Ranks(rows)[i - 1] ELSE i
<1> DEFINE rank == CHOOSE g : RankTally(g, rows, Len(rows))
<1>1. RankTally(rank, rows, Len(rows))
      BY RanksExist
<1>2. Ranks(rows) = rank
      BY DEF Ranks, RankTally
<1> HIDE DEF rank
<1>3. rank[i] = IF i > 1 /\ Ties(rows[i], rows[i - 1]) THEN rank[i - 1] ELSE i
      BY <1>1 DEF RankTally
<1> QED
    BY <1>2, <1>3

RowsOf(roster) == {Row(history, p) : p \in roster}

LEMMA RowsFinite ==
    ASSUME HistoryOK, NEW roster, IsFiniteSet(roster)
    PROVE  IsFiniteSet(RowsOf(roster)) /\ \A r \in RowsOf(roster) : RowOK(r)
<1> DEFINE f == [p \in roster |-> Row(history, p)]
<1>1. f \in Surjection(roster, RowsOf(roster))
  <2>1. f \in [roster -> RowsOf(roster)]
        BY DEF RowsOf
  <2>2. \A r \in RowsOf(roster) : \E p \in roster : f[p] = r
        BY DEF RowsOf
  <2> HIDE DEF f
  <2> QED
      BY <2>1, <2>2 DEF Surjection
<1>2. IsFiniteSet(RowsOf(roster))
  <2> HIDE DEF f
  <2> QED
      BY <1>1, FS_Surjection
<1>3. \A r \in RowsOf(roster) : RowOK(r)
      BY RowType DEF RowsOf
<1> QED
    BY <1>2, <1>3

LEMMA RankCountsTheBetter ==
    ASSUME NEW n \in Nat, NEW rows, Len(rows) = n,
           \A i \in 1..n : RowOK(rows[i]),
           \A i, j \in 1..n : i < j => ~Precedes(rows[j], rows[i]),
           \A i, j \in 1..n : Ties(rows[i], rows[j]) <=> SameKeys(rows[i], rows[j]),
           NEW m \in 1..n
    PROVE  Ranks(rows)[m] = 1 + Cardinality({j \in 1..n : Precedes(rows[j], rows[m])})
<1> DEFINE better(i) == {j \in 1..n : Precedes(rows[j], rows[i])}
           Counts(i) == Ranks(rows)[i] = 1 + Cardinality(better(i))
           T == {i \in 1..n : ~Counts(i)}
<1>1. SUFFICES ASSUME T # {}
               PROVE  FALSE
      OBVIOUS
<1>2. PICK i \in T : \A j \in T : i <= j
  <2>1. T \in SUBSET Nat
        OBVIOUS
  <2> HIDE DEF T
  <2> QED
      BY <1>1, <2>1, LeastNatural
<1>3. i \in 1..n /\ ~Counts(i)
      OBVIOUS
<1> HIDE DEF T, Counts
<1>4. Ranks(rows)[i] = IF i > 1 /\ Ties(rows[i], rows[i - 1]) THEN Ranks(rows)[i - 1] ELSE i
      BY <1>3, RanksAre
<1>5. CASE i > 1 /\ Ties(rows[i], rows[i - 1])
  <2>1. i - 1 \in 1..n /\ i - 1 \notin T
        BY <1>2, <1>3, <1>5
  <2>2. Counts(i - 1)
        BY <2>1 DEF T
  <2>3. \A j \in 1..n : Precedes(rows[j], rows[i]) <=> Precedes(rows[j], rows[i - 1])
    <3> TAKE j \in 1..n
    <3>1. RowOK(rows[i]) /\ RowOK(rows[i - 1]) /\ RowOK(rows[j])
          BY <1>3, <2>1
    <3>2. SameKeys(rows[i], rows[i - 1])
          BY <1>3, <1>5, <2>1
    <3> QED
        BY <3>1, <3>2, PrecedesOrders
  <2>4. better(i) = better(i - 1)
        BY <2>3
  <2>5. Ranks(rows)[i] = Ranks(rows)[i - 1]
        BY <1>4, <1>5
  <2> HIDE DEF better
  <2> QED
      BY <1>3, <2>2, <2>4, <2>5 DEF Counts
<1>6. CASE ~(i > 1 /\ Ties(rows[i], rows[i - 1]))
  <2>1. \A j \in 1..n : Precedes(rows[j], rows[i]) <=> j < i
    <3> TAKE j \in 1..n
    <3>1. CASE j = i
      <4>1. ~Precedes(rows[i], rows[i])
            BY <1>3, PrecedesOrders
      <4> QED
          BY <1>3, <3>1, <4>1
    <3>2. CASE i < j
          BY <1>3, <3>2
    <3>3. CASE j < i
      <4>1. i - 1 \in 1..n /\ i > 1 /\ ~Ties(rows[i], rows[i - 1])
            BY <1>3, <1>6, <3>3
      <4> DEFINE a == rows[i]
                 b == rows[i - 1]
                 c == rows[j]
      <4>2. RowOK(a) /\ RowOK(b) /\ RowOK(c)
            BY <1>3, <4>1
      <4>3. ~Precedes(a, b)
            BY <1>3, <4>1
      <4>4. ~Precedes(b, c)
        <5>1. CASE j = i - 1
          <6>1. b = c
                BY <5>1
          <6> HIDE DEF b, c
          <6> QED
              BY <4>2, <6>1, PrecedesOrders
        <5>2. CASE j # i - 1
          <6>1. j < i - 1
                BY <1>3, <3>3, <5>2
          <6> QED
              BY <4>1, <6>1
        <5> QED
            BY <5>1, <5>2
      <4>5. ~SameKeys(a, b)
            BY <1>3, <4>1
      <4> HIDE DEF a, b, c
      <4>6. Precedes(b, a)
            BY <4>2, <4>3, <4>5, PrecedesOrders
      <4>7. SameKeys(c, b) \/ Precedes(c, b)
            BY <4>2, <4>4, PrecedesOrders
      <4>8. Precedes(c, a)
            BY <4>2, <4>6, <4>7, PrecedesOrders
      <4> QED
          BY <3>3, <4>8 DEF a, c
    <3> QED
        BY <1>3, <3>1, <3>2, <3>3
  <2>2. better(i) = 1..(i - 1)
        BY <1>3, <2>1
  <2>3. Cardinality(1..(i - 1)) = i - 1
        BY <1>3, FS_Interval
  <2>4. Ranks(rows)[i] = i
        BY <1>4, <1>6
  <2> HIDE DEF better
  <2> QED
      BY <1>3, <2>2, <2>3, <2>4 DEF Counts
<1> QED
    BY <1>5, <1>6

\* Where no rounding shows, rows tie that have the same keys, and nobody else.
LEMMA TiesAreSameKeys ==
    ASSUME NEW a, RowOK(a), NEW b, RowOK(b),
           \A k \in 1..4 : Near(a.keys[k], b.keys[k]) => Same(a.keys[k], b.keys[k])
    PROVE  /\ \A k \in 1..4 : TiesOn(k, a, b) <=> Same(a.keys[k], b.keys[k])
           /\ Ties(a, b) <=> SameKeys(a, b)
           /\ Outranks(a, b) <=> Precedes(a, b)
<1>1. ASSUME NEW x \in Fractions, NEW y \in Fractions, Same(x, y)
      PROVE  Near(x, y)
  <2> DEFINE d == x.num * y.den - y.num * x.den
             m == x.den * y.den
             e == Epsilon.num * x.den * y.den
  <2>1. /\ x.num \in Nat /\ y.num \in Nat /\ x.den \in Nat \ {0} /\ y.den \in Nat \ {0}
        /\ Epsilon.num \in Nat \ {0} /\ Epsilon.den \in Nat \ {0}
        BY EpsilonIsPositive DEF Fractions
  <2>2. x.num * y.den \in Int /\ y.num * x.den \in Int
        BY <2>1
  <2>3. d = 0
        BY <1>1, <2>2 DEF Same, AtLeast
  <2>4. Epsilon.num * x.den \in Nat \ {0}
        BY <2>1, ProductPositive
  <2>5. e \in Nat \ {0}
        BY <2>1, <2>4, ProductPositive
  <2> HIDE DEF d, e
  <2>6. d * Epsilon.den = 0 /\ (-d) * Epsilon.den = 0
        BY <2>1, <2>3
  <2>7. d * Epsilon.den < e /\ (-d) * Epsilon.den < e
        BY <2>5, <2>6
  <2> QED
      BY <2>7 DEF Near, d, e
<1>2. \A k \in 1..4 : TiesOn(k, a, b) <=> Same(a.keys[k], b.keys[k])
  <2> TAKE k \in 1..4
  <2>1. Same(a.keys[k], b.keys[k]) => Near(a.keys[k], b.keys[k])
        BY <1>1 DEF RowOK
  <2> QED
      BY <2>1 DEF TiesOn
<1>3. Ties(a, b) <=> SameKeys(a, b)
      BY <1>2 DEF Ties, SameKeys
<1>4. Outranks(a, b) <=> Precedes(a, b)
  <2>1. \A k \in 1..4 : \A j \in 1..(k - 1) : j \in 1..4
        OBVIOUS
  <2> QED
      BY <1>2, <2>1 DEF Outranks, Precedes
<1> QED
    BY <1>2, <1>3, <1>4

\* Whoever is ranked, and however names break the ties of the order: as long as no
\* rounding shows, a rank is one more than the number of players that are before.
THEOREM RanksFailOnlyForRounding == Spec => []RanksFailOnlyByRounding
<1>1. ASSUME HistoryOK
      PROVE  RanksFailOnlyByRounding
  <2> SUFFICES ASSUME NEW rows \in Sorted(Players, history), NoRoundingShows(rows),
                      NEW i \in 1..Len(rows)
               PROVE  Ranks(rows)[i] = 1 + Cardinality({j \in 1..Len(rows) : Outranks(rows[j], rows[i])})
      BY DEF RanksFailOnlyByRounding, CompetitionRanks
  <2> DEFINE R == RowsOf(Players)
             n == Cardinality(R)
  <2>1. rows \in Enumerations(R) /\ \A k, l \in DOMAIN rows : k < l => ~Precedes(rows[l], rows[k])
        BY DEF Sorted, RowsOf
  <2>2. IsFiniteSet(R) /\ \A r \in R : RowOK(r)
        BY <1>1, PlayersAreFinite, RowsFinite
  <2>3. n \in Nat /\ rows \in [1..n -> R] /\ DOMAIN rows = 1..n /\ Len(rows) = n
    <3> HIDE DEF R
    <3> QED
        BY <2>1, <2>2, EnumerationIs
  <2> HIDE DEF R, n
  <2>4. \A k \in 1..n : RowOK(rows[k])
        BY <2>2, <2>3
  <2>5. \A k, l \in 1..n : k < l => ~Precedes(rows[l], rows[k])
        BY <2>1, <2>3
  <2>6. \A k, l \in 1..n : /\ Ties(rows[k], rows[l]) <=> SameKeys(rows[k], rows[l])
                           /\ Outranks(rows[k], rows[l]) <=> Precedes(rows[k], rows[l])
    <3> TAKE k \in 1..n, l \in 1..n
    <3>1. \A key \in 1..4 : Near(rows[k].keys[key], rows[l].keys[key])
                               => Same(rows[k].keys[key], rows[l].keys[key])
          BY <2>3 DEF NoRoundingShows
    <3>2. RowOK(rows[k]) /\ RowOK(rows[l])
          BY <2>4
    <3> QED
        BY <3>1, <3>2, TiesAreSameKeys
  <2>7. Ranks(rows)[i] = 1 + Cardinality({j \in 1..n : Precedes(rows[j], rows[i])})
        BY <2>3, <2>4, <2>5, <2>6, RankCountsTheBetter
  <2>8. {j \in 1..n : Precedes(rows[j], rows[i])} = {j \in 1..n : Outranks(rows[j], rows[i])}
        BY <2>3, <2>6
  <2> QED
      BY <2>3, <2>7, <2>8
<1>2. RoundsInvariant => RanksFailOnlyByRounding
      BY <1>1 DEF RoundsInvariant
<1> QED
    BY <1>2, RoundsInit, RoundsNext, PTL DEF Spec

-----------------------------------------------------------------------------
(* There is always an order, a pairing and a table of standings *)

\* A finite set has an order that follows a total and transitive relation.
LEMMA LeastMember ==
    ASSUME NEW S, IsFiniteSet(S), S # {}, NEW R,
           \A x, y \in S : <<x, y>> \in R \/ <<y, x>> \in R,
           \A x, y, z \in S : <<x, y>> \in R /\ <<y, z>> \in R => <<x, z>> \in R
    PROVE  \E x \in S : \A y \in S : <<x, y>> \in R
<1> DEFINE T == {n \in Nat : \E s \in SUBSET S :
                     Cardinality(s) = n /\ s # {} /\ \A x \in s : \E y \in s : <<x, y>> \notin R}
<1>1. SUFFICES ASSUME T # {}
               PROVE  FALSE
  <2>1. Cardinality(S) \in Nat /\ S \in SUBSET S
        BY FS_CardinalityType
  <2> QED
      BY <1>1, <2>1
<1>2. PICK n \in T : \A m \in T : n <= m
  <2>1. T \in SUBSET Nat
        OBVIOUS
  <2> HIDE DEF T
  <2> QED
      BY <1>1, <2>1, LeastNatural
<1>3. PICK s \in SUBSET S :
          Cardinality(s) = n /\ s # {} /\ \A x \in s : \E y \in s : <<x, y>> \notin R
      BY <1>2
<1>4. PICK z : z \in s
      BY <1>3
<1> DEFINE r == s \ {z}
<1>5. IsFiniteSet(s) /\ r \in SUBSET S /\ Cardinality(r) = n - 1 /\ n \in Nat \ {0}
      BY <1>3, <1>4, FS_Subset, OneFewer
<1>6. n - 1 \in Nat /\ n - 1 \notin T
  <2> HIDE DEF T
  <2> QED
      BY <1>2, <1>5
<1>7. r = {} \/ \E x \in r : \A y \in r : <<x, y>> \in R
      BY <1>5, <1>6
<1>8. \E x \in s : \A y \in s : <<x, y>> \in R
  <2>1. CASE r = {}
    <3>1. \A y \in s : y = z
          BY <2>1
    <3>2. <<z, z>> \in R
          BY <1>4
    <3> QED
        BY <1>4, <3>1, <3>2
  <2>2. CASE \E x \in r : \A y \in r : <<x, y>> \in R
    <3>1. PICK x \in r : \A y \in r : <<x, y>> \in R
          BY <2>2
    <3>2. x \in S /\ z \in S /\ x \in s /\ \A y \in s : y \in S /\ (y = z \/ y \in r)
          BY <1>4
    <3>3. CASE <<x, z>> \in R
          BY <3>1, <3>2, <3>3
    <3>4. CASE <<x, z>> \notin R
      <4>1. <<z, x>> \in R /\ <<z, z>> \in R
            BY <3>2, <3>4
      <4>2. \A y \in s : <<z, y>> \in R
            BY <3>1, <3>2, <4>1
      <4> QED
          BY <1>4, <4>2
    <3> QED
        BY <3>3, <3>4
  <2> QED
      BY <1>7, <2>1, <2>2
<1> QED
    BY <1>3, <1>8

Follows(o, R) == \A i, j \in DOMAIN o : i < j => <<o[i], o[j]>> \in R

LEMMA OrderExists ==
    ASSUME NEW S, IsFiniteSet(S), NEW R,
           \A x, y \in S : <<x, y>> \in R \/ <<y, x>> \in R,
           \A x, y, z \in S : <<x, y>> \in R /\ <<y, z>> \in R => <<x, z>> \in R
    PROVE  \E o \in Enumerations(S) : Follows(o, R)
<1> DEFINE T == {n \in Nat : \E s \in SUBSET S :
                     Cardinality(s) = n /\ ~ \E o \in Enumerations(s) : Follows(o, R)}
<1>1. SUFFICES ASSUME T # {}
               PROVE  FALSE
  <2>1. Cardinality(S) \in Nat /\ S \in SUBSET S
        BY FS_CardinalityType
  <2> QED
      BY <1>1, <2>1
<1>2. PICK n \in T : \A m \in T : n <= m
  <2>1. T \in SUBSET Nat
        OBVIOUS
  <2> HIDE DEF T
  <2> QED
      BY <1>1, <2>1, LeastNatural
<1>3. PICK s \in SUBSET S : Cardinality(s) = n /\ ~ \E o \in Enumerations(s) : Follows(o, R)
      BY <1>2
<1>4. IsFiniteSet(s)
      BY FS_Subset
<1>5. CASE s = {}
  <2>1. n = 0
        BY <1>3, <1>5, FS_EmptySet
  <2> DEFINE o == [i \in 1..n |-> i]
  <2>2. o \in Enumerations(s) /\ DOMAIN o = {}
        BY <1>3, <1>5, <2>1 DEF Enumerations, Bijection, Injection, Surjection, IsInjective
  <2> HIDE DEF o
  <2>3. Follows(o, R)
        BY <2>2 DEF Follows
  <2> QED
      BY <1>3, <2>2, <2>3
<1>6. CASE s # {}
  <2>1. PICK x \in s : \A y \in s : <<x, y>> \in R
    <3>1. \A y, z \in s : <<y, z>> \in R \/ <<z, y>> \in R
          OBVIOUS
    <3>2. \A w, y, z \in s : <<w, y>> \in R /\ <<y, z>> \in R => <<w, z>> \in R
          OBVIOUS
    <3> QED
        BY <1>4, <1>6, <3>1, <3>2, LeastMember
  <2> DEFINE r == s \ {x}
  <2>2. r \in SUBSET S /\ IsFiniteSet(r) /\ Cardinality(r) = n - 1 /\ n \in Nat \ {0}
        BY <1>3, <1>4, OneFewer
  <2>3. n - 1 \in Nat /\ n - 1 \notin T
    <3> HIDE DEF T
    <3> QED
        BY <1>2, <2>2
  <2>4. PICK o \in Enumerations(r) : Follows(o, R)
        BY <2>2, <2>3
  <2>5. o \in [1..(n - 1) -> r] /\ IsInjective(o) /\ Range(o) = r /\ DOMAIN o = 1..(n - 1)
    <3> HIDE DEF r
    <3> QED
        BY <2>2, <2>4, EnumerationIs
  <2> DEFINE q == [i \in 1..n |-> IF i = 1 THEN x ELSE o[i - 1]]
  <2>6. \A i \in 1..n : i # 1 => i - 1 \in 1..(n - 1) /\ o[i - 1] \in s /\ o[i - 1] # x
        BY <2>2, <2>5
  <2>7. q \in [1..n -> s]
        BY <2>6
  <2>8. IsInjective(q)
    <3> SUFFICES ASSUME NEW i \in 1..n, NEW j \in 1..n, q[i] = q[j]
                 PROVE  i = j
        BY DEF IsInjective
    <3>1. CASE i = 1 \/ j = 1
          BY <2>6, <3>1
    <3>2. CASE i # 1 /\ j # 1
      <4>1. o[i - 1] = o[j - 1] /\ i - 1 \in DOMAIN o /\ j - 1 \in DOMAIN o
            BY <2>5, <2>6, <3>2
      <4>2. i - 1 = j - 1
            BY <2>5, <4>1 DEF IsInjective
      <4> QED
          BY <4>2
    <3> QED
        BY <3>1, <3>2
  <2>9. \A y \in s : \E i \in 1..n : q[i] = y
    <3> TAKE y \in s
    <3>1. CASE y = x
      <4>1. 1 \in 1..n /\ q[1] = y
            BY <2>2, <3>1
      <4> QED
          BY <4>1
    <3>2. CASE y # x
      <4>1. PICK k \in 1..(n - 1) : y = o[k]
            BY <2>5, <3>2 DEF Range
      <4>2. k + 1 \in 1..n /\ k + 1 # 1 /\ (k + 1) - 1 = k
            BY <2>2
      <4>3. q[k + 1] = y
            BY <4>1, <4>2
      <4> QED
          BY <4>2, <4>3
    <3> QED
        BY <3>1, <3>2
  <2>10. q \in Enumerations(s)
         BY <1>3, <2>7, <2>8, <2>9 DEF Enumerations, Bijection, Injection, Surjection
  <2>11. Follows(q, R)
    <3> SUFFICES ASSUME NEW i \in 1..n, NEW j \in 1..n, i < j
                 PROVE  <<q[i], q[j]>> \in R
        BY DEF Follows
    <3>1. j # 1 /\ j - 1 \in 1..(n - 1) /\ q[j] = o[j - 1] /\ o[j - 1] \in s
          BY <2>6
    <3>2. CASE i = 1
          BY <2>1, <3>1, <3>2
    <3>3. CASE i # 1
      <4>1. i - 1 \in 1..(n - 1) /\ q[i] = o[i - 1] /\ i - 1 < j - 1
            BY <2>6, <3>3
      <4>2. <<o[i - 1], o[j - 1]>> \in R
            BY <2>4, <2>5, <3>1, <4>1 DEF Follows
      <4> QED
          BY <3>1, <4>1, <4>2
    <3> QED
        BY <3>2, <3>3
  <2> QED
      BY <1>3, <2>10, <2>11
<1> QED
    BY <1>5, <1>6

LEMMA OrdersExist ==
    ASSUME HistoryOK, NEW S, IsFiniteSet(S)
    PROVE  Orders(S, history) # {}
<1> DEFINE R == {x \in S \X S : Points(history, x[1]) >= Points(history, x[2])}
<1>1. \A p \in S : Points(history, p) \in Nat
      BY PlayersPointsAgree
<1>2. \A p, q \in S : <<p, q>> \in R <=> Points(history, p) >= Points(history, q)
      OBVIOUS
<1> HIDE DEF R
<1>3. \A p, q \in S : <<p, q>> \in R \/ <<q, p>> \in R
  <2> TAKE p \in S, q \in S
  <2>1. \A m, n \in Nat : m >= n \/ n >= m
        OBVIOUS
  <2>2. Points(history, p) >= Points(history, q) \/ Points(history, q) >= Points(history, p)
        BY <1>1, <2>1
  <2> QED
      BY <1>2, <2>2
<1>4. \A p, q, r \in S : <<p, q>> \in R /\ <<q, r>> \in R => <<p, r>> \in R
  <2> SUFFICES ASSUME NEW p \in S, NEW q \in S, NEW r \in S,
                      Points(history, p) >= Points(history, q),
                      Points(history, q) >= Points(history, r)
               PROVE  Points(history, p) >= Points(history, r)
      BY <1>2
  <2>1. \A l, m, n \in Nat : l >= m /\ m >= n => l >= n
        OBVIOUS
  <2> QED
      BY <1>1, <2>1
<1>5. PICK o \in Enumerations(S) : Follows(o, R)
      BY <1>3, <1>4, OrderExists
<1>6. o \in [1..Cardinality(S) -> S] /\ DOMAIN o = 1..Cardinality(S)
      BY EnumerationIs
<1>7. \A i, j \in DOMAIN o : i < j => Points(history, o[i]) >= Points(history, o[j])
      BY <1>2, <1>5, <1>6 DEF Follows
<1> QED
    BY <1>7 DEF Orders

LEMMA SortedExists ==
    ASSUME HistoryOK, NEW roster, IsFiniteSet(roster)
    PROVE  Sorted(roster, history) # {}
<1> DEFINE S == RowsOf(roster)
           R == {x \in S \X S : ~Precedes(x[2], x[1])}
<1>1. IsFiniteSet(S) /\ \A r \in S : RowOK(r)
      BY RowsFinite
<1>2. \A a, b \in S : <<a, b>> \in R <=> ~Precedes(b, a)
      OBVIOUS
<1> HIDE DEF R, S
<1>3. \A a, b \in S : <<a, b>> \in R \/ <<b, a>> \in R
      BY <1>1, <1>2, PrecedesOrders
<1>4. \A a, b, c \in S : <<a, b>> \in R /\ <<b, c>> \in R => <<a, c>> \in R
  <2> SUFFICES ASSUME NEW a \in S, NEW b \in S, NEW c \in S, ~Precedes(b, a), ~Precedes(c, b)
               PROVE  ~Precedes(c, a)
      BY <1>2
  <2>1. RowOK(a) /\ RowOK(b) /\ RowOK(c)
        BY <1>1
  <2>2. SameKeys(b, c) \/ Precedes(b, c)
        BY <2>1, PrecedesOrders
  <2>3. SameKeys(b, a) \/ Precedes(a, b)
        BY <2>1, PrecedesOrders
  <2>4. CASE SameKeys(b, c)
        BY <2>1, <2>4, PrecedesOrders
  <2>5. CASE SameKeys(b, a)
        BY <2>1, <2>5, PrecedesOrders
  <2>6. CASE Precedes(b, c) /\ Precedes(a, b)
    <3>1. Precedes(a, c)
          BY <2>1, <2>6, PrecedesOrders
    <3> QED
        BY <2>1, <3>1, PrecedesOrders
  <2> QED
      BY <2>2, <2>3, <2>4, <2>5, <2>6
<1>5. PICK o \in Enumerations(S) : Follows(o, R)
      BY <1>1, <1>3, <1>4, OrderExists
<1>6. o \in [1..Cardinality(S) -> S] /\ DOMAIN o = 1..Cardinality(S)
      BY <1>1, EnumerationIs
<1>7. \A i, j \in DOMAIN o : i < j => ~Precedes(o[j], o[i])
      BY <1>2, <1>5, <1>6 DEF Follows
<1> QED
    BY <1>5, <1>7 DEF Sorted, S, RowsOf

LEMMA PickByeExists ==
    ASSUME HistoryOK, NEW active, IsFiniteSet(active), active # {}
    PROVE  PickBye(active, history) # {}
<1> DEFINE group(k) == {p \in active : Points(history, p) = k}
           fresh(k) == {p \in group(k) : ~HadBye(history, p)}
           keys     == {Points(history, p) : p \in active}
           tried    == {k \in keys : fresh(k) # {}}
<1>1. keys \in SUBSET Nat /\ keys # {} /\ \A k \in keys : group(k) # {}
      BY PlayersPointsAgree
<1>2. Min(keys) \in keys
      BY <1>1, LeastIsMember
<1>3. tried # {} => Min(tried) \in tried
  <2>1. tried \in SUBSET Nat
        BY <1>1
  <2> HIDE DEF tried
  <2> QED
      BY <2>1, LeastIsMember
<1> QED
    BY <1>1, <1>2, <1>3 DEF PickBye

LEMMA PairExists ==
    ASSUME HistoryOK, NEW active, IsFiniteSet(active)
    PROVE  Pair(active, history) # {}
<1> DEFINE byes == IF Cardinality(active) % 2 = 1 THEN {{p} : p \in PickBye(active, history)} ELSE {{}}
           made(o, b) == FirstBudget(o, Played(history)) \cup (IF b = {} THEN {} ELSE {b})
           of(b) == {made(o, b) : o \in Orders(active \ b, history)}
<1>1. Pair(active, history) = UNION {of(b) : b \in byes}
      BY DEF Pair
<1>2. byes # {}
  <2>1. CASE Cardinality(active) % 2 = 1
    <3>1. active # {}
          BY <2>1, FS_EmptySet
    <3> QED
        BY <2>1, <3>1, PickByeExists
  <2> QED
      BY <2>1
<1> HIDE DEF byes
<1>3. PICK b : b \in byes
      BY <1>2
<1>4. PICK o : o \in Orders(active \ b, history)
  <2>1. IsFiniteSet(active \ b)
        BY FS_Difference
  <2> QED
      BY <2>1, OrdersExist
<1>5. made(o, b) \in of(b)
      BY <1>4
<1> HIDE DEF of
<1>6. made(o, b) \in Pair(active, history)
      BY <1>1, <1>3, <1>5
<1> QED
    BY <1>6

\* The search for a pairing ends, and with a pairing: whatever was played so
\* far, some player can have the bye, the budget of rematches grows to one that
\* works, and there is a table of standings.  So none of the properties above
\* holds for want of a pairing or of a table.
THEOREM PairingAlwaysEnds ==
    Spec => [](/\ Pair(Active, history) # {}
               /\ Pair(Active, history) \subseteq Pairings(Active)
               /\ Sorted(Players, history) # {})
<1>1. IsFiniteSet(Active)
      BY PlayersAreFinite, FS_Difference DEF Active
<1>2. ASSUME HistoryOK
      PROVE  Pair(Active, history) # {}
      BY <1>1, <1>2, PairExists
<1>3. Pair(Active, history) \subseteq Pairings(Active)
  <2> SUFFICES ASSUME NEW P \in Pair(Active, history)
               PROVE  P \in Pairings(Active)
      OBVIOUS
  <2> QED
      BY <1>1, PairIsFair
<1>4. ASSUME HistoryOK
      PROVE  Sorted(Players, history) # {}
      BY <1>4, PlayersAreFinite, SortedExists
<1>5. RoundsInvariant => /\ Pair(Active, history) # {}
                         /\ Pair(Active, history) \subseteq Pairings(Active)
                         /\ Sorted(Players, history) # {}
      BY <1>2, <1>3, <1>4 DEF RoundsInvariant
<1> QED
    BY <1>5, RoundsInit, RoundsNext, PTL DEF Spec

=============================================================================
