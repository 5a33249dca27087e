-------------------------- MODULE CollectionsProofs --------------------------
(***************************************************************************)
(* What a collection and a list under review keep, for any number of       *)
(* requests, printings and lines.                                          *)
(*                                                                         *)
(* A request commits what a whole operation would have done because the    *)
(* rows it has locked are its own, and are still the committed rows with   *)
(* what it has added to them: nobody else can have changed them since.     *)
(***************************************************************************)
EXTENDS ImportReview, FiniteSetTheorems, WellFoundedInduction, TLAPS

Quantities == 0..MaxItemQuantity

\* Rows of some printings.
Rows == UNION {[S -> Quantities] : S \in SUBSET Printings}

\* Lines of an import, every printing once.
Batches ==
    {lines \in Seq(Items) :
        \A i, j \in 1..Len(lines) : lines[i].printing = lines[j].printing => i = j}

Moves   == [step : {"locked", "checked", "added"}, from : Printings, to : Printings]
Imports == [step : {"import"}, todo : Seq(Items), batch : Batches]

TypeOK ==
    /\ owned \in [Printings -> Quantities]
    /\ known \subseteq Printings
    /\ call \in [Calls -> {Idle} \cup Moves \cup Imports]
    /\ view \in [Calls -> Rows]

\* No row is locked by two requests.
LocksExclude == \A t, u \in Calls : t # u => DOMAIN view[t] \cap DOMAIN view[u] = {}

\* The rows that a request holds are the committed ones with its part so far.
Holds(c, rows, own) ==
    /\ c = Idle => rows = NoRows
    /\ c.step \in {"locked", "checked", "added"} =>
          c.from # c.to /\ own[c.from] # 0 /\ c.from \in DOMAIN rows /\ rows[c.from] = own[c.from]
    /\ c.step \in {"locked", "checked"} => DOMAIN rows = {c.from}
    /\ c.step = "added" =>
          /\ DOMAIN rows = {c.from, c.to}
          /\ rows[c.to] = Clamped(own[c.to] + own[c.from])
    /\ c.step = "import" =>
          \E k \in 0..Len(c.batch) :
              /\ c.todo = SubSeq(c.batch, k + 1, Len(c.batch))
              /\ DOMAIN rows = {c.batch[i].printing : i \in 1..k}
              /\ \A i \in 1..k :
                    rows[c.batch[i].printing] = Clamped(own[c.batch[i].printing] + c.batch[i].quantity)

CollectionInvariant ==
    /\ TypeOK
    /\ LocksExclude
    /\ \A t \in Calls : Holds(call[t], view[t], owned)

\* What may be chosen under review are printings, in quantities that a
\* collection can hold.
LineIsTyped(r) ==
    /\ r.suggestions \subseteq Printings
    /\ r.status = "matched" => r.match \in Printings
    /\ r.status = "unmatched" => r.suggestions = {}
    /\ r.status # "unmatched" => InRange(r.quantity)

ReviewTypeOK ==
    /\ review = [lines |-> review.lines, choices |-> review.choices]
    /\ Len(review.lines) \in Nat
    /\ DOMAIN review.lines = 1..Len(review.lines)
    /\ DOMAIN review.choices = 1..Len(review.lines)
    /\ \A i \in 1..Len(review.lines) :
          /\ LineIsTyped(review.lines[i])
          /\ review.choices[i] \in Printings \cup {None}
          /\ review.choices[i] # None => InRange(review.lines[i].quantity)

-----------------------------------------------------------------------------
(* Induction and recursion over 0..N *)

LEMMA LeastNatural ==
    ASSUME NEW T \in SUBSET Nat, T # {}
    PROVE  \E n \in T : \A m \in T : n <= m
<1>1. PICK n \in T : \A m \in T : <<m, n>> \notin OpToRel(<, Nat)
      BY NatLessThanWellFounded, WFMin
<1>2. \A m \in T : ~(m < n)
      BY <1>1 DEF OpToRel
<1> QED
      BY <1>2

LEMMA EveryValueIn ==
    ASSUME NEW N \in Nat, NEW X, NEW f, f[0] \in X,
           \A i \in 1..N : f[i - 1] \in X => f[i] \in X
    PROVE  \A i \in 0..N : f[i] \in X
<1> DEFINE T == {i \in 0..N : f[i] \notin X}
<1>1. SUFFICES ASSUME T # {}
               PROVE  FALSE
      OBVIOUS
<1>2. PICK i \in T : \A m \in T : i <= m
  <2>1. T \in SUBSET Nat
        OBVIOUS
  <2> HIDE DEF T
  <2> QED
        BY <1>1, <2>1, LeastNatural
<1>3. i # 0 /\ i - 1 \in 0..N /\ i \in 1..N
      BY <1>2
<1>4. i - 1 \notin T
      BY <1>2, <1>3
<1> QED
      BY <1>2, <1>3, <1>4

\* A recursion over 0..N whose steps are functions, and that it has a solution.
Steps(N, X) == [1..N -> [X -> X]]

Recursion(g, N, X, x, F) ==
    g \in [0..N -> X] /\ g[0] = x /\ \A i \in 1..N : g[i] = F[i][g[i - 1]]

LEMMA RecursionExists ==
    ASSUME NEW N \in Nat, NEW X, NEW x \in X, NEW F \in Steps(N, X)
    PROVE  \E g : Recursion(g, N, X, x, F)
<1> DEFINE T == {n \in 0..N : ~ \E g : Recursion(g, n, X, x, F)}
<1>1. SUFFICES ASSUME T # {}
               PROVE  FALSE
  <2>1. N \in 0..N
        OBVIOUS
  <2> QED
        BY <2>1
<1>2. PICK n \in T : \A m \in T : n <= m
  <2>1. T \in SUBSET Nat
        OBVIOUS
  <2> HIDE DEF T
  <2> QED
        BY <1>1, <2>1, LeastNatural
<1>3. n \in 0..N /\ ~ \E g : Recursion(g, n, X, x, F)
      BY <1>2
<1>4. CASE n = 0
  <2> DEFINE g == [i \in 0..n |-> x]
  <2>1. g \in [0..n -> X] /\ g[0] = x /\ 1..n = {}
        BY <1>4
  <2>2. Recursion(g, n, X, x, F)
        BY <2>1 DEF Recursion
  <2> QED
        BY <1>3, <2>2
<1>5. CASE n # 0
  <2>1. n \in 1..N /\ n - 1 \in 0..N /\ n - 1 \notin T
    <3> HIDE DEF T
    <3> QED
          BY <1>2, <1>3, <1>5
  <2>2. PICK g : Recursion(g, n - 1, X, x, F)
        BY <2>1
  <2> DEFINE h == [i \in 0..n |-> IF i = n THEN F[n][g[n - 1]] ELSE g[i]]
  <2>3. g \in [0..(n - 1) -> X] /\ g[0] = x /\ \A i \in 1..(n - 1) : g[i] = F[i][g[i - 1]]
        BY <2>2 DEF Recursion
  <2>4. g[n - 1] \in X /\ F[n][g[n - 1]] \in X
        BY <2>1, <2>3 DEF Steps
  <2>5. h \in [0..n -> X] /\ h[0] = x
        BY <2>1, <2>3, <2>4
  <2>6. ASSUME NEW i \in 1..n
        PROVE  h[i] = F[i][h[i - 1]]
    <3>1. h[i - 1] = g[i - 1]
          BY <2>1
    <3>2. CASE i = n
          BY <3>1, <3>2
    <3>3. CASE i # n
          BY <2>1, <2>3, <3>1, <3>3
    <3> QED
          BY <3>2, <3>3
  <2>7. Recursion(h, n, X, x, F)
    <3> HIDE DEF h
    <3> QED
          BY <2>5, <2>6 DEF Recursion
  <2> QED
        BY <1>3, <2>7
<1> QED
      BY <1>4, <1>5

-----------------------------------------------------------------------------
(* What an import adds: every printing once *)

LEMMA ClampedType ==
    ASSUME NEW n \in Nat
    PROVE  /\ Clamped(n) \in Quantities
           /\ n # 0 => Clamped(n) \in 1..MaxItemQuantity
           /\ n \in Quantities => Clamped(n) = n
BY MaxIsPositive DEF Clamped, Quantities

\* The lines so far with one more item.
MergedWith(lines, it) ==
    LET at == {j \in 1..Len(lines) : lines[j].printing = it.printing}
    IN  IF at = {}
        THEN Append(lines, [it EXCEPT !.quantity = Clamped(it.quantity)])
        ELSE [j \in DOMAIN lines |->
                 IF j \in at
                 THEN [lines[j] EXCEPT !.quantity = Clamped(@ + it.quantity)]
                 ELSE lines[j]]

LEMMA MergedWithType ==
    ASSUME NEW lines \in Batches, NEW it \in Items
    PROVE  MergedWith(lines, it) \in Batches
<1> DEFINE at == {j \in 1..Len(lines) : lines[j].printing = it.printing}
           more == [it EXCEPT !.quantity = Clamped(it.quantity)]
           other == [j \in DOMAIN lines |->
                        IF j \in at
                        THEN [lines[j] EXCEPT !.quantity = Clamped(@ + it.quantity)]
                        ELSE lines[j]]
<1>1. /\ lines \in Seq(Items) /\ Len(lines) \in Nat /\ DOMAIN lines = 1..Len(lines)
      /\ \A i, j \in 1..Len(lines) : lines[i].printing = lines[j].printing => i = j
      BY DEF Batches
<1>2. CASE at = {}
  <2>1. more \in Items /\ more.printing = it.printing
        BY ClampedType DEF Items
  <2>2. Append(lines, more) \in Seq(Items)
        BY <1>1, <2>1
  <2>3. \A i, j \in 1..Len(Append(lines, more)) :
            Append(lines, more)[i].printing = Append(lines, more)[j].printing => i = j
    <3>1. Len(Append(lines, more)) = Len(lines) + 1
          BY <1>1, <2>1
    <3>2. /\ \A i \in 1..Len(lines) : Append(lines, more)[i] = lines[i]
          /\ Append(lines, more)[Len(lines) + 1] = more
          BY <1>1, <2>1
    <3>3. \A i \in 1..Len(lines) : lines[i].printing # it.printing
          BY <1>2
    <3> HIDE DEF more, at
    <3> QED
          BY <1>1, <2>1, <3>1, <3>2, <3>3
  <2> QED
        BY <1>2, <2>2, <2>3 DEF MergedWith, Batches
<1>3. CASE at # {}
  <2>1. \A j \in 1..Len(lines) : other[j] \in Items /\ other[j].printing = lines[j].printing
    <3> TAKE j \in 1..Len(lines)
    <3>1. lines[j] \in Items
          BY <1>1
    <3>2. lines[j].quantity + it.quantity \in Nat /\ lines[j].quantity + it.quantity # 0
          BY <3>1 DEF Items
    <3> QED
          BY <1>1, <3>1, <3>2, ClampedType DEF Items
  <2>2. Len(other) = Len(lines) /\ other \in Seq(Items)
    <3>1. other \in [1..Len(lines) -> Items]
          BY <1>1, <2>1
    <3> HIDE DEF other
    <3> QED
          BY <1>1, <3>1
  <2>3. MergedWith(lines, it) = other
        BY <1>3 DEF MergedWith
  <2> QED
        BY <1>1, <2>1, <2>2, <2>3 DEF Batches
<1> QED
      BY <1>2, <1>3

\* A merged list has every printing once, whatever is imported.
LEMMA MergeType ==
    ASSUME NEW items \in Seq(Items)
    PROVE  Merge(items) \in Batches
<1> DEFINE N == Len(items)
           Solves(g) == g = [i \in 0..N |->
                                IF i = 0 THEN <<>> ELSE MergedWith(g[i - 1], items[i])]
           F == [i \in 1..N |-> [lines \in Batches |-> MergedWith(lines, items[i])]]
           merged == CHOOSE g : Solves(g)
<1>1. N \in Nat /\ <<>> \in Batches
  <2>1. <<>> \in Seq(Items) /\ 1..Len(<<>>) = {}
        OBVIOUS
  <2> QED
        BY <2>1 DEF Batches
<1>2. \A i \in 1..N : items[i] \in Items
      OBVIOUS
<1>3. F \in Steps(N, Batches)
      BY <1>2, MergedWithType DEF Steps
<1>4. PICK g : Recursion(g, N, Batches, <<>>, F)
      BY <1>1, <1>3, RecursionExists
<1>5. Solves(g)
  <2>1. \A i \in 1..N : i - 1 \in 0..N
        BY <1>1
  <2>2. \A i \in 0..N : g[i] = IF i = 0 THEN <<>> ELSE MergedWith(g[i - 1], items[i])
        BY <1>1, <1>4, <2>1 DEF Recursion
  <2> QED
        BY <1>4, <2>2 DEF Recursion
<1>6. Solves(merged)
      BY <1>5
<1>7. merged[0] = <<>> /\ \A i \in 1..N : merged[i] = MergedWith(merged[i - 1], items[i])
  <2> HIDE DEF merged
  <2> QED
      BY <1>1, <1>6
<1>8. \A i \in 0..N : merged[i] \in Batches
  <2> HIDE DEF merged, N
  <2>1. \A i \in 1..N : merged[i - 1] \in Batches => merged[i] \in Batches
        BY <1>2, <1>7, MergedWithType
  <2> QED
        BY <1>1, <1>7, <2>1, EveryValueIn
<1>9. Merge(items) = merged[N]
      BY DEF Merge, MergedWith
<1>10. N \in 0..N
      BY <1>1
<1> HIDE DEF merged, N
<1> QED
      BY <1>8, <1>9, <1>10

\* What is imported of a list under review is what its lines and choices say.
LEMMA ImportItemsType ==
    ASSUME ReviewTypeOK
    PROVE  BuildImportItems(review) \in Seq(Items)
<1> DEFINE N == Len(review.lines)
           Item(i) == [printing |-> review.choices[i], quantity |-> review.lines[i].quantity]
           With(s, i) == IF review.choices[i] = None THEN s ELSE Append(s, Item(i))
           Solves(g) == g = [i \in 0..N |-> IF i = 0 THEN <<>> ELSE With(g[i - 1], i)]
           F == [i \in 1..N |-> [s \in Seq(Items) |-> With(s, i)]]
           items == CHOOSE g : Solves(g)
<1>1. N \in Nat /\ <<>> \in Seq(Items) /\ N \in 0..N
      BY DEF ReviewTypeOK
<1>2. \A i \in 1..N, s \in Seq(Items) : With(s, i) \in Seq(Items)
  <2> TAKE i \in 1..N, s \in Seq(Items)
  <2>1. review.choices[i] # None => Item(i) \in Items
        BY DEF ReviewTypeOK, InRange, Items
  <2> HIDE DEF Item
  <2> QED
        BY <2>1
<1>3. F \in Steps(N, Seq(Items))
  <2> HIDE DEF With
  <2> QED
        BY <1>2 DEF Steps
<1>4. PICK g : Recursion(g, N, Seq(Items), <<>>, F)
      BY <1>1, <1>3, RecursionExists
<1>5. Solves(g)
  <2>1. \A i \in 1..N, s \in Seq(Items) : F[i][s] = With(s, i)
        OBVIOUS
  <2> HIDE DEF With, N, F
  <2>2. \A i \in 0..N : g[i] = IF i = 0 THEN <<>> ELSE With(g[i - 1], i)
    <3> TAKE i \in 0..N
    <3>1. CASE i = 0
          BY <1>4, <3>1 DEF Recursion
    <3>2. CASE i # 0
      <4>1. i \in 1..N /\ i - 1 \in 0..N
            BY <1>1, <3>2
      <4>2. g[i] = F[i][g[i - 1]] /\ g[i - 1] \in Seq(Items)
            BY <1>4, <4>1 DEF Recursion
      <4> QED
            BY <2>1, <3>2, <4>1, <4>2
    <3> QED
          BY <3>1, <3>2
  <2>3. g = [i \in 0..N |-> g[i]]
        BY <1>4 DEF Recursion
  <2> QED
        BY <2>2, <2>3
<1>6. Solves(items)
      BY <1>5
<1>7. items[0] = <<>> /\ \A i \in 1..N : items[i] = With(items[i - 1], i)
  <2> HIDE DEF items, With
  <2> QED
      BY <1>1, <1>6
<1>8. \A i \in 0..N : items[i] \in Seq(Items)
  <2> HIDE DEF items, N, With
  <2>1. \A i \in 1..N : items[i - 1] \in Seq(Items) => items[i] \in Seq(Items)
        BY <1>2, <1>7
  <2> QED
        BY <1>1, <1>7, <2>1, EveryValueIn
<1>9. BuildImportItems(review) = items[N]
      BY DEF BuildImportItems
<1> HIDE DEF items, N
<1> QED
      BY <1>1, <1>8, <1>9

-----------------------------------------------------------------------------
(* The invariant *)

LEMMA InitHolds == Init => CollectionInvariant
<1> SUFFICES ASSUME Init
             PROVE  CollectionInvariant
      OBVIOUS
<1>1. NoRows \in Rows /\ DOMAIN NoRows = {}
  <2>1. {} \in SUBSET Printings /\ NoRows \in [{} -> Quantities]
        BY DEF NoRows
  <2> QED
        BY <2>1 DEF Rows, NoRows
<1>2. TypeOK
  <2>1. owned \in [Printings -> Quantities]
        BY MaxIsPositive DEF Init, Quantities
  <2>2. known \subseteq Printings
        BY DEF Init
  <2> QED
        BY <1>1, <2>1, <2>2 DEF Init, TypeOK
<1>3. LocksExclude
      BY <1>1 DEF Init, LocksExclude
<1>4. ASSUME NEW t \in Calls
      PROVE  Holds(call[t], view[t], owned)
      BY DEF Init, Holds, Idle
<1> QED
      BY <1>2, <1>3, <1>4 DEF CollectionInvariant

\* What a request holds does not depend on rows that it has not locked.
LEMMA OthersHold ==
    ASSUME CollectionInvariant, NEW t \in Calls, NEW own,
           \A p \in DOMAIN view[t] : own[p] = owned[p]
    PROVE  Holds(call[t], view[t], own)
<1> DEFINE c == call[t]
           rows == view[t]
<1>1. Holds(c, rows, owned) /\ \A p \in DOMAIN rows : own[p] = owned[p]
      BY DEF CollectionInvariant
<1> HIDE DEF c, rows
<1>2. CASE c.step = "import"
  <2>1. PICK k \in 0..Len(c.batch) :
            /\ c.todo = SubSeq(c.batch, k + 1, Len(c.batch))
            /\ DOMAIN rows = {c.batch[i].printing : i \in 1..k}
            /\ \A i \in 1..k :
                  rows[c.batch[i].printing] = Clamped(owned[c.batch[i].printing] + c.batch[i].quantity)
        BY <1>1, <1>2 DEF Holds
  <2>2. \A i \in 1..k : own[c.batch[i].printing] = owned[c.batch[i].printing]
        BY <1>1, <2>1
  <2>3. \A i \in 1..k :
            rows[c.batch[i].printing] = Clamped(own[c.batch[i].printing] + c.batch[i].quantity)
        BY <2>1, <2>2
  <2>4. c # Idle
        BY <1>2 DEF Idle
  <2>5. Holds(c, rows, own)
        BY <1>2, <2>1, <2>3, <2>4 DEF Holds
  <2> QED
        BY <2>5 DEF c, rows
<1>3. CASE c.step # "import"
  <2>1. Holds(c, rows, own)
        BY <1>1, <1>3 DEF Holds
  <2> QED
        BY <2>1 DEF c, rows
<1> QED
      BY <1>2, <1>3

\* A step of one request that leaves the rows of the others alone.
LEMMA OneRequestSteps ==
    ASSUME CollectionInvariant, TypeOK', NEW t \in Calls,
           \A u \in Calls \ {t} :
               /\ call'[u] = call[u] /\ view'[u] = view[u]
               /\ DOMAIN view'[t] \cap DOMAIN view[u] = {}
               /\ \A p \in DOMAIN view[u] : owned'[p] = owned[p],
           Holds(call'[t], view'[t], owned')
    PROVE  CollectionInvariant'
<1>1. LocksExclude'
      BY DEF CollectionInvariant, LocksExclude
<1>2. ASSUME NEW u \in Calls
      PROVE  Holds(call'[u], view'[u], owned')
  <2>1. CASE u = t
        BY <2>1
  <2>2. CASE u # t
    <3>1. \A p \in DOMAIN view[u] : owned'[p] = owned[p]
          BY <2>2
    <3>2. Holds(call[u], view[u], owned')
          BY <3>1, OthersHold
    <3> QED
          BY <2>2, <3>2
  <2> QED
        BY <2>1, <2>2
<1> QED
      BY <1>1, <1>2 DEF CollectionInvariant

\* A row that is held, among rows that are held.
LEMMA OverRow ==
    ASSUME NEW p \in Printings, NEW n \in Quantities, NEW rows \in Rows
    PROVE  /\ Over(Row(p, n), rows) \in Rows
           /\ DOMAIN Over(Row(p, n), rows) = {p} \cup DOMAIN rows
           /\ Over(Row(p, n), rows)[p] = n
           /\ \A q \in DOMAIN rows \ {p} : Over(Row(p, n), rows)[q] = rows[q]
<1>1. PICK S \in SUBSET Printings : rows \in [S -> Quantities]
      BY DEF Rows
<1>2. {p} \cup S \in SUBSET Printings
      OBVIOUS
<1>3. Over(Row(p, n), rows) \in [{p} \cup S -> Quantities]
      BY <1>1 DEF Over, Row
<1>4. Over(Row(p, n), rows) \in Rows
      BY <1>2, <1>3 DEF Rows
<1> QED
      BY <1>4 DEF Over, Row

LEMMA RowsAre ==
    ASSUME NEW rows \in Rows
    PROVE  /\ DOMAIN rows \subseteq Printings
           /\ \A p \in DOMAIN rows : rows[p] \in Quantities
           /\ rows = [p \in DOMAIN rows |-> rows[p]]
BY DEF Rows

\* A request locks a row and goes on.
LEMMA HoldPreserves ==
    ASSUME CollectionInvariant, NEW t \in Calls, NEW p \in Printings, NEW n \in Quantities,
           NEW c \in {Idle} \cup Moves \cup Imports,
           Free(t, p), Hold(t, p, n), Go(t, c), UNCHANGED <<owned, known>>,
           Holds(c, Over(Row(p, n), view[t]), owned)
    PROVE  CollectionInvariant'
<1>1. TypeOK /\ view[t] \in Rows
      BY DEF CollectionInvariant, TypeOK
<1>2. /\ call'[t] = c /\ view'[t] = Over(Row(p, n), view[t])
      /\ \A u \in Calls \ {t} : call'[u] = call[u] /\ view'[u] = view[u]
      BY <1>1 DEF Hold, Go, TypeOK
<1>3. TypeOK'
      BY <1>1, OverRow DEF Hold, Go, TypeOK
<1>4. ASSUME NEW u \in Calls \ {t}
      PROVE  DOMAIN view'[t] \cap DOMAIN view[u] = {}
  <2>1. DOMAIN view'[t] = {p} \cup DOMAIN view[t]
        BY <1>1, <1>2, OverRow
  <2>2. p \notin DOMAIN view[u] /\ DOMAIN view[t] \cap DOMAIN view[u] = {}
        BY DEF Free, CollectionInvariant, LocksExclude
  <2> QED
        BY <2>1, <2>2
<1>5. Holds(call'[t], view'[t], owned')
      BY <1>2
<1> QED
      BY <1>2, <1>3, <1>4, <1>5, OneRequestSteps

\* A request ends: it commits rows that it has locked, or none.
LEMMA EndPreserves ==
    ASSUME CollectionInvariant, NEW t \in Calls, NEW rows \in Rows,
           DOMAIN rows \subseteq DOMAIN view[t], UNCHANGED known,
           owned' = Over(rows, owned), Go(t, Idle), view' = [view EXCEPT ![t] = NoRows]
    PROVE  CollectionInvariant'
<1>1. TypeOK /\ view[t] \in Rows
      BY DEF CollectionInvariant, TypeOK
<1>2. /\ call'[t] = Idle /\ view'[t] = NoRows
      /\ \A u \in Calls \ {t} : call'[u] = call[u] /\ view'[u] = view[u]
      BY <1>1 DEF Go, TypeOK
<1>3. NoRows \in Rows /\ DOMAIN NoRows = {}
  <2>1. {} \in SUBSET Printings /\ NoRows \in [{} -> Quantities]
        BY DEF NoRows
  <2> QED
        BY <2>1 DEF Rows, NoRows
<1>4. owned' \in [Printings -> Quantities] /\ \A p \in Printings \ DOMAIN rows : owned'[p] = owned[p]
      BY <1>1, RowsAre DEF Over, TypeOK
<1>5. TypeOK'
      BY <1>1, <1>3, <1>4 DEF Go, TypeOK
<1>6. ASSUME NEW u \in Calls \ {t}
      PROVE  /\ DOMAIN view'[t] \cap DOMAIN view[u] = {}
             /\ \A p \in DOMAIN view[u] : owned'[p] = owned[p]
  <2>1. DOMAIN view[t] \cap DOMAIN view[u] = {} /\ view[u] \in Rows
        BY <1>1 DEF CollectionInvariant, LocksExclude, TypeOK
  <2> QED
        BY <1>2, <1>3, <1>4, <2>1, RowsAre
<1>7. Holds(call'[t], view'[t], owned')
      BY <1>2 DEF Holds, Idle
<1> QED
      BY <1>2, <1>5, <1>6, <1>7, OneRequestSteps

LEMMA RollbackPreserves ==
    ASSUME CollectionInvariant, NEW t \in Calls, Rollback(t)
    PROVE  CollectionInvariant'
<1>1. NoRows \in Rows /\ DOMAIN NoRows = {}
  <2>1. {} \in SUBSET Printings /\ NoRows \in [{} -> Quantities]
        BY DEF NoRows
  <2> QED
        BY <2>1 DEF Rows, NoRows
<1>2. owned' = Over(NoRows, owned)
      BY <1>1 DEF Rollback, Over, CollectionInvariant, TypeOK, table
<1> QED
      BY <1>1, <1>2, EndPreserves DEF Rollback, table, catalogue

-----------------------------------------------------------------------------
(* Every action keeps the invariant *)

\* What a request in a step is and holds.
LEMMA CallIs ==
    ASSUME CollectionInvariant, NEW t \in Calls
    PROVE  /\ call[t].step \in {"locked", "checked", "added"} => call[t] \in Moves
           /\ call[t].step = "import" => call[t] \in Imports
           /\ call[t] = Idle <=> call[t].step = "idle"
           /\ view[t] \in Rows
           /\ Holds(call[t], view[t], owned)
<1>1. call[t] \in {Idle} \cup Moves \cup Imports
      BY DEF CollectionInvariant, TypeOK
<1> QED
      BY <1>1 DEF CollectionInvariant, TypeOK, Moves, Imports, Idle

LEMMA SetQuantityPreserves ==
    ASSUME CollectionInvariant, NEW p \in Printings, NEW n \in Quantities, SetQuantity(p, n)
    PROVE  CollectionInvariant'
<1>1. TypeOK' /\ LocksExclude'
      BY DEF SetQuantity, CollectionInvariant, TypeOK, LocksExclude, catalogue
<1>2. ASSUME NEW t \in Calls
      PROVE  Holds(call[t], view[t], owned')
  <2>1. \A q \in DOMAIN view[t] : owned'[q] = owned[q]
        BY CallIs, RowsAre DEF SetQuantity, CollectionInvariant, TypeOK
  <2> QED
        BY <2>1, OthersHold
<1> QED
      BY <1>1, <1>2 DEF SetQuantity, CollectionInvariant

LEMMA LockSourcePreserves ==
    ASSUME CollectionInvariant, NEW t \in Calls, NEW p \in Printings, NEW r \in Printings,
           LockSource(t, p, r)
    PROVE  CollectionInvariant'
<1> DEFINE c == [step |-> "locked", from |-> p, to |-> r]
           rows == Over(Row(p, owned[p]), view[t])
<1>1. owned[p] \in Quantities /\ view[t] = NoRows /\ view[t] \in Rows
      BY CallIs DEF LockSource, Holds, CollectionInvariant, TypeOK
<1>2. c \in Moves
      BY DEF Moves
<1>3. DOMAIN rows = {p} /\ rows[p] = owned[p]
  <2>1. DOMAIN view[t] = {}
        BY <1>1 DEF NoRows
  <2>2. DOMAIN rows = {p} \cup DOMAIN view[t] /\ rows[p] = owned[p]
        BY DEF Over, Row
  <2> QED
        BY ONLY <2>1, <2>2
<1>4. Holds(c, rows, owned)
  <2> HIDE DEF rows
  <2> QED
      BY <1>3 DEF Holds, LockSource, Idle
<1> QED
      BY <1>1, <1>2, <1>4, HoldPreserves DEF LockSource, table, catalogue

LEMMA CheckTargetPreserves ==
    ASSUME CollectionInvariant, NEW t \in Calls, CheckTarget(t)
    PROVE  CollectionInvariant'
<1> DEFINE c == [call[t] EXCEPT !.step = "checked"]
<1>1. /\ call[t] \in Moves /\ call[t].step = "locked"
      /\ Holds(call[t], view[t], owned) /\ call'= [call EXCEPT ![t] = c]
      /\ UNCHANGED <<owned, known, view>>
      BY CallIs DEF CheckTarget, Go, table, catalogue
<1>2. c \in Moves /\ c.from = call[t].from /\ c.to = call[t].to /\ c.step = "checked" /\ c # Idle
      BY <1>1 DEF Moves, Idle
<1>3. Holds(c, view[t], owned)
  <2> HIDE DEF c
  <2> QED
      BY <1>1, <1>2 DEF Holds
<1> HIDE DEF c
<1>4. TypeOK /\ LocksExclude
      BY DEF CollectionInvariant
<1>5. TypeOK'
      BY <1>1, <1>2, <1>4 DEF TypeOK
<1>6. call'[t] = c /\ \A u \in Calls \ {t} : call'[u] = call[u]
      BY <1>1, <1>4 DEF TypeOK
<1>7. \A u \in Calls \ {t} : DOMAIN view'[t] \cap DOMAIN view[u] = {}
      BY <1>1, <1>4 DEF LocksExclude
<1> QED
      BY <1>1, <1>3, <1>5, <1>6, <1>7, OneRequestSteps

LEMMA AddTargetPreserves ==
    ASSUME CollectionInvariant, NEW t \in Calls, AddTarget(t)
    PROVE  CollectionInvariant'
<1> DEFINE from == call[t].from
           to == call[t].to
           c == [call[t] EXCEPT !.step = "added"]
           n == Clamped(Over(view[t], owned)[to] + Clamped(view[t][from]))
           rows == Over(Row(to, n), view[t])
<1>1. /\ call[t] \in Moves /\ call[t].step = "checked" /\ from \in Printings /\ to \in Printings
      /\ view[t] \in Rows /\ from # to /\ DOMAIN view[t] = {from}
      /\ view[t][from] = owned[from] /\ owned[from] # 0
      BY CallIs DEF AddTarget, Holds, Moves
<1>2. owned[from] \in Quantities /\ owned[to] \in Quantities
      BY <1>1 DEF CollectionInvariant, TypeOK
<1>3. Over(view[t], owned)[to] = owned[to]
      BY <1>1 DEF Over, CollectionInvariant, TypeOK
<1>4. n = Clamped(owned[to] + owned[from]) /\ n \in Quantities
      BY <1>1, <1>2, <1>3, ClampedType DEF Quantities
<1>5. DOMAIN rows = {from, to} /\ rows[to] = n /\ rows[from] = owned[from]
  <2> HIDE DEF n, from, to
  <2>1. /\ DOMAIN rows = {to} \cup DOMAIN view[t] /\ rows[to] = n
        /\ \A q \in DOMAIN view[t] \ {to} : rows[q] = view[t][q]
        BY <1>1, <1>4, OverRow
  <2> HIDE DEF rows
  <2> QED
        BY <1>1, <2>1
<1>6. c \in Moves /\ c.from = from /\ c.to = to /\ c.step = "added" /\ c # Idle
      BY <1>1 DEF Moves, Idle
<1>7. Holds(c, rows, owned)
  <2> HIDE DEF c, rows, n
  <2> QED
      BY <1>1, <1>4, <1>5, <1>6 DEF Holds, AddTarget
<1>8. Free(t, to) /\ Hold(t, to, n) /\ Go(t, c) /\ UNCHANGED <<owned, known>>
      BY DEF AddTarget, AddCollectionItem, table, catalogue
<1> HIDE DEF n, c
<1> QED
      BY <1>1, <1>4, <1>6, <1>7, <1>8, HoldPreserves

LEMMA FinishMovePreserves ==
    ASSUME CollectionInvariant, NEW t \in Calls, FinishMove(t)
    PROVE  CollectionInvariant'
<1> DEFINE rows == Over(Row(call[t].from, 0), view[t])
<1>1. /\ call[t] \in Moves /\ call[t].from \in Printings
      /\ view[t] \in Rows /\ call[t].from \in DOMAIN view[t]
      BY CallIs DEF FinishMove, Holds, Moves
<1>2. 0 \in Quantities
      BY MaxIsPositive DEF Quantities
<1>3. rows \in Rows /\ DOMAIN rows = {call[t].from} \cup DOMAIN view[t]
  <2> DEFINE p == call[t].from
             n == 0
             held == view[t]
  <2>1. p \in Printings /\ n \in Quantities /\ held \in Rows
        BY <1>1, <1>2
  <2> HIDE DEF p, n, held
  <2>2. Over(Row(p, n), held) \in Rows /\ DOMAIN Over(Row(p, n), held) = {p} \cup DOMAIN held
        BY <2>1, OverRow
  <2> QED
        BY <2>2 DEF p, n, held
<1>4. DOMAIN rows \subseteq DOMAIN view[t]
  <2> HIDE DEF rows
  <2> QED
      BY <1>1, <1>3
<1>5. CommitRows(t, rows)
      BY DEF FinishMove
<1> HIDE DEF rows
<1> QED
      BY <1>3, <1>4, <1>5, EndPreserves DEF CommitRows, catalogue

LEMMA BeginImportPreserves ==
    ASSUME CollectionInvariant, NEW t \in Calls, NEW items \in Seq(Items), BeginImport(t, items)
    PROVE  CollectionInvariant'
<1> DEFINE lines == Merge(items)
           c == [step |-> "import", todo |-> lines, batch |-> lines]
<1>1. TypeOK /\ view[t] \in Rows /\ view[t] = NoRows
      BY CallIs DEF BeginImport, Holds, CollectionInvariant
<1>2. lines \in Batches /\ lines \in Seq(Items) /\ Len(lines) \in Nat
      BY MergeType DEF Batches
<1>3. c \in Imports
      BY <1>2 DEF Imports
<1>4. call'[t] = c /\ view'[t] = NoRows /\ \A u \in Calls \ {t} : call'[u] = call[u]
      BY <1>1 DEF BeginImport, Go, TypeOK
<1>5. TypeOK'
      BY <1>1, <1>3 DEF BeginImport, Go, TypeOK, table, catalogue
<1>6. Holds(c, NoRows, owned)
  <2>1. SubSeq(lines, 0 + 1, Len(lines)) = lines
        BY <1>2
  <2>2. DOMAIN NoRows = {lines[i].printing : i \in 1..0} /\ 0 \in 0..Len(lines)
        BY <1>2 DEF NoRows
  <2> HIDE DEF lines
  <2> QED
      BY <2>1, <2>2 DEF Holds, Idle
<1>7. \A u \in Calls \ {t} :
          /\ call'[u] = call[u] /\ view'[u] = view[u]
          /\ DOMAIN view'[t] \cap DOMAIN view[u] = {}
          /\ \A p \in DOMAIN view[u] : owned'[p] = owned[p]
      BY <1>4 DEF BeginImport, NoRows, table
<1> QED
      BY <1>4, <1>5, <1>6, <1>7, OneRequestSteps DEF BeginImport, table

LEMMA AddNextPreserves ==
    ASSUME CollectionInvariant, NEW t \in Calls, AddNext(t)
    PROVE  CollectionInvariant'
<1> DEFINE batch == call[t].batch
           todo == call[t].todo
           it == Head(todo)
           p == it.printing
           c == [call[t] EXCEPT !.todo = Tail(todo)]
           n == Clamped(Over(view[t], owned)[p] + Clamped(it.quantity))
           rows == Over(Row(p, n), view[t])
<1>1. /\ call[t] \in Imports /\ call[t].step = "import" /\ todo # <<>>
      /\ view[t] \in Rows /\ Holds(call[t], view[t], owned)
      BY CallIs DEF AddNext
<1>2. /\ batch \in Seq(Items) /\ Len(batch) \in Nat /\ todo \in Seq(Items)
      /\ \A i, j \in 1..Len(batch) : batch[i].printing = batch[j].printing => i = j
      BY <1>1 DEF Imports, Batches
<1>3. PICK k \in 0..Len(batch) :
          /\ todo = SubSeq(batch, k + 1, Len(batch))
          /\ DOMAIN view[t] = {batch[i].printing : i \in 1..k}
          /\ \A i \in 1..k :
                view[t][batch[i].printing] = Clamped(owned[batch[i].printing] + batch[i].quantity)
      BY <1>1 DEF Holds
<1>4. k + 1 \in 1..Len(batch) /\ it = batch[k + 1] /\ Tail(todo) = SubSeq(batch, k + 2, Len(batch))
  <2>1. k # Len(batch)
        BY <1>1, <1>2, <1>3
  <2>2. k + 1 \in 1..Len(batch) /\ k \in Nat
        BY <1>2, <2>1
  <2>3. ASSUME NEW s \in Seq(Items), NEW j \in Nat, j + 1 \in 1..Len(s)
        PROVE  /\ Head(SubSeq(s, j + 1, Len(s))) = s[j + 1]
               /\ Tail(SubSeq(s, j + 1, Len(s))) = SubSeq(s, j + 2, Len(s))
        BY <2>3
  <2> QED
        BY <1>2, <1>3, <2>2, <2>3
<1>5. it \in Items /\ p \in Printings /\ it.quantity \in 1..MaxItemQuantity
  <2>1. \A i \in 1..Len(batch) : batch[i] \in Items
        BY <1>2
  <2>2. it \in Items
    <3> HIDE DEF it, batch
    <3> QED
        BY <1>4, <2>1
  <2> HIDE DEF it
  <2> QED
        BY <2>2 DEF Items
<1>6. p \notin DOMAIN view[t]
  <2>1. ASSUME NEW i \in 1..k, batch[i].printing = p
        PROVE  FALSE
    <3>1. i \in 1..Len(batch) /\ i # k + 1
          BY <1>2
    <3> HIDE DEF batch
    <3> QED
          BY <1>2, <1>4, <2>1, <3>1
  <2> QED
        BY <1>3, <2>1
<1>7. owned[p] \in Quantities /\ n = Clamped(owned[p] + it.quantity) /\ n \in Quantities
  <2>1. owned[p] \in Quantities /\ DOMAIN owned = Printings
        BY <1>5 DEF CollectionInvariant, TypeOK
  <2>2. Over(view[t], owned)[p] = owned[p]
        BY <1>5, <1>6, <2>1 DEF Over
  <2>3. Clamped(it.quantity) = it.quantity
        BY <1>5, ClampedType DEF Quantities
  <2>4. n = Clamped(owned[p] + it.quantity)
        BY <2>2, <2>3
  <2>5. owned[p] + it.quantity \in Nat
        BY <1>5, <2>1 DEF Quantities
  <2> HIDE DEF n, p, it
  <2> QED
        BY <2>1, <2>4, <2>5, ClampedType
<1>8. c \in Imports /\ c.batch = batch /\ c.todo = Tail(todo) /\ c.step = "import" /\ c # Idle
  <2>1. Tail(todo) \in Seq(Items)
        BY <1>1, <1>2
  <2> HIDE DEF todo
  <2> QED
        BY <1>1, <2>1 DEF Imports, Idle
<1>9. /\ DOMAIN rows = {batch[i].printing : i \in 1..(k + 1)}
      /\ \A i \in 1..(k + 1) :
            rows[batch[i].printing] = Clamped(owned[batch[i].printing] + batch[i].quantity)
  <2>1. /\ DOMAIN rows = {p} \cup DOMAIN view[t] /\ rows[p] = n
        /\ \A q \in DOMAIN view[t] \ {p} : rows[q] = view[t][q]
    <3> HIDE DEF n, p
    <3> QED
        BY DEF Over, Row
  <2>2. \A i \in 1..(k + 1) : i = k + 1 \/ i \in 1..k
        BY <1>2
  <2>3. \A i \in 1..k : i \in 1..(k + 1)
        BY <1>2
  <2>4. k + 1 \in 1..(k + 1)
        BY <1>4
  <2>5. p = batch[k + 1].printing /\ it.quantity = batch[k + 1].quantity
        BY <1>4
  <2>6. DOMAIN rows = {batch[i].printing : i \in 1..(k + 1)}
    <3> HIDE DEF rows, p, batch, n, it
    <3> QED
        BY <1>3, <2>1, <2>2, <2>3, <2>4, <2>5
  <2>7. ASSUME NEW i \in 1..(k + 1)
        PROVE  rows[batch[i].printing] = Clamped(owned[batch[i].printing] + batch[i].quantity)
    <3>1. CASE i = k + 1
      <4> HIDE DEF rows, p, batch, n, it
      <4> QED
          BY <1>7, <2>1, <2>5, <3>1
    <3>2. CASE i \in 1..k
      <4>1. batch[i].printing \in DOMAIN view[t] \ {p}
        <5> HIDE DEF p, batch
        <5> QED
          BY <1>3, <1>6, <3>2
      <4> HIDE DEF rows, p, batch
      <4> QED
          BY <1>3, <2>1, <3>2, <4>1
    <3> QED
          BY <2>2, <3>1, <3>2
  <2> HIDE DEF rows, batch
  <2> QED
        BY <2>6, <2>7
<1>10. Holds(c, rows, owned)
  <2>1. k + 1 \in 0..Len(c.batch) /\ c.todo = SubSeq(c.batch, (k + 1) + 1, Len(c.batch))
    <3>1. (k + 1) + 1 = k + 2 /\ k + 1 \in 0..Len(batch)
          BY <1>2, <1>4
    <3> HIDE DEF c, batch, it
    <3> QED
          BY <1>4, <1>8, <3>1
  <2>2. \E m \in 0..Len(c.batch) :
            /\ c.todo = SubSeq(c.batch, m + 1, Len(c.batch))
            /\ DOMAIN rows = {c.batch[i].printing : i \in 1..m}
            /\ \A i \in 1..m :
                  rows[c.batch[i].printing] = Clamped(owned[c.batch[i].printing] + c.batch[i].quantity)
    <3>1. c.batch = batch
          BY <1>8
    <3>2. k + 1 \in 0..Len(c.batch)
          BY <2>1
    <3> HIDE DEF c, rows, batch
    <3> WITNESS k + 1 \in 0..Len(c.batch)
    <3> QED
        BY ONLY <1>9, <2>1, <3>1, Zenon
  <2>3. /\ c # Idle /\ c.step \notin {"locked", "checked", "added"}
        /\ c.step \notin {"locked", "checked"} /\ c.step # "added"
        BY <1>8
  <2> HIDE DEF c, rows, batch
  <2> QED
        BY <2>2, <2>3, Zenon DEF Holds
<1>11. Free(t, p) /\ Hold(t, p, n) /\ Go(t, c) /\ UNCHANGED <<owned, known>>
      BY DEF AddNext, AddCollectionItem, table, catalogue
<1> HIDE DEF n, c, p
<1> QED
      BY <1>5, <1>7, <1>8, <1>10, <1>11, HoldPreserves

LEMMA FinishImportPreserves ==
    ASSUME CollectionInvariant, NEW t \in Calls, FinishImport(t)
    PROVE  CollectionInvariant'
BY CallIs, EndPreserves DEF FinishImport, CommitRows, catalogue

LEMMA NextPreserves ==
    ASSUME CollectionInvariant, Next
    PROVE  CollectionInvariant'
<1>1. ASSUME NEW p \in Printings, NEW n \in 0..MaxItemQuantity, SetQuantity(p, n)
      PROVE  CollectionInvariant'
      BY <1>1, SetQuantityPreserves DEF Quantities
<1>2. ASSUME NEW t \in Calls, NEW p \in Printings, NEW r \in Printings, LockSource(t, p, r)
      PROVE  CollectionInvariant'
      BY <1>2, LockSourcePreserves
<1>3. ASSUME NEW t \in Calls, Step(t) \/ Deadlock(t) \/ Abort(t)
      PROVE  CollectionInvariant'
  <2>1. CASE Rollback(t)
        BY <2>1, RollbackPreserves
  <2>2. CASE AddTarget(t)
        BY <2>2, AddTargetPreserves
  <2>3. CASE FinishMove(t)
        BY <2>3, FinishMovePreserves
  <2>4. CASE AddNext(t)
        BY <2>4, AddNextPreserves
  <2>5. CASE FinishImport(t)
        BY <2>5, FinishImportPreserves
  <2>6. CASE CheckTarget(t)
        BY <2>6, CheckTargetPreserves
  <2> QED
        BY <1>3, <2>1, <2>2, <2>3, <2>4, <2>5, <2>6
        DEF Step, MoveRefused, TargetGone, ImportRefused, Deadlock, Abort
<1>4. ASSUME NEW p \in Leaving \cup DOMAIN MovesTo, NEW o, Upsert(p, o) \/ Vanish(p)
      PROVE  CollectionInvariant'
  <2>1. p \in Printings
        BY LeavingArePrintings, MovesArePrintings
  <2>2. known' \subseteq Printings /\ UNCHANGED <<owned, call, view>>
        BY <1>4, <2>1 DEF Upsert, Vanish, CollectionInvariant, TypeOK, table
  <2> QED
        BY <2>2 DEF CollectionInvariant, TypeOK, LocksExclude
<1> QED
      BY <1>1, <1>2, <1>3, <1>4 DEF Next

-----------------------------------------------------------------------------
(* Counting copies *)

Some(s) == CHOOSE x \in s : TRUE

Small(S, n) == {s \in SUBSET S : Cardinality(s) <= n}

\* The recursion of Copies on the sets in D.
Tally(g, rows, D) ==
    g = [s \in D |-> IF s = {} THEN 0 ELSE rows[Some(s)] + g[s \ {Some(s)}]]

LEMMA OneFewer ==
    ASSUME NEW S, IsFiniteSet(S), NEW s \in SUBSET S, s # {}
    PROVE  /\ Some(s) \in s /\ s \ {Some(s)} \in SUBSET S
           /\ Cardinality(s) \in Nat \ {0}
           /\ Cardinality(s \ {Some(s)}) = Cardinality(s) - 1
<1>1. IsFiniteSet(s) /\ Some(s) \in s
      BY FS_Subset DEF Some
<1>2. Cardinality(s) \in Nat /\ Cardinality(s) # 0
      BY <1>1, FS_CardinalityType, FS_EmptySet
<1>3. Cardinality(s \ {Some(s)}) = Cardinality(s) - 1
      BY <1>1, FS_RemoveElement
<1> QED
      BY <1>1, <1>2, <1>3

LEMMA TallyExists ==
    ASSUME NEW S, IsFiniteSet(S), NEW rows
    PROVE  \E g : Tally(g, rows, SUBSET S)
<1> DEFINE N == Cardinality(S)
           T == {n \in 0..N : ~ \E g : Tally(g, rows, Small(S, n))}
<1>0. N \in Nat /\ N \in 0..N
      BY FS_CardinalityType
<1>1. SUFFICES ASSUME T # {}
               PROVE  FALSE
  <2>1. Small(S, N) = SUBSET S
    <3>1. \A s \in SUBSET S : Cardinality(s) <= N
          BY FS_Subset
    <3> QED
          BY <3>1 DEF Small
  <2>2. \E g : Tally(g, rows, Small(S, N))
        BY <1>0
  <2> QED
        BY <2>1, <2>2
<1>2. PICK n \in T : \A m \in T : n <= m
  <2>1. T \in SUBSET Nat
        OBVIOUS
  <2> HIDE DEF T
  <2> QED
        BY <1>1, <2>1, LeastNatural
<1>3. n \in 0..N /\ n \in Nat /\ ~ \E g : Tally(g, rows, Small(S, n))
      BY <1>0, <1>2
<1>4. CASE n = 0
  <2> DEFINE g == [s \in Small(S, n) |-> 0]
  <2>1. ASSUME NEW s \in Small(S, n), s # {}
        PROVE  FALSE
    <3>1. s \in SUBSET S /\ Cardinality(s) <= 0
          BY <1>4 DEF Small
    <3>2. Cardinality(s) \in Nat \ {0}
          BY <2>1, <3>1, OneFewer
    <3> QED
          BY <3>1, <3>2
  <2>2. \A s \in Small(S, n) :
            g[s] = IF s = {} THEN 0 ELSE rows[Some(s)] + g[s \ {Some(s)}]
        BY <2>1
  <2>3. Tally(g, rows, Small(S, n))
        BY <2>2 DEF Tally
  <2> QED
        BY <1>3, <2>3
<1>5. CASE n # 0
  <2>1. n - 1 \in 0..N /\ n - 1 \notin T
    <3> HIDE DEF T, N
    <3> QED
        BY <1>0, <1>2, <1>3, <1>5
  <2>2. PICK g : Tally(g, rows, Small(S, n - 1))
        BY <2>1
  <2> DEFINE h == [s \in Small(S, n) |->
                      IF s = {} THEN 0 ELSE rows[Some(s)] + g[s \ {Some(s)}]]
  <2>3. \A s \in Small(S, n - 1) : s \in Small(S, n) /\ h[s] = g[s]
    <3> TAKE s \in Small(S, n - 1)
    <3>1. s \in SUBSET S /\ Cardinality(s) \in Nat /\ Cardinality(s) <= n - 1
          BY FS_Subset, FS_CardinalityType DEF Small
    <3>2. s \in Small(S, n)
          BY <1>3, <3>1 DEF Small
    <3>3. g[s] = IF s = {} THEN 0 ELSE rows[Some(s)] + g[s \ {Some(s)}]
          BY <2>2 DEF Tally
    <3> QED
          BY <3>2, <3>3
  <2>4. \A s \in Small(S, n) :
            h[s] = IF s = {} THEN 0 ELSE rows[Some(s)] + h[s \ {Some(s)}]
    <3> TAKE s \in Small(S, n)
    <3>1. CASE s = {}
          BY <3>1
    <3>2. CASE s # {}
      <4>1. s \ {Some(s)} \in Small(S, n - 1)
            BY <1>3, <3>2, OneFewer DEF Small
      <4>2. h[s \ {Some(s)}] = g[s \ {Some(s)}]
            BY <2>3, <4>1
      <4> QED
            BY <3>2, <4>2
    <3> QED
          BY <3>1, <3>2
  <2>5. Tally(h, rows, Small(S, n))
        BY <2>4 DEF Tally
  <2> QED
        BY <1>3, <2>5
<1> QED
      BY <1>4, <1>5

LEMMA CopiesIsTally ==
    ASSUME NEW S, IsFiniteSet(S), NEW rows
    PROVE  \E g : Tally(g, rows, SUBSET S) /\ Copies(rows, S) = g[S]
<1> DEFINE iter == CHOOSE g : Tally(g, rows, SUBSET S)
<1>1. Tally(iter, rows, SUBSET S)
      BY TallyExists
<1>2. Copies(rows, S) = iter[S]
      BY DEF Copies, FoldFunctionOnSet, MapThenFoldSet, Tally, Some
<1> QED
      BY <1>1, <1>2

LEMMA CopiesOfOne ==
    ASSUME NEW rows, NEW i, rows[i] \in Nat
    PROVE  Copies(rows, {i}) = rows[i]
<1>1. IsFiniteSet({i})
      BY FS_Singleton
<1>2. PICK g : Tally(g, rows, SUBSET {i}) /\ Copies(rows, {i}) = g[{i}]
      BY <1>1, CopiesIsTally
<1>3. Some({i}) = i /\ {i} \ {i} = {}
      BY DEF Some
<1>4. g[{}] = 0
      BY <1>2 DEF Tally
<1>5. g[{i}] = rows[Some({i})] + g[{i} \ {Some({i})}]
      BY <1>2 DEF Tally
<1>6. rows[Some({i})] = rows[i] /\ g[{i} \ {Some({i})}] = 0
      BY <1>3, <1>4
<1>7. g[{i}] = rows[i] + 0
      BY <1>5, <1>6
<1> QED
      BY <1>2, <1>7

-----------------------------------------------------------------------------
(* What is committed is a whole operation *)

LEMMA SumIsClamped ==
    ASSUME NEW a, NEW b
    PROVE  AsLedger!Sum(a, b) = Clamped(a + b)
BY DEF AsLedger!Sum, Clamped

LEMMA MoveIsWhole ==
    ASSUME CollectionInvariant, NEW t \in Calls, FinishMove(t)
    PROVE  /\ call[t].from \in Printings /\ call[t].to \in Printings
           /\ AsLedger!Move(call[t].from, call[t].to)
<1> DEFINE from == call[t].from
           to == call[t].to
           rows == view[t]
           end == Over(Row(from, 0), rows)
<1>1. /\ from \in Printings /\ to \in Printings /\ from # to
      /\ DOMAIN rows = {from, to} /\ rows[to] = Clamped(owned[to] + owned[from])
      /\ owned[from] # 0
      BY CallIs DEF FinishMove, Holds, Moves
<1>2. owned \in [Printings -> Quantities]
      BY DEF CollectionInvariant, TypeOK
<1>3. owned' = Over(end, owned)
      BY DEF FinishMove, CommitRows
<1> HIDE DEF from, to, rows
<1>4. DOMAIN end = {from, to} /\ end[from] = 0 /\ end[to] = Clamped(owned[to] + owned[from])
      BY <1>1 DEF Over, Row
<1> HIDE DEF end
<1>5. owned' = [p \in Printings |-> IF p = from THEN 0
                                    ELSE IF p = to THEN Clamped(owned[to] + owned[from])
                                    ELSE owned[p]]
      BY <1>1, <1>2, <1>3, <1>4 DEF Over
<1>6. owned' = [owned EXCEPT ![to] = Clamped(@ + owned[from]), ![from] = 0]
      BY <1>1, <1>2, <1>5
<1>7. owned[from] > 0
      BY <1>1, <1>2 DEF Quantities
<1>8. AsLedger!Move(from, to)
      BY <1>1, <1>6, <1>7, SumIsClamped DEF AsLedger!Move
<1> QED
      BY <1>1, <1>8 DEF from, to

LEMMA AddedIs ==
    ASSUME NEW lines \in Batches
    PROVE  /\ DOMAIN Added(lines) = {lines[i].printing : i \in 1..Len(lines)}
           /\ DOMAIN Added(lines) \subseteq Printings
           /\ \A i \in 1..Len(lines) : Added(lines)[lines[i].printing] = lines[i].quantity
           /\ Added(lines) \in [DOMAIN Added(lines) -> 1..MaxItemQuantity]
<1>1. /\ lines \in Seq(Items) /\ DOMAIN lines = 1..Len(lines)
      /\ \A i, j \in 1..Len(lines) : lines[i].printing = lines[j].printing => i = j
      BY DEF Batches
<1>2. \A i \in 1..Len(lines) :
          lines[i].printing \in Printings /\ lines[i].quantity \in 1..MaxItemQuantity
  <2>1. \A i \in 1..Len(lines) : lines[i] \in Items
        BY <1>1
  <2> QED
        BY <2>1 DEF Items
<1> DEFINE q == [i \in DOMAIN lines |-> lines[i].quantity]
<1>3. ASSUME NEW i \in 1..Len(lines)
      PROVE  Added(lines)[lines[i].printing] = lines[i].quantity
  <2>1. {j \in DOMAIN lines : lines[j].printing = lines[i].printing} = {i}
        BY <1>1
  <2>2. Added(lines)[lines[i].printing] = Copies(q, {i})
        BY <1>1, <2>1 DEF Added
  <2>3. q[i] = lines[i].quantity /\ q[i] \in Nat
        BY <1>1, <1>2
  <2> HIDE DEF q
  <2> QED
        BY <2>2, <2>3, CopiesOfOne
<1>4. DOMAIN Added(lines) = {lines[i].printing : i \in 1..Len(lines)}
      BY <1>1 DEF Added
<1>5. Added(lines) = [p \in DOMAIN Added(lines) |-> Added(lines)[p]]
      BY DEF Added
<1>6. \A p \in DOMAIN Added(lines) : p \in Printings /\ Added(lines)[p] \in 1..MaxItemQuantity
      BY <1>2, <1>3, <1>4
<1> QED
      BY <1>3, <1>4, <1>5, <1>6

LEMMA ImportIsWhole ==
    ASSUME CollectionInvariant, NEW t \in Calls, FinishImport(t)
    PROVE  /\ call[t].batch \in Batches
           /\ AsLedger!Add(Added(call[t].batch))
<1> DEFINE lines == call[t].batch
           rows == view[t]
<1>1. /\ lines \in Batches /\ call[t].todo = <<>> /\ Holds(call[t], rows, owned)
      BY CallIs DEF FinishImport, Imports
<1>2. lines \in Seq(Items) /\ Len(lines) \in Nat
      BY <1>1 DEF Batches
<1>3. PICK k \in 0..Len(lines) :
          /\ call[t].todo = SubSeq(lines, k + 1, Len(lines))
          /\ DOMAIN rows = {lines[i].printing : i \in 1..k}
          /\ \A i \in 1..k :
                rows[lines[i].printing] = Clamped(owned[lines[i].printing] + lines[i].quantity)
      BY <1>1 DEF Holds, FinishImport, Idle
<1>4. k = Len(lines)
  <2>1. Len(SubSeq(lines, k + 1, Len(lines))) = Len(lines) - k
        BY <1>2
  <2> QED
        BY <1>1, <1>2, <1>3, <2>1
<1>5. owned' = Over(rows, owned) /\ owned \in [Printings -> Quantities]
      BY DEF FinishImport, CommitRows, CollectionInvariant, TypeOK
<1> HIDE DEF lines, rows
<1>6. /\ DOMAIN rows = DOMAIN Added(lines) /\ DOMAIN rows \subseteq Printings
      /\ \A i \in 1..Len(lines) : Added(lines)[lines[i].printing] = lines[i].quantity
      BY <1>1, <1>3, <1>4, AddedIs
<1>7. \A p \in DOMAIN rows : rows[p] = Clamped(owned[p] + Added(lines)[p])
      BY <1>3, <1>4, <1>6
<1>8. owned' = [p \in Printings |-> IF p \in DOMAIN rows THEN rows[p] ELSE owned[p]]
      BY <1>5, <1>6 DEF Over
<1>9. AsLedger!Add(Added(lines))
      BY <1>6, <1>7, <1>8, SumIsClamped DEF AsLedger!Add
<1> QED
      BY <1>1, <1>9 DEF lines

\* What a step of the collection does to what is owned.
LEMMA StepsCommit ==
    ASSUME CollectionInvariant, Next
    PROVE  \/ \E p \in Printings, n \in Quantities : SetQuantity(p, n)
           \/ \E t \in Calls : FinishMove(t)
           \/ \E t \in Calls : FinishImport(t)
           \/ UNCHANGED owned
BY DEF Next, LockSource, Step, MoveRefused, CheckTarget, TargetGone, AddTarget,
       AddCollectionItem, AddNext, ImportRefused, Rollback, Deadlock, Abort, Upsert, Vanish,
       Quantities, table

LEMMA CommitsAreLedgerSteps ==
    ASSUME CollectionInvariant, Next
    PROVE  AsLedger!Next \/ UNCHANGED owned
<1>1. ASSUME NEW p \in Printings, NEW n \in Quantities, SetQuantity(p, n)
      PROVE  AsLedger!Next
      BY <1>1 DEF SetQuantity, Quantities, AsLedger!Set, AsLedger!Next
<1>2. ASSUME NEW t \in Calls, FinishMove(t)
      PROVE  AsLedger!Next
      BY <1>2, MoveIsWhole DEF AsLedger!Next
<1>3. ASSUME NEW t \in Calls, FinishImport(t)
      PROVE  AsLedger!Next
  <2> DEFINE batch == Added(call[t].batch)
  <2>1. /\ AsLedger!Add(batch) /\ DOMAIN batch \in SUBSET Printings
        /\ batch \in [DOMAIN batch -> 1..MaxItemQuantity]
        BY <1>3, ImportIsWhole, AddedIs
  <2> HIDE DEF batch
  <2> QED
        BY <2>1 DEF AsLedger!Next
<1> QED
      BY <1>1, <1>2, <1>3, StepsCommit

LEMMA EndsAreWhole ==
    ASSUME CollectionInvariant, Next, NEW t \in Calls, call[t] # Idle, call'[t] = Idle
    PROVE  \/ UNCHANGED owned
           \/ call[t].step = "added" /\ AsLedger!Move(call[t].from, call[t].to)
           \/ call[t].step = "import" /\ AsLedger!Add(Added(call[t].batch))
<1>0. call \in [Calls -> {Idle} \cup Moves \cup Imports]
      BY DEF CollectionInvariant, TypeOK
<1>1. ASSUME NEW p \in Printings, NEW n \in Quantities, SetQuantity(p, n)
      PROVE  FALSE
      BY <1>1 DEF SetQuantity
<1>2. ASSUME NEW u \in Calls, FinishMove(u)
      PROVE  call[t].step = "added" /\ AsLedger!Move(call[t].from, call[t].to)
  <2>1. u = t
        BY <1>0, <1>2 DEF FinishMove, CommitRows, Go
  <2> QED
        BY <1>2, <2>1, MoveIsWhole DEF FinishMove
<1>3. ASSUME NEW u \in Calls, FinishImport(u)
      PROVE  call[t].step = "import" /\ AsLedger!Add(Added(call[t].batch))
  <2>1. u = t
        BY <1>0, <1>3 DEF FinishImport, CommitRows, Go
  <2> QED
        BY <1>3, <2>1, ImportIsWhole DEF FinishImport
<1> QED
      BY <1>1, <1>2, <1>3, StepsCommit

-----------------------------------------------------------------------------
(* How a line is read *)

LEMMA BestIsIn ==
    ASSUME NEW S \in SUBSET Printings, S # {}
    PROVE  Best(S) \in S
<1> DEFINE T == {Rank[p] : p \in S}
<1>1. \A p \in S : Rank[p] \in Nat
      BY RankIsNat
<1>2. T \in SUBSET Nat /\ T # {}
      BY <1>1
<1>3. PICK n \in T : \A m \in T : n <= m
  <2> HIDE DEF T
  <2> QED
      BY <1>2, LeastNatural
<1>4. PICK p \in S : Rank[p] = n
      BY <1>3
<1>5. \A r \in S : Rank[p] <= Rank[r]
      BY <1>3, <1>4
<1> QED
      BY <1>5 DEF Best

\* What the queries find is in the catalogue and is what they were asked for.
LEMMA ExactIs ==
    ASSUME known \subseteq Printings, NEW names, NEW name
    PROVE  \A p \in Exact(names, name) : p \in known /\ NameOf[p] = name
<1> DEFINE Of(p) == {r \in known : NameOf[r] = name /\ cardOf[r] = cardOf[p]}
<1>1. ASSUME NEW q \in known, NameOf[q] = name
      PROVE  Best(Of(q)) \in known /\ NameOf[Best(Of(q))] = name
  <2>1. Of(q) \in SUBSET Printings /\ Of(q) # {}
        BY <1>1
  <2>2. Best(Of(q)) \in Of(q)
    <3> HIDE DEF Of
    <3> QED
        BY <2>1, BestIsIn
  <2> QED
        BY <2>2
<1>2. Exact(names, name) \subseteq {Best(Of(q)) : q \in {q \in known : NameOf[q] = name}}
      BY DEF Exact
<1> QED
      BY <1>1, <1>2

LEMMA InNamedSlotIs ==
    ASSUME known \subseteq Printings, NEW parsed
    PROVE  \A p \in InNamedSlot(parsed) :
               /\ p \in known /\ NameOf[p] = parsed.name
               /\ SetOf[p] = parsed.set /\ CollectorOf[p] = parsed.number
<1> DEFINE there == {p \in known : SetOf[p] = parsed.set /\ CollectorOf[p] = parsed.number}
<1>1. ASSUME there # {}
      PROVE  Best(there) \in there
  <2>1. there \in SUBSET Printings
        OBVIOUS
  <2> HIDE DEF there
  <2> QED
        BY <1>1, <2>1, BestIsIn
<1>2. InNamedSlot(parsed) = {p \in IF there = {} THEN {} ELSE {Best(there)} : NameOf[p] = parsed.name}
      BY DEF InNamedSlot, InSlot
<1>3. ASSUME NEW p \in InNamedSlot(parsed)
      PROVE  p \in there /\ NameOf[p] = parsed.name
  <2> HIDE DEF there
  <2> QED
      BY <1>1, <1>2
<1> QED
      BY <1>3

LEMMA PrintingsForNameAre ==
    ASSUME NEW names, NEW name
    PROVE  PrintingsForName(names, name) \subseteq known
BY DEF PrintingsForName, Suggestions, PrintingsOf

IsRecord(p) ==
    p = [raw |-> p.raw, ok |-> p.ok, quantity |-> p.quantity,
         name |-> p.name, set |-> p.set, number |-> p.number]

LEMMA ParsedIs ==
    ASSUME NEW line
    PROVE  /\ ParseLine(line).raw = line /\ IsRecord(ParseLine(line))
           /\ ParseLine(line).ok => InRange(ParseLine(line).quantity)
           /\ ParseLine(line).ok \in BOOLEAN
           /\ ~ParseLine(line).ok => ParseLine(line) = Unparsable(line)
<1> DEFINE s(text) == SplitSelectors(text)
           named(n, text) ==
               IF s(text).name = <<>> THEN Unparsable(line)
               ELSE [raw |-> line, ok |-> TRUE, quantity |-> n, name |-> s(text).name,
                     set |-> s(text).set, number |-> s(text).number]
<1>1. ASSUME NEW n, NEW text, InRange(n)
      PROVE  /\ named(n, text).raw = line /\ IsRecord(named(n, text))
             /\ named(n, text).ok => InRange(named(n, text).quantity)
             /\ named(n, text).ok \in BOOLEAN
             /\ ~named(n, text).ok => named(n, text) = Unparsable(line)
  <2> HIDE DEF s
  <2>1. CASE s(text).name = <<>>
        BY <2>1 DEF Unparsable, IsRecord
  <2>2. CASE s(text).name # <<>>
        BY <1>1, <2>2 DEF IsRecord
  <2> QED
        BY <2>1, <2>2
<1>2. InRange(1)
      BY MaxIsPositive DEF InRange
<1>3. \/ ParseLine(line) = Unparsable(line)
      \/ ParseLine(line) = named(1, line)
      \/ InRange(NumberIn[line[1]]) /\ ParseLine(line) = named(NumberIn[line[1]], Tail(line))
      BY DEF ParseLine
<1> HIDE DEF named
<1>4. CASE ParseLine(line) = Unparsable(line)
      BY <1>4 DEF Unparsable, IsRecord
<1>5. CASE ParseLine(line) = named(1, line)
      BY <1>1, <1>2, <1>5
<1>6. CASE /\ InRange(NumberIn[line[1]])
           /\ ParseLine(line) = named(NumberIn[line[1]], Tail(line))
      BY <1>1, <1>6
<1> QED
      BY <1>3, <1>4, <1>5, <1>6

LEMMA ChoiceIs ==
    ASSUME NEW S, NEW miss, NEW others, NEW parsed
    PROVE  LET r == Choice(S, miss, others, parsed)
           IN  /\ r.raw = parsed.raw /\ r.quantity = parsed.quantity
               /\ r.set = parsed.set /\ r.number = parsed.number
               /\ \/ S = {} /\ r.status = miss /\ r.suggestions = others
                  \/ r.status = "matched" /\ r.match \in S /\ r.suggestions = {}
                  \/ r.status = "ambiguous" /\ r.suggestions = S
<1>1. S # {} => TheOne(S) \in S
      BY DEF TheOne
<1>2. CASE S = {}
      BY <1>2 DEF Choice, Result
<1>3. CASE S # {} /\ Cardinality(S) = 1
      BY <1>1, <1>3 DEF Choice, Result
<1>4. CASE S # {} /\ Cardinality(S) # 1
      BY <1>4 DEF Choice, Result
<1> QED
      BY <1>2, <1>3, <1>4

\* What MatchIsTyped says of one line.
MatchIsSaid(r) ==
    LET p == ParseLine(r.raw)
    IN  /\ r.status = "matched" =>
              /\ InRange(r.quantity)
              /\ IF r.set = None
                 THEN NameOf[r.match] \in {p.name, NameWithoutQuantity(r.raw)}
                 ELSE /\ NameOf[r.match] = p.name /\ SetOf[r.match] = p.set
                      /\ p.number # None => CollectorOf[r.match] = p.number
        /\ r.status = "ambiguous" /\ r.set # None =>
              \A q \in r.suggestions : NameOf[q] = p.name /\ SetOf[q] = p.set

LEMMA FirstReadingIsSaid ==
    ASSUME known \subseteq Printings, NEW names, NEW line
    PROVE  LET r == FirstReading(names, ParseLine(line))
           IN  LineIsTyped(r) /\ r.raw = line /\ MatchIsSaid(r)
<1> DEFINE p == ParseLine(line)
           r == FirstReading(names, p)
<1>1. p.raw = line /\ (p.ok => InRange(p.quantity)) /\ (~p.ok => p = Unparsable(line))
      BY ParsedIs
<1> HIDE DEF p
<1>2. CASE ~p.ok
  <2>1. r = Result("unmatched", None, {}, p)
        BY <1>2 DEF FirstReading
  <2>2. r.raw = line /\ r.status = "unmatched" /\ r.suggestions = {}
        BY <1>1, <2>1 DEF Result
  <2> HIDE DEF r
  <2>3. LineIsTyped(r) /\ r.raw = line /\ MatchIsSaid(r)
        BY <2>2 DEF LineIsTyped, MatchIsSaid
  <2> QED
        BY <2>3 DEF r, p
<1>3. CASE p.ok /\ p.set # None
  <2> DEFINE S == IF p.number # None THEN InNamedSlot(p) ELSE InSet(p.name, p.set)
             others == PrintingsForName(names, p.name)
  <2>1. r = Choice(S, "printing-not-found", others, p)
        BY <1>3 DEF FirstReading
  <2>2. \A q \in S : /\ q \in Printings /\ NameOf[q] = p.name /\ SetOf[q] = p.set
                     /\ p.number # None => CollectorOf[q] = p.number
        BY InNamedSlotIs DEF InSet
  <2>3. others \subseteq Printings
        BY PrintingsForNameAre
  <2> HIDE DEF S, others, r
  <2>4. /\ r.raw = line /\ r.quantity = p.quantity /\ r.set = p.set
        /\ \/ S = {} /\ r.status = "printing-not-found" /\ r.suggestions = others
           \/ r.status = "matched" /\ r.match \in S /\ r.suggestions = {}
           \/ r.status = "ambiguous" /\ r.suggestions = S
        BY <1>1, <2>1, ChoiceIs
  <2>5. LineIsTyped(r)
        BY <1>1, <1>3, <2>2, <2>3, <2>4 DEF LineIsTyped
  <2>6. MatchIsSaid(r)
        BY <1>1, <1>3, <2>2, <2>4 DEF MatchIsSaid, p
  <2> QED
        BY <2>4, <2>5, <2>6 DEF r, p
<1>4. CASE p.ok /\ p.set = None
  <2> DEFINE S == Exact(names, p.name)
             near == Suggestions(p.name)
             miss == IF near # {} THEN "ambiguous" ELSE "unmatched"
  <2>1. r = Choice(S, miss, near, p)
        BY <1>4 DEF FirstReading
  <2>2. \A q \in S : q \in Printings /\ NameOf[q] = p.name
        BY ExactIs
  <2>3. near \subseteq Printings /\ miss \in {"ambiguous", "unmatched"}
        /\ (miss = "unmatched" => near = {})
        BY DEF Suggestions
  <2> HIDE DEF S, near, miss, r
  <2>4. /\ r.raw = line /\ r.quantity = p.quantity /\ r.set = p.set
        /\ \/ S = {} /\ r.status = miss /\ r.suggestions = near
           \/ r.status = "matched" /\ r.match \in S /\ r.suggestions = {}
           \/ r.status = "ambiguous" /\ r.suggestions = S
        BY <1>1, <2>1, ChoiceIs
  <2>5. LineIsTyped(r)
        BY <1>1, <1>4, <2>2, <2>3, <2>4 DEF LineIsTyped
  <2>6. MatchIsSaid(r)
        BY <1>1, <1>4, <2>2, <2>3, <2>4 DEF MatchIsSaid, p
  <2> QED
        BY <2>4, <2>5, <2>6 DEF r, p
<1> QED
      BY <1>2, <1>3, <1>4 DEF p

LEMMA ResolvedIsSaid ==
    ASSUME known \subseteq Printings, NEW names, NEW line
    PROVE  LET r == ResolveLine(names, line)
           IN  LineIsTyped(r) /\ r.raw = line /\ MatchIsSaid(r)
<1> DEFINE p == ParseLine(line)
           first == FirstReading(names, p)
           name == NameWithoutQuantity(line)
           retry == Exact(names, name)
           again == Result("matched", TheOne(retry), {}, [p EXCEPT !.set = None, !.number = None])
           r == ResolveLine(names, line)
<1>1. LineIsTyped(first) /\ first.raw = line /\ MatchIsSaid(first)
      BY FirstReadingIsSaid
<1>2. CASE Cardinality(retry) = 1 /\ p.set # None /\ r = again
  <2>1. p.ok /\ InRange(p.quantity)
        BY <1>2, ParsedIs DEF Unparsable
  <2>2. retry # {}
        BY <1>2, FS_EmptySet
  <2>3. TheOne(retry) \in Printings /\ NameOf[TheOne(retry)] = name
    <3> HIDE DEF name
    <3> QED
        BY <2>2, ExactIs DEF TheOne
  <2>4. p.raw = line /\ IsRecord(p)
        BY ParsedIs
  <2> HIDE DEF p, retry, name
  <2>5. /\ again.raw = line /\ again.status = "matched" /\ again.match = TheOne(retry)
        /\ again.suggestions = {} /\ again.quantity = p.quantity /\ again.set = None
        BY <2>4 DEF Result, IsRecord
  <2> HIDE DEF r, again
  <2>6. LineIsTyped(r)
        BY <1>2, <2>1, <2>3, <2>5 DEF LineIsTyped
  <2>7. MatchIsSaid(r)
        BY <1>2, <2>1, <2>3, <2>5 DEF MatchIsSaid, name
  <2> QED
        BY <1>2, <2>5, <2>6, <2>7 DEF r
<1>3. CASE r = first
      BY <1>1, <1>3
<1> QED
      BY <1>2, <1>3 DEF ResolveLine

\* The printing that represents the only card of a name is found by the name.
LEMMA ExactOfOneCard ==
    ASSUME known \subseteq Printings, NEW p \in known, NEW names, NameOf[p] \in names,
           \A r \in known : NameOf[r] = NameOf[p] => cardOf[r] = cardOf[p]
    PROVE  /\ Cardinality(Exact(names, NameOf[p])) = 1
           /\ \A q \in Exact(names, NameOf[p]) : cardOf[q] = cardOf[p]
<1> DEFINE name == NameOf[p]
           Of(q) == {r \in known : NameOf[r] = name /\ cardOf[r] = cardOf[q]}
           named == {q \in known : NameOf[q] = name}
<1>1. \A q \in named : Of(q) = Of(p)
      OBVIOUS
<1>2. Exact(names, name) = {Best(Of(q)) : q \in named}
      BY DEF Exact
<1>3. p \in named
      OBVIOUS
<1>4. Exact(names, name) = {Best(Of(p))}
  <2> HIDE DEF Of, named
  <2> QED
      BY <1>1, <1>2, <1>3
<1>5. cardOf[Best(Of(p))] = cardOf[p]
  <2>1. Of(p) \in SUBSET Printings /\ Of(p) # {}
        OBVIOUS
  <2>2. Best(Of(p)) \in Of(p)
    <3> HIDE DEF Of
    <3> QED
        BY <2>1, BestIsIn
  <2> QED
        BY <2>2
<1> HIDE DEF Of
<1> QED
      BY <1>4, <1>5, FS_Singleton

\* How a line that spells a name is read.
LEMMA SpelledIs ==
    ASSUME NEW line, line \in Seq(Range(line)), line # <<>>,
           NEW p \in Printings, Spells(line, NameOf[p]), SplitSelectors(NameOf[p]).name # <<>>
    PROVE  /\ NameWithoutQuantity(line) = NameOf[p]
           /\ ParseLine(line).ok
           /\ ParseLine(line).name = SplitSelectors(NameOf[p]).name
           /\ ParseLine(line).set = SplitSelectors(NameOf[p]).set
           /\ ParseLine(line).number = SplitSelectors(NameOf[p]).number
<1> DEFINE name == NameOf[p]
           s == SplitSelectors(name)
           parsed(n) == [raw |-> line, ok |-> TRUE, quantity |-> n, name |-> s.name,
                         set |-> s.set, number |-> s.number]
<1>1. SUFFICES \E n : NameWithoutQuantity(line) = name /\ ParseLine(line) = parsed(n)
      OBVIOUS
<1>2. Len(line) \in Nat
      OBVIOUS
<1>3. CASE line = name /\ line[1] \notin DOMAIN NumberIn
  <2>1. NameWithoutQuantity(line) = name
        BY <1>3 DEF NameWithoutQuantity
  <2>2. ParseLine(line) = parsed(1)
        BY <1>3 DEF ParseLine
  <2> QED
        BY <2>1, <2>2
<1>4. CASE /\ line = name /\ line[1] \in DOMAIN NumberIn
           /\ Len(line) > 1 /\ NumberIn[line[1]] \in CardYears
  <2>1. NumberIn[line[1]] > MaxItemQuantity /\ NumberIn[line[1]] \in Int
        BY <1>4, YearsAreNoQuantities, NumbersAreInt
  <2>2. ~InRange(NumberIn[line[1]])
        BY <2>1, MaxIsPositive DEF InRange
  <2>3. NameWithoutQuantity(line) = name
        BY <1>4, <2>2 DEF NameWithoutQuantity
  <2>4. ParseLine(line) = parsed(1)
        BY <1>4, <2>1 DEF ParseLine
  <2> QED
        BY <2>3, <2>4
<1>5. CASE /\ line[1] \in DOMAIN NumberIn /\ InRange(NumberIn[line[1]])
           /\ Tail(line) = name
  <2>1. name # <<>>
    <3>1. SplitSelectors(<<>>).name = <<>>
          BY DEF SplitSelectors, Selected
    <3> QED
          BY <3>1
  <2>2. Len(line) > 1 /\ Len(line) # 1
    <3>1. Len(line) # 0
          OBVIOUS
    <3>2. Len(line) = 1 => Tail(line) = <<>>
          OBVIOUS
    <3> QED
          BY <1>2, <1>5, <2>1, <3>1, <3>2
  <2>3. ~(NumberIn[line[1]] > MaxItemQuantity)
        BY <1>5, MaxIsPositive DEF InRange
  <2>4. NameWithoutQuantity(line) = name
        BY <1>5, <2>2 DEF NameWithoutQuantity
  <2>5. ParseLine(line) = parsed(NumberIn[line[1]])
        BY <1>5, <2>2, <2>3 DEF ParseLine
  <2> QED
        BY <2>4, <2>5
<1> QED
      BY <1>3, <1>4, <1>5 DEF Spells

LEMMA SpelledIsMatched ==
    ASSUME known \subseteq Printings, NEW line, line \in Seq(Range(line)), line # <<>>,
           NEW p \in known, Spells(line, NameOf[p]), SplitSelectors(NameOf[p]).name # <<>>,
           \A r \in known : NameOf[r] = NameOf[p] => cardOf[r] = cardOf[p],
           \/ SplitSelectors(NameOf[p]).set = None
           \/ InSet(SplitSelectors(NameOf[p]).name, SplitSelectors(NameOf[p]).set) = {},
           NEW lines, line \in lines
    PROVE  LET r == ResolveLine(BatchedNames(lines), line)
           IN  r.status = "matched" /\ cardOf[r.match] = cardOf[p]
<1> DEFINE name == NameOf[p]
           s == SplitSelectors(name)
           parsed == ParseLine(line)
           names == BatchedNames(lines)
           retry == Exact(names, NameWithoutQuantity(line))
           first == FirstReading(names, parsed)
           r == ResolveLine(names, line)
<1>1. /\ NameWithoutQuantity(line) = name /\ parsed.ok
      /\ parsed.name = s.name /\ parsed.set = s.set /\ parsed.number = s.number
      BY SpelledIs
<1>2. parsed.name \in names /\ (parsed.set # None => name \in names)
      BY <1>1 DEF BatchedNames
<1>3. CASE s.set = None
  <2>1. s.name = name
        BY <1>3, SetsAreNamed DEF SplitSelectors, Selected
  <2> DEFINE S == Exact(names, name)
  <2>2. Cardinality(S) = 1 /\ \A q \in S : cardOf[q] = cardOf[p]
    <3> HIDE DEF names
    <3> QED
        BY <1>1, <1>2, <2>1, ExactOfOneCard
  <2>3. S # {} /\ TheOne(S) \in S
    <3> HIDE DEF S
    <3>1. S # {}
      <4>1. SUFFICES ASSUME S = {}
                     PROVE  FALSE
            OBVIOUS
      <4>2. Cardinality(S) = Cardinality({})
            BY <4>1
      <4> QED
            BY <2>2, <4>2, FS_EmptySet
    <3> QED
          BY <3>1 DEF TheOne
  <2>4. first = Result("matched", TheOne(S), {}, parsed)
    <3> HIDE DEF parsed, names
    <3> QED
        BY <1>1, <1>3, <2>1, <2>2, <2>3 DEF FirstReading, Choice
  <2>5. first.status = "matched" /\ first.match = TheOne(S)
        BY <2>4 DEF Result
  <2>6. r = first
        BY <2>5 DEF ResolveLine
  <2> QED
        BY <2>2, <2>3, <2>5, <2>6
<1>4. CASE s.set # None
  <2>1. InSet(s.name, s.set) = {}
        BY <1>4
  <2>2. InNamedSlot(parsed) = {}
    <3> HIDE DEF parsed
    <3> QED
        BY <1>1, <2>1, InNamedSlotIs DEF InSet
  <2>3. first = Result("printing-not-found", None, PrintingsForName(names, parsed.name), parsed)
    <3> HIDE DEF parsed, names
    <3> QED
        BY <1>1, <1>4, <2>1, <2>2 DEF FirstReading, Choice
  <2>4. first.status = "printing-not-found"
        BY <2>3 DEF Result
  <2>5. Cardinality(retry) = 1 /\ \A q \in retry : cardOf[q] = cardOf[p]
    <3> HIDE DEF names
    <3> QED
        BY <1>1, <1>2, <1>4, ExactOfOneCard
  <2>6. TheOne(retry) \in retry
    <3> HIDE DEF retry
    <3>1. retry # {}
      <4>1. SUFFICES ASSUME retry = {}
                     PROVE  FALSE
            OBVIOUS
      <4>2. Cardinality(retry) = Cardinality({})
            BY <4>1
      <4> QED
            BY <2>5, <4>2, FS_EmptySet
    <3> QED
          BY <3>1 DEF TheOne
  <2>7. r = Result("matched", TheOne(retry), {}, [parsed EXCEPT !.set = None, !.number = None])
        BY <1>1, <1>4, <2>4, <2>5 DEF ResolveLine
  <2>8. r.status = "matched" /\ r.match = TheOne(retry)
    <3> HIDE DEF retry, r
    <3> QED
        BY <2>7 DEF Result
  <2> QED
        BY <2>5, <2>6, <2>8
<1> QED
      BY <1>3, <1>4

-----------------------------------------------------------------------------
(* The list under review *)

AllSaid == \A i \in DOMAIN review.lines : MatchIsSaid(review.lines[i])

ReviewInvariant ==
    /\ CollectionInvariant
    /\ ReviewTypeOK
    /\ AllSaid

LEMMA NoReviewHolds ==
    /\ review = NoReview => ReviewTypeOK /\ AllSaid
    /\ review' = NoReview => ReviewTypeOK' /\ AllSaid'
<1>1. ASSUME review = NoReview
      PROVE  ReviewTypeOK /\ AllSaid
  <2>1. review.lines = <<>> /\ review.choices = <<>>
        BY <1>1 DEF NoReview
  <2>2. Len(<<>>) = 0 /\ DOMAIN <<>> = {} /\ 1..0 = {}
        OBVIOUS
  <2>3. review = [lines |-> review.lines, choices |-> review.choices]
        BY <1>1 DEF NoReview
  <2> QED
        BY <2>1, <2>2, <2>3 DEF ReviewTypeOK, AllSaid
<1>2. ASSUME review' = NoReview
      PROVE  ReviewTypeOK' /\ AllSaid'
  <2>1. review'.lines = <<>> /\ review'.choices = <<>>
        BY <1>2 DEF NoReview
  <2>2. Len(<<>>) = 0 /\ DOMAIN <<>> = {} /\ 1..0 = {}
        OBVIOUS
  <2>3. review' = [lines |-> review'.lines, choices |-> review'.choices]
        BY <1>2 DEF NoReview
  <2> QED
        BY <2>1, <2>2, <2>3 DEF ReviewTypeOK, AllSaid
<1> QED
      BY <1>1, <1>2

LEMMA DefaultChoiceType ==
    ASSUME NEW r, LineIsTyped(r)
    PROVE  /\ DefaultChoice(r) \in Printings \cup {None}
           /\ DefaultChoice(r) # None => InRange(r.quantity)
<1>1. CASE r.status = "matched"
      BY <1>1 DEF DefaultChoice, LineIsTyped
<1>2. CASE r.status # "matched" /\ r.suggestions = {}
      BY <1>2 DEF DefaultChoice
<1>3. CASE r.status # "matched" /\ r.suggestions # {}
  <2>1. Best(r.suggestions) \in Printings
        BY <1>3, BestIsIn DEF LineIsTyped
  <2> QED
        BY <1>3, <2>1 DEF DefaultChoice, LineIsTyped
<1> QED
      BY <1>1, <1>2, <1>3

LEMMA PasteHolds ==
    ASSUME ReviewInvariant, NEW text \in Texts, Paste(text)
    PROVE  ReviewInvariant'
<1> DEFINE names == BatchedNames({text[j] : j \in DOMAIN text})
           lines == [i \in DOMAIN text |-> ResolveLine(names, text[i])]
           choices == [i \in DOMAIN lines |-> DefaultChoice(lines[i])]
<1>1. DOMAIN text = 1..Len(text) /\ Len(text) \in Nat
      BY TextsAreSequences
<1>2. review' = [lines |-> lines, choices |-> choices]
      BY DEF Paste, ResolveList
<1>3. known \subseteq Printings
      BY DEF ReviewInvariant, CollectionInvariant, TypeOK
<1>4. \A i \in 1..Len(text) : LineIsTyped(lines[i]) /\ MatchIsSaid(lines[i])
  <2> HIDE DEF names
  <2> QED
      BY <1>1, <1>3, ResolvedIsSaid
<1>5. DOMAIN lines = 1..Len(text) /\ DOMAIN choices = 1..Len(text) /\ Len(lines) = Len(text)
      BY <1>1
<1>6. \A i \in 1..Len(text) :
          /\ choices[i] \in Printings \cup {None}
          /\ choices[i] # None => InRange(lines[i].quantity)
  <2>1. \A i \in 1..Len(text) : choices[i] = DefaultChoice(lines[i])
        BY <1>5
  <2> HIDE DEF lines, choices
  <2> QED
        BY <1>4, <2>1, DefaultChoiceType
<1> HIDE DEF lines, choices
<1>7. review'.lines = lines /\ review'.choices = choices
      BY <1>2
<1>8. ReviewTypeOK'
      BY <1>1, <1>2, <1>4, <1>5, <1>6, <1>7 DEF ReviewTypeOK
<1>9. AllSaid'
      BY <1>4, <1>5, <1>7 DEF AllSaid
<1>10. CollectionInvariant'
      BY DEF Paste, vars, table, catalogue, ReviewInvariant, CollectionInvariant, TypeOK,
             LocksExclude
<1> QED
      BY <1>8, <1>9, <1>10 DEF ReviewInvariant

LEMMA ChooseHolds ==
    ASSUME ReviewInvariant, NEW i \in DOMAIN review.lines, NEW p, Choose(i, p)
    PROVE  ReviewInvariant'
<1> DEFINE lines == review.lines
           choices == [review.choices EXCEPT ![i] = p]
<1>1. /\ review = [lines |-> review.lines, choices |-> review.choices]
      /\ Len(lines) \in Nat /\ DOMAIN lines = 1..Len(lines)
      /\ DOMAIN review.choices = 1..Len(lines)
      /\ \A j \in 1..Len(lines) :
            /\ LineIsTyped(lines[j])
            /\ review.choices[j] \in Printings \cup {None}
            /\ review.choices[j] # None => InRange(lines[j].quantity)
      BY DEF ReviewInvariant, ReviewTypeOK
<1>2. review' = [lines |-> lines, choices |-> choices]
      BY <1>1 DEF Choose
<1>3. review'.lines = lines /\ review'.choices = choices
      BY <1>2
<1>4. p \in Printings \cup {None} /\ InRange(lines[i].quantity)
  <2>1. LineIsTyped(lines[i])
        BY <1>1
  <2> QED
        BY <2>1 DEF Choose, LineIsTyped
<1>5. ReviewTypeOK'
      BY <1>1, <1>2, <1>3, <1>4 DEF ReviewTypeOK
<1>6. AllSaid'
      BY <1>3 DEF ReviewInvariant, AllSaid
<1>7. CollectionInvariant'
      BY DEF Choose, vars, table, catalogue, ReviewInvariant, CollectionInvariant, TypeOK,
             LocksExclude
<1> QED
      BY <1>5, <1>6, <1>7 DEF ReviewInvariant

LEMMA StepHolds ==
    ASSUME ReviewInvariant, [ReviewNext]_reviewVars
    PROVE  ReviewInvariant'
<1>1. ASSUME NEW text \in Texts, Paste(text)
      PROVE  ReviewInvariant'
      BY <1>1, PasteHolds
<1>2. ASSUME NEW i \in DOMAIN review.lines, NEW p \in Printings \cup {None}, Choose(i, p)
      PROVE  ReviewInvariant'
      BY <1>2, ChooseHolds
<1>3. ASSUME NEW t \in Calls, ApplyReview(t)
      PROVE  ReviewInvariant'
  <2>1. BuildImportItems(review) \in Seq(Items)
        BY ImportItemsType DEF ReviewInvariant
  <2> QED
        BY <1>3, <2>1, BeginImportPreserves, NoReviewHolds DEF ApplyReview, ReviewInvariant
<1>4. CASE Discard
  <2>1. CollectionInvariant'
        BY <1>4 DEF Discard, vars, table, catalogue, ReviewInvariant, CollectionInvariant, TypeOK,
             LocksExclude
  <2> QED
        BY <1>4, <2>1, NoReviewHolds DEF Discard, ReviewInvariant
<1>5. CASE Next /\ UNCHANGED review
  <2>1. CollectionInvariant'
        BY <1>5, NextPreserves DEF ReviewInvariant
  <2> QED
        BY <1>5, <2>1 DEF ReviewInvariant, ReviewTypeOK, AllSaid
<1>6. CASE UNCHANGED reviewVars
      BY <1>6 DEF reviewVars, vars, table, catalogue, ReviewInvariant, CollectionInvariant, TypeOK,
                  LocksExclude, ReviewTypeOK, AllSaid
<1> QED
      BY <1>1, <1>2, <1>3, <1>4, <1>5, <1>6 DEF ReviewNext

LEMMA InvariantHolds == ReviewSpec => []ReviewInvariant
<1>1. ReviewInit => ReviewInvariant
      BY InitHolds, NoReviewHolds DEF ReviewInit, ReviewInvariant
<1> QED
      BY <1>1, StepHolds, PTL DEF ReviewSpec

-----------------------------------------------------------------------------
(* Theorems *)

\* However many requests interleave, over however many printings, what they
\* commit is what whole operations of a ledger would have done, in some order.
THEOREM CommitsAreSerial == ReviewSpec => ImplementsLedger
<1>1. ReviewInit => AsLedger!Init
      BY DEF ReviewInit, Init, AsLedger!Init
<1>2. ReviewInvariant /\ [ReviewNext]_reviewVars => [AsLedger!Next]_owned
  <2> SUFFICES ASSUME ReviewInvariant, [ReviewNext]_reviewVars
               PROVE  AsLedger!Next \/ UNCHANGED owned
        OBVIOUS
  <2>1. Next \/ UNCHANGED owned
        BY DEF ReviewNext, Paste, Choose, ApplyReview, BeginImport, Discard, reviewVars,
               vars, table, catalogue
  <2> QED
        BY <2>1, CommitsAreLedgerSteps DEF ReviewInvariant
<1> QED
      BY <1>1, <1>2, InvariantHolds, PTL DEF ReviewSpec, ImplementsLedger, AsLedger!Spec

\* A request that ends has done all of what was asked, or nothing: a move takes
\* all copies of one printing to another, an import adds every line.
THEOREM RequestsAreWhole == ReviewSpec => OperationsAreWhole
<1>1. ReviewInvariant /\ [ReviewNext]_reviewVars =>
          [\A t \in Calls : call[t] # Idle /\ call'[t] = Idle =>
              \/ UNCHANGED owned
              \/ call[t].step = "added" /\ AsLedger!Move(call[t].from, call[t].to)
              \/ call[t].step = "import" /\ AsLedger!Add(Added(call[t].batch))]_vars
  <2> SUFFICES ASSUME ReviewInvariant, [ReviewNext]_reviewVars, NEW t \in Calls,
                      call[t] # Idle, call'[t] = Idle
               PROVE  \/ UNCHANGED owned
                      \/ call[t].step = "added" /\ AsLedger!Move(call[t].from, call[t].to)
                      \/ call[t].step = "import" /\ AsLedger!Add(Added(call[t].batch))
        OBVIOUS
  <2>1. Next \/ UNCHANGED owned
        BY DEF ReviewNext, Paste, Choose, ApplyReview, BeginImport, Discard, reviewVars,
               vars, table, catalogue
  <2> QED
        BY <2>1, EndsAreWhole DEF ReviewInvariant
<1> QED
      BY <1>1, InvariantHolds, PTL DEF ReviewSpec, OperationsAreWhole

\* A match under review has the name, the set and the number that were pasted,
\* for any catalogue and any text.
THEOREM MatchesAreTyped == ReviewSpec => []ReviewIsTyped
<1>1. ReviewInvariant => ReviewIsTyped
      BY DEF ReviewInvariant, AllSaid, MatchIsSaid, ReviewIsTyped, MatchIsTyped
<1> QED
      BY <1>1, InvariantHolds, PTL

\* Every line that spells the name of one card is matched with that card, for
\* any catalogue of names and any text.
THEOREM EveryNameImportable == ReviewSpec => NamesImportable
<1>1. ASSUME ReviewInvariant, NEW text \in Texts, Paste(text)
      PROVE  NamesMatch(review'.lines)
  <2> DEFINE lines == {text[j] : j \in DOMAIN text}
             names == BatchedNames(lines)
  <2>1. review'.lines = [i \in DOMAIN text |-> ResolveLine(names, text[i])]
        BY <1>1 DEF Paste, ResolveList
  <2>2. known \subseteq Printings
        BY <1>1 DEF ReviewInvariant, CollectionInvariant, TypeOK
  <2>3. ASSUME NEW i \in DOMAIN text, NEW p \in known,
               LET s == SplitSelectors(NameOf[p])
               IN  /\ Spells(review'.lines[i].raw, NameOf[p]) /\ s.name # <<>>
                   /\ \A r \in known : NameOf[r] = NameOf[p] => cardOf[r] = cardOf[p]
                   /\ s.set = None \/ InSet(s.name, s.set) = {}
        PROVE  /\ review'.lines[i].status = "matched"
               /\ cardOf[review'.lines[i].match] = cardOf[p]
    <3>1. review'.lines[i] = ResolveLine(names, text[i]) /\ text[i] \in lines
          BY <2>1
    <3>2. review'.lines[i].raw = text[i]
      <4> HIDE DEF names
      <4> QED
          BY <2>2, <3>1, ResolvedIsSaid
    <3>3. text[i] \in Seq(Range(text[i])) /\ text[i] # <<>>
          BY TextsAreSequences
    <3> HIDE DEF lines
    <3> QED
          BY <2>2, <2>3, <3>1, <3>2, <3>3, SpelledIsMatched
  <2> QED
        BY <2>1, <2>3 DEF NamesMatch
<1>2. ASSUME ReviewInvariant, [ReviewNext]_reviewVars, review = NoReview
      PROVE  NamesMatch(review'.lines)
  <2>1. CASE review' = NoReview
    <3>1. review'.lines = <<>>
          BY <2>1 DEF NoReview
    <3> QED
          BY <3>1 DEF NamesMatch
  <2>2. (\E text \in Texts : Paste(text)) \/ review' = NoReview
    <3>1. DOMAIN review.lines = {}
          BY <1>2 DEF NoReview
    <3> QED
          BY <1>2, <3>1 DEF ReviewNext, ApplyReview, Discard, reviewVars
  <2> QED
        BY <1>1, <1>2, <2>1, <2>2
<1>3. ReviewInvariant /\ [ReviewNext]_reviewVars =>
          [review = NoReview => NamesMatch(review'.lines)]_reviewVars
      BY <1>2
<1> QED
      BY <1>3, InvariantHolds, PTL DEF ReviewSpec, NamesImportable

=============================================================================
