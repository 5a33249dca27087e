----------------------------- MODULE CubesProofs -----------------------------
(***************************************************************************)
(* What the history of a cube keeps, for any number of editors, cards,     *)
(* changes and copies.                                                     *)
(*                                                                         *)
(* That an edit applies to what its author saw, and that every change can  *)
(* be undone, rest on the lock: while an edit is locked, no other edit     *)
(* commits, the version is the expected one, and the list still has what   *)
(* the edit removes, although swaps change its printings.                  *)
(*                                                                         *)
(* That the replay shows every version goes back along the changelog: the  *)
(* latest version it would show wrongly follows one that it shows well,    *)
(* and ChangesInvert is the step between the two.                          *)
(***************************************************************************)
EXTENDS Cubes, WellFoundedInduction, TLAPS

\* A locked diff: sides apart, and no more removed than the list has.
Applies(change) ==
    \A o \in Oracles :
        /\ change.adds[o].quantity = 0 \/ change.removes[o].quantity = 0
        /\ change.removes[o].quantity <= list[o].quantity

LockHolds ==
    /\ \A e, f \in Editors : edits[e].step = "locked" /\ edits[f].step = "locked" => e = f
    /\ \A e \in Editors : edits[e].step = "locked" =>
          /\ cube.alive /\ cube.version = edits[e].expected /\ cube.version < MaxVersion
          /\ Applies(edits[e].change)

CubeInvariant ==
    /\ TypeOK
    /\ LockHolds
    /\ ChangesInvert
    /\ ReferencesKnown

-----------------------------------------------------------------------------
(* The operators *)

\* A line of the list, whatever is left of it.
LEMMA LineType ==
    ASSUME NEW p \in Printings \cup {None}, NEW n \in Nat
    PROVE  Line(p, n) \in Lines /\ Line(p, n).quantity = n
           /\ Line(p, n).printing \in {p, None}
BY DEF Line, Lines, Absent

\* One side of a diff as a list: a line for every delta, and nothing else.
LEMMA AsListType ==
    ASSUME NEW D \in SUBSET [oracle : Oracles, printing : Printings \cup {None}, quantity : Counts]
    PROVE  /\ AsList(D) \in Lists
           /\ \A o \in Oracles : AsList(D)[o].quantity # 0 =>
                 \E d \in D : d.oracle = o /\ d.quantity = AsList(D)[o].quantity
<1>1. ASSUME NEW o \in Oracles
      PROVE  /\ AsList(D)[o] \in Lines
             /\ AsList(D)[o].quantity # 0 =>
                   \E d \in D : d.oracle = o /\ d.quantity = AsList(D)[o].quantity
  <2>1. CASE \E d \in D : d.oracle = o
    <3> DEFINE d == CHOOSE d \in D : d.oracle = o
    <3>1. d \in D /\ d.oracle = o
          BY <2>1
    <3>2. d.printing \in Printings \cup {None} /\ d.quantity \in Nat
          BY <3>1, BoundsAreNat DEF Counts
    <3>3. AsList(D)[o] = Line(d.printing, d.quantity)
          BY <2>1 DEF AsList
    <3> HIDE DEF d
    <3> QED
        BY <3>1, <3>2, <3>3, LineType
  <2>2. CASE ~\E d \in D : d.oracle = o
        BY <2>2 DEF AsList, Absent, Lines
  <2> QED
      BY <2>1, <2>2
<1>2. AsList(D) = [o \in Oracles |-> AsList(D)[o]]
      BY DEF AsList
<1> QED
    BY <1>1, <1>2 DEF Lists

\* Writing a diff adds and removes what it says, and brings no printing that
\* neither the list nor the diff had.
LEMMA ApplyDiffType ==
    ASSUME TypeOK, NEW change \in Changes, Applies(change)
    PROVE  /\ ApplyDiff(list, change) \in Lists
           /\ \A o \in Oracles :
                 /\ ApplyDiff(list, change)[o].quantity =
                       list[o].quantity + change.adds[o].quantity - change.removes[o].quantity
                 /\ ApplyDiff(list, change)[o].printing \in
                       {list[o].printing, change.adds[o].printing, None}
<1> DEFINE added == AddCubeCard(list, change.adds)
<1>1. list \in Lists /\ change.adds \in Lists /\ change.removes \in Lists
      BY DEF TypeOK, Changes
<1>2. ASSUME NEW o \in Oracles
      PROVE  /\ added[o] \in Lines
             /\ added[o].quantity = list[o].quantity + change.adds[o].quantity
             /\ added[o].printing \in {list[o].printing, change.adds[o].printing, None}
  <2>1. /\ list[o].quantity \in Nat /\ change.adds[o].quantity \in Nat
        /\ list[o].printing \in Printings \cup {None}
        /\ change.adds[o].printing \in Printings \cup {None}
        BY <1>1 DEF Lists, Lines
  <2>2. added[o] = Line(IF list[o].quantity > 0 THEN list[o].printing ELSE change.adds[o].printing,
                        list[o].quantity + change.adds[o].quantity)
        BY DEF AddCubeCard
  <2> HIDE DEF added
  <2>3. list[o].quantity + change.adds[o].quantity \in Nat
        BY ONLY <2>1
  <2>4. PICK p \in {list[o].printing, change.adds[o].printing} :
           added[o] = Line(p, list[o].quantity + change.adds[o].quantity)
        BY ONLY <2>2
  <2>5. p \in Printings \cup {None}
        BY ONLY <2>1, <2>4
  <2>6. /\ added[o] \in Lines
        /\ added[o].quantity = list[o].quantity + change.adds[o].quantity
        /\ added[o].printing \in {p, None}
        BY ONLY <2>3, <2>4, <2>5, LineType
  <2> QED
      BY ONLY <2>4, <2>6
<1>3. ASSUME NEW o \in Oracles
      PROVE  /\ ApplyDiff(list, change)[o] \in Lines
             /\ ApplyDiff(list, change)[o].quantity = added[o].quantity - change.removes[o].quantity
             /\ ApplyDiff(list, change)[o].printing \in {added[o].printing, None}
  <2>1. /\ added[o].quantity \in Nat /\ change.removes[o].quantity \in Nat
        /\ list[o].quantity \in Nat /\ change.adds[o].quantity \in Nat
        /\ added[o].printing \in Printings \cup {None}
        BY <1>1, <1>2 DEF Lists, Lines
  <2>2. added[o].quantity - change.removes[o].quantity \in Nat
        BY <1>2, <2>1 DEF Applies
  <2>3. ApplyDiff(list, change)[o] =
            Line(added[o].printing, added[o].quantity - change.removes[o].quantity)
        BY DEF ApplyDiff, RemoveCubeCardQuantity
  <2> QED
      BY ONLY <2>1, <2>2, <2>3, LineType
<1>4. ApplyDiff(list, change) = [o \in Oracles |-> ApplyDiff(list, change)[o]]
      BY DEF ApplyDiff, RemoveCubeCardQuantity
<1> QED
  <2>1. ApplyDiff(list, change) \in Lists
        BY <1>3, <1>4 DEF Lists
  <2>2. ASSUME NEW o \in Oracles
        PROVE  /\ ApplyDiff(list, change)[o].quantity =
                     list[o].quantity + change.adds[o].quantity - change.removes[o].quantity
               /\ ApplyDiff(list, change)[o].printing \in
                     {list[o].printing, change.adds[o].printing, None}
    <3>1. /\ list[o].quantity \in Nat /\ change.adds[o].quantity \in Nat
          /\ change.removes[o].quantity \in Nat
          BY <1>1 DEF Lists, Lines
    <3> HIDE DEF added
    <3>2. /\ added[o].quantity = list[o].quantity + change.adds[o].quantity
          /\ added[o].printing \in {list[o].printing, change.adds[o].printing, None}
          BY <1>2
    <3>3. /\ ApplyDiff(list, change)[o].quantity = added[o].quantity - change.removes[o].quantity
          /\ ApplyDiff(list, change)[o].printing \in {added[o].printing, None}
          BY <1>3
    <3> QED
        BY ONLY <3>1, <3>2, <3>3
  <2> QED
      BY <2>1, <2>2

\* What a call in progress is follows from its step.
LEMMA EditTypes ==
    ASSUME TypeOK, NEW e \in Editors
    PROVE  /\ edits[e].step = "resolved" => edits[e] \in Request
           /\ edits[e].step = "locked" => edits[e] \in Locked
           /\ edits[e].step = "swap" => edits[e] \in Swap
BY DEF TypeOK, Idle, Request, Locked, Swap

\* A new call of one editor leaves the others' calls what they were.
LEMMA WriteTypes ==
    ASSUME TypeOK, NEW e \in Editors, NEW next \in {Idle} \cup Request \cup Locked \cup Swap,
           Write(e, next)
    PROVE  /\ edits' \in [Editors -> {Idle} \cup Request \cup Locked \cup Swap]
           /\ edits'[e] = next
           /\ \A f \in Editors \ {e} : edits'[f] = edits[f]
BY DEF TypeOK, Write

-----------------------------------------------------------------------------
(* The steps *)

\* The initial state: an empty cube over any catalogue.
LEMMA InitHolds == Init => CubeInvariant
<1> SUFFICES ASSUME Init PROVE CubeInvariant
    OBVIOUS
<1> USE DEF Init
<1>1. list \in Lists /\ \A o \in Oracles : list[o].printing = None /\ list[o].quantity = 0
      BY DEF Lists, Lines, Empty, Absent
<1>2. Quantities(Empty) \in [Oracles -> Nat] /\ Quantities(Empty) = Quantities(list)
      BY DEF Quantities, Empty, Absent
<1>3. TypeOK
  <2>1. cube \in [alive : BOOLEAN, version : 0..MaxVersion]
        BY BoundsAreNat
  <2>2. edits \in [Editors -> {Idle} \cup Request \cup Locked \cup Swap]
        OBVIOUS
  <2>3. changes \in Seq(Changes) /\ past \in Seq([Oracles -> Nat])
        BY <1>2
  <2> QED
      BY <1>1, <2>1, <2>2, <2>3 DEF TypeOK
<1>4. LockHolds
      BY DEF LockHolds, Idle
<1>5. ChangesInvert
      BY <1>2 DEF ChangesInvert
<1>6. ReferencesKnown
      BY <1>1 DEF ReferencesKnown, References, PrintingsOf
<1> QED
    BY <1>3, <1>4, <1>5, <1>6 DEF CubeInvariant

\* The cube goes, with everything but the calls that wait for it.
LEMMA DeleteStep == ASSUME CubeInvariant, Delete PROVE CubeInvariant'
<1> USE DEF CubeInvariant, Delete
<1>1. list' \in Lists /\ \A o \in Oracles : list'[o].printing = None
      BY DEF Lists, Lines, Empty, Absent
<1>2. TypeOK'
  <2>1. cube' \in [alive : BOOLEAN, version : 0..MaxVersion]
        BY DEF TypeOK
  <2>2. changes' \in Seq(Changes) /\ past' \in Seq([Oracles -> Nat])
        OBVIOUS
  <2> QED
      BY <1>1, <2>1, <2>2 DEF TypeOK
<1>3. LockHolds'
      BY DEF LockHolds, CubeLocked
<1>4. ChangesInvert'
      BY DEF ChangesInvert, TypeOK
<1>5. ReferencesKnown'
      BY <1>1 DEF ReferencesKnown, References, PrintingsOf
<1> QED
    BY <1>2, <1>3, <1>4, <1>5

\* A step that only moves a call on, and locks none, keeps the invariant.
LEMMA CallStep ==
    ASSUME CubeInvariant, NEW e \in Editors,
           NEW next \in {Idle} \cup Request \cup Swap, Write(e, next),
           UNCHANGED <<cube, list, changes, oracleOf, past>>
    PROVE  CubeInvariant'
<1> USE DEF CubeInvariant
<1>1. /\ edits' \in [Editors -> {Idle} \cup Request \cup Locked \cup Swap]
      /\ edits'[e] = next
      /\ \A f \in Editors \ {e} : edits'[f] = edits[f]
      BY WriteTypes
<1>2. next.step # "locked"
      BY DEF Idle, Request, Swap
<1>3. TypeOK'
      BY <1>1 DEF TypeOK
<1>4. LockHolds'
      BY <1>1, <1>2 DEF LockHolds, Applies
<1>5. ChangesInvert' /\ ReferencesKnown'
      BY DEF ChangesInvert, Quantities, ReferencesKnown, References, Known
<1> QED
    BY <1>3, <1>4, <1>5

\* The printings of an edit are resolved to cards of the catalogue.
LEMMA ResolveStep ==
    ASSUME CubeInvariant, NEW e \in Editors, NEW adds \in Sides(Printings),
           NEW removes \in Sides(Oracles), Resolve(e, adds, removes)
    PROVE  CubeInvariant'
<1> DEFINE A == {[oracle |-> oracleOf[p], printing |-> p, quantity |-> adds[p]] : p \in DOMAIN adds}
           R == {[oracle |-> o, quantity |-> removes[o]] : o \in DOMAIN removes}
           next == [step |-> "resolved", expected |-> cube.version, adds |-> A, removes |-> R]
<1>1. ASSUME NEW p \in DOMAIN adds
      PROVE  p \in Printings /\ adds[p] \in Counts /\ oracleOf[p] \in Oracles
      BY DEF Sides, Resolve, Known, CubeInvariant, TypeOK
<1>2. ASSUME NEW o \in DOMAIN removes
      PROVE  o \in Oracles /\ removes[o] \in Counts
      BY DEF Sides
<1>3. A \in SUBSET Deltas
      BY <1>1 DEF Deltas
<1>4. R \in SUBSET [oracle : Oracles, quantity : Counts]
      BY <1>2
<1>5. Write(e, next) /\ UNCHANGED <<cube, list, changes, oracleOf, past>>
      BY DEF Resolve
<1>6. next \in Request
  <2> HIDE DEF A, R
  <2>1. cube.version \in 0..MaxVersion
        BY DEF CubeInvariant, TypeOK
  <2> QED
      BY <1>3, <1>4, <2>1 DEF Request
<1> HIDE DEF next
<1> QED
    BY <1>5, <1>6, CallStep

\* The lock is taken by one edit at a time, on the version and the list that
\* its author has seen.
LEMMA LockStep ==
    ASSUME CubeInvariant, NEW e \in Editors, LockAndCheck(e)
    PROVE  CubeInvariant'
<1> DEFINE call == edits[e]
           R == RemoveDeltas(call.removes)
           change == [adds |-> AsList(call.adds), removes |-> AsList(R)]
           next == [step |-> "locked", expected |-> call.expected, change |-> change]
<1>1. call \in Request
      BY EditTypes DEF LockAndCheck, CubeInvariant
<1>2. call.adds \in SUBSET Deltas /\ call.removes \in SUBSET [oracle : Oracles, quantity : Counts]
      BY <1>1 DEF Request
<1>3. Write(e, next) /\ UNCHANGED <<cube, list, changes, oracleOf, past>>
      BY DEF LockAndCheck
<1>4. /\ cube.alive /\ cube.version = call.expected
      /\ cube.version < MaxVersion
      /\ ValidateDiff(list, call.adds, call.removes)
      /\ ~CubeLocked
      BY DEF LockAndCheck, Accepts
<1>5. call.adds \in SUBSET [oracle : Oracles, printing : Printings \cup {None}, quantity : Counts]
      BY <1>2 DEF Deltas
<1>6. R \in SUBSET [oracle : Oracles, printing : Printings \cup {None}, quantity : Counts]
      BY <1>2 DEF RemoveDeltas, CubeInvariant, TypeOK, Lists, Lines
<1>7. ASSUME NEW d \in R
      PROVE  \E r \in call.removes : r.oracle = d.oracle /\ r.quantity = d.quantity
      BY <1>7 DEF RemoveDeltas
<1>8. change \in Changes
      BY <1>5, <1>6, AsListType DEF Changes
<1>9. Applies(change)
  <2> SUFFICES ASSUME NEW o \in Oracles
               PROVE  /\ change.adds[o].quantity = 0 \/ change.removes[o].quantity = 0
                      /\ change.removes[o].quantity <= list[o].quantity
      BY DEF Applies
  <2>1. change.adds[o].quantity # 0 => \E d \in call.adds : d.oracle = o
        BY <1>5, AsListType
  <2>2. change.removes[o].quantity # 0 =>
            \E d \in R : d.oracle = o /\ d.quantity = change.removes[o].quantity
        BY <1>6, AsListType
  <2>3. list[o].quantity \in Nat
        BY DEF CubeInvariant, TypeOK, Lists, Lines
  <2> HIDE DEF change, R
  <2>4. change.removes[o].quantity # 0 =>
            \E r \in call.removes : r.oracle = o /\ r.quantity = change.removes[o].quantity
        BY <2>2, <1>7
  <2> HIDE DEF call
  <2> QED
      BY <2>1, <2>3, <2>4, <1>4 DEF ValidateDiff
<1>10. next \in Locked
  <2> HIDE DEF change
  <2>1. call.expected \in 0..MaxVersion
        BY <1>1 DEF Request
  <2> QED
      BY <1>8, <2>1 DEF Locked
<1>11. /\ edits' \in [Editors -> {Idle} \cup Request \cup Locked \cup Swap]
       /\ edits'[e] = next
       /\ \A f \in Editors \ {e} : edits'[f] = edits[f]
       BY <1>3, <1>10, WriteTypes DEF CubeInvariant
<1>12. TypeOK'
       BY <1>3, <1>11 DEF TypeOK, CubeInvariant
<1>13. LockHolds'
  <2>1. \A f \in Editors \ {e} : edits'[f].step # "locked"
        BY <1>4, <1>11 DEF CubeLocked
  <2>2. edits'[e].expected = cube.version /\ edits'[e].change = change
        BY <1>4, <1>11
  <2>3. Applies(edits[e].change)'
    <3> HIDE DEF change
    <3> QED
        BY <1>3, <1>9, <2>2 DEF Applies
  <2> QED
      BY <1>3, <1>4, <2>1, <2>2, <2>3 DEF LockHolds
<1>14. ChangesInvert' /\ ReferencesKnown'
       BY <1>3 DEF CubeInvariant, ChangesInvert, Quantities, ReferencesKnown, References, Known
<1> QED
    BY <1>12, <1>13, <1>14 DEF CubeInvariant

\* The edit is written: the list is what its author saw with his changes, and
\* the changelog takes it back again.
LEMMA CommitStep ==
    ASSUME CubeInvariant, NEW e \in Editors, Commit(e)
    PROVE  CubeInvariant'
<1> DEFINE change == edits[e].change
           now == ApplyDiff(list, change)
<1>1. edits[e] \in Locked /\ cube.alive /\ cube.version < MaxVersion /\ Applies(change)
      BY EditTypes DEF Commit, CubeInvariant, LockHolds
<1>2. change \in Changes
      BY <1>1 DEF Locked
<1>3. /\ list' = now /\ changes' = Append(changes, change)
      /\ cube' = [cube EXCEPT !.version = @ + 1]
      /\ past' = Append(past, Quantities(list'))
      /\ Write(e, Idle) /\ oracleOf' = oracleOf
      BY DEF Commit
<1>4. /\ edits' \in [Editors -> {Idle} \cup Request \cup Locked \cup Swap]
      /\ edits'[e] = Idle
      /\ \A f \in Editors \ {e} : edits'[f] = edits[f]
      BY <1>3, WriteTypes DEF CubeInvariant
<1>5. /\ now \in Lists
      /\ \A o \in Oracles :
            /\ now[o].quantity = list[o].quantity + change.adds[o].quantity - change.removes[o].quantity
            /\ now[o].printing \in {list[o].printing, change.adds[o].printing, None}
      BY <1>1, <1>2, ApplyDiffType DEF CubeInvariant
<1> HIDE DEF now
<1>6. \A o \in Oracles :
         /\ list[o].quantity \in Nat /\ change.adds[o].quantity \in Nat
         /\ change.removes[o].quantity \in Nat
      BY <1>2 DEF CubeInvariant, TypeOK, Lists, Lines, Changes
<1>7. Quantities(list') \in [Oracles -> Nat]
      BY <1>3, <1>5 DEF Quantities, Lists, Lines
<1>8. /\ Len(past) = cube.version + 1 /\ Len(changes) = cube.version
      /\ past[cube.version + 1] = Quantities(list)
      /\ cube.version \in Nat /\ cube.version \in 0..MaxVersion
      /\ past \in Seq([Oracles -> Nat]) /\ changes \in Seq(Changes)
      BY <1>1, BoundsAreNat DEF CubeInvariant, TypeOK, ChangesInvert
<1>9. cube'.version = cube.version + 1 /\ cube'.alive = cube.alive
      BY <1>3 DEF CubeInvariant, TypeOK
<1>10. TypeOK'
  <2>1. cube' \in [alive : BOOLEAN, version : 0..MaxVersion]
    <3>1. cube \in [alive : BOOLEAN, version : 0..MaxVersion]
          BY DEF CubeInvariant, TypeOK
    <3>2. cube.version + 1 \in 0..MaxVersion
          BY ONLY <1>1, <1>8, BoundsAreNat
    <3>3. cube' = [cube EXCEPT !.version = cube.version + 1]
          BY ONLY <1>3
    <3> QED
        BY ONLY <3>1, <3>2, <3>3
  <2>2. changes' \in Seq(Changes)
        BY <1>2, <1>3, <1>8
  <2>3. past' \in Seq([Oracles -> Nat])
        BY <1>3, <1>7, <1>8
  <2> QED
      BY <1>3, <1>4, <1>5, <2>1, <2>2, <2>3 DEF TypeOK, CubeInvariant
<1>11. LockHolds'
  <2>1. \A f \in Editors : edits'[f].step # "locked"
        BY <1>4 DEF Idle, CubeInvariant, LockHolds, Commit
  <2> QED
      BY <2>1 DEF LockHolds
<1>12. ChangesInvert'
  <2>1. Len(past') = cube'.version + 1 /\ Len(changes') = cube'.version
        BY <1>3, <1>8, <1>9
  <2>2. past'[cube'.version + 1] = Quantities(list)'
        BY <1>3, <1>8, <1>9
  <2>3. ASSUME NEW v \in 1..cube'.version, NEW o \in Oracles
        PROVE  past'[v][o] = Minus(past'[v + 1][o], changes'[v].adds[o].quantity)
                                + changes'[v].removes[o].quantity
    <3>1. CASE v = cube'.version
      <4>1. /\ past'[v] = Quantities(list)
            /\ past'[v + 1] = Quantities(now)
            /\ changes'[v] = change
        <5>1. v = cube.version + 1 /\ v = Len(past) /\ v + 1 = Len(past) + 1
              /\ v = Len(changes) + 1 /\ v \in Nat
              BY ONLY <3>1, <1>8, <1>9
        <5>2. past'[v] = past[v] /\ past'[v + 1] = Quantities(list')
              BY ONLY <5>1, <1>3, <1>8
        <5>3. changes'[v] = change
              BY ONLY <5>1, <1>3, <1>8
        <5> QED
            BY <5>1, <5>2, <5>3, <1>3, <1>8
      <4>2. past'[v][o] = list[o].quantity /\ past'[v + 1][o] = now[o].quantity
            BY <4>1 DEF Quantities
      <4>3. change.adds[o].quantity = 0 \/ change.removes[o].quantity = 0
            BY <1>1 DEF Applies
      <4>4. change.removes[o].quantity <= list[o].quantity
            BY <1>1 DEF Applies
      <4> HIDE DEF change
      <4> QED
          BY <4>1, <4>2, <4>3, <4>4, <1>5, <1>6 DEF Minus
    <3>2. CASE v # cube'.version
      <4>1. v \in 1..cube.version
            BY <3>2, <1>8, <1>9
      <4>2. /\ past' = Append(past, Quantities(list')) /\ past \in Seq([Oracles -> Nat])
            /\ changes' = Append(changes, change) /\ changes \in Seq(Changes)
            /\ v \in 1..Len(past) /\ v + 1 \in 1..Len(past) /\ v \in 1..Len(changes)
            BY ONLY <4>1, <1>3, <1>8
      <4>3. past'[v] = past[v] /\ past'[v + 1] = past[v + 1]
            BY ONLY <4>2
      <4>4. changes'[v] = changes[v]
            BY ONLY <4>2
      <4> QED
          BY <4>1, <4>3, <4>4, <1>1 DEF CubeInvariant, ChangesInvert
    <3> QED
        BY <3>1, <3>2
  <2> QED
      BY <2>1, <2>2, <2>3 DEF ChangesInvert
<1>13. ReferencesKnown'
  <2>1. PrintingsOf(list') \subseteq PrintingsOf(list) \cup PrintingsOf(change.adds)
        BY <1>3, <1>5 DEF PrintingsOf
  <2>2. PrintingsOf(change.adds) \subseteq Known /\ PrintingsOf(change.removes) \subseteq Known
        BY DEF Commit, ItemsResolve
  <2>3. ASSUME NEW i \in 1..Len(changes')
        PROVE  PrintingsOf(changes'[i].adds) \cup PrintingsOf(changes'[i].removes) \subseteq Known
    <3>1. CASE i = Len(changes) + 1
          BY <3>1, <2>2, <1>3, <1>8
    <3>2. CASE i # Len(changes) + 1
      <4>1. i \in 1..Len(changes) /\ changes'[i] = changes[i]
            BY <3>2, <1>3, <1>8
      <4> QED
          BY <4>1 DEF CubeInvariant, ReferencesKnown, References
    <3> QED
        BY <3>1, <3>2
  <2>4. PrintingsOf(list) \subseteq Known /\ Known' = Known
        BY <1>3 DEF CubeInvariant, ReferencesKnown, References, Known
  <2> QED
      BY <2>1, <2>2, <2>3, <2>4 DEF ReferencesKnown, References, PrintingsOf
<1> QED
    BY <1>10, <1>11, <1>12, <1>13 DEF CubeInvariant

\* A swap, at whatever time it is written, exchanges a printing of a card and
\* changes no quantity: a locked edit still applies.
LEMMA SwapStep ==
    ASSUME CubeInvariant, NEW e \in Editors, SwapWrite(e)
    PROVE  CubeInvariant'
<1> DEFINE o == edits[e].oracle
           p == edits[e].printing
<1>1. o \in Oracles /\ p \in Printings
      BY EditTypes DEF SwapWrite, CubeInvariant, Swap
<1>2. /\ list' = IF list[o].quantity > 0 /\ p \in Known THEN [list EXCEPT ![o].printing = p] ELSE list
      /\ Write(e, Idle) /\ UNCHANGED <<cube, changes, oracleOf, past>>
      BY DEF SwapWrite
<1> HIDE DEF o, p
<1>3. /\ list \in Lists /\ list' \in Lists
      /\ \A u \in Oracles : list'[u].quantity = list[u].quantity
      /\ \A u \in Oracles : list'[u].printing = list[u].printing \/ list'[u].printing \in Known
  <2>1. list \in Lists
        BY DEF CubeInvariant, TypeOK
  <2>2. CASE list' = list
        BY <2>1, <2>2
  <2>3. CASE list' = [list EXCEPT ![o].printing = p] /\ p \in Known
        BY <1>1, <2>1, <2>3 DEF Lists, Lines
  <2> QED
      BY <1>2, <2>1, <2>2, <2>3
<1>4. /\ edits' \in [Editors -> {Idle} \cup Request \cup Locked \cup Swap]
      /\ edits'[e] = Idle
      /\ \A f \in Editors \ {e} : edits'[f] = edits[f]
      BY <1>2, WriteTypes DEF CubeInvariant
<1>5. TypeOK'
      BY <1>2, <1>3, <1>4 DEF CubeInvariant, TypeOK
<1>6. LockHolds'
  <2>1. \A f \in Editors : edits'[f].step = "locked" => f # e /\ edits'[f] = edits[f]
        BY <1>4 DEF Idle
  <2> QED
      BY <2>1, <1>2, <1>3 DEF CubeInvariant, LockHolds, Applies
<1>7. ChangesInvert'
  <2>1. Quantities(list') = Quantities(list)
        BY <1>3 DEF Quantities
  <2> QED
      BY <2>1, <1>2 DEF CubeInvariant, ChangesInvert, Quantities
<1>8. ReferencesKnown'
  <2>1. Known' = Known
        BY <1>2 DEF Known
  <2>2. PrintingsOf(list') \subseteq PrintingsOf(list) \cup Known
        BY <1>3 DEF PrintingsOf
  <2> QED
      BY <2>1, <2>2, <1>2 DEF CubeInvariant, ReferencesKnown, References, PrintingsOf
<1> QED
    BY <1>5, <1>6, <1>7, <1>8 DEF CubeInvariant

\* A printing leaves the catalogue only if no row of the cube names it.
LEMMA SyncStep ==
    ASSUME CubeInvariant, NEW p \in Printings, NEW o \in Oracles \cup {None}, Sync(p, o)
    PROVE  CubeInvariant'
<1> USE DEF CubeInvariant, Sync
<1>1. TypeOK'
      BY DEF TypeOK
<1>2. LockHolds' /\ ChangesInvert'
      BY DEF LockHolds, Applies, ChangesInvert, Quantities
<1>3. ReferencesKnown'
  <2>1. Known \ {p} \subseteq Known' /\ (o # None => Known \subseteq Known')
        BY DEF Known, TypeOK
  <2>2. References' = References
        BY DEF References, PrintingsOf
  <2> QED
      BY <2>1, <2>2 DEF ReferencesKnown
<1> QED
    BY <1>1, <1>2, <1>3

\* The invariant is inductive.
LEMMA InvariantHolds == Spec => []CubeInvariant
<1>1. CubeInvariant /\ [Next]_vars => CubeInvariant'
  <2> SUFFICES ASSUME CubeInvariant, [Next]_vars
               PROVE  CubeInvariant'
      OBVIOUS
  <2>1. CASE Delete
        BY <2>1, DeleteStep
  <2>2. ASSUME NEW e \in Editors, NEW adds \in Sides(Printings), NEW removes \in Sides(Oracles),
               Resolve(e, adds, removes)
        PROVE  CubeInvariant'
        BY <2>2, ResolveStep
  <2>3. ASSUME NEW e \in Editors, LockAndCheck(e)
        PROVE  CubeInvariant'
        BY <2>3, LockStep
  <2>4. ASSUME NEW e \in Editors, Refuse(e) \/ CommitFails(e)
        PROVE  CubeInvariant'
        BY <2>4, CallStep DEF Refuse, CommitFails
  <2>5. ASSUME NEW e \in Editors, Commit(e)
        PROVE  CubeInvariant'
        BY <2>5, CommitStep
  <2>6. ASSUME NEW e \in Editors, NEW o \in Oracles, NEW p \in Printings, SwapRead(e, o, p)
        PROVE  CubeInvariant'
    <3>1. [step |-> "swap", oracle |-> o, printing |-> p] \in Swap
          BY DEF Swap
    <3> QED
        BY <2>6, <3>1, CallStep DEF SwapRead
  <2>7. ASSUME NEW e \in Editors, SwapWrite(e)
        PROVE  CubeInvariant'
        BY <2>7, SwapStep
  <2>8. ASSUME NEW p \in Printings, NEW o \in Oracles \cup {None}, Sync(p, o)
        PROVE  CubeInvariant'
        BY <2>8, SyncStep
  <2>9. CASE UNCHANGED vars
        BY <2>9 DEF vars, CubeInvariant, TypeOK, LockHolds, Applies, ChangesInvert, Quantities,
                    ReferencesKnown, References, PrintingsOf, Known
  <2> QED
      BY <2>1, <2>2, <2>3, <2>4, <2>5, <2>6, <2>7, <2>8, <2>9 DEF Next
<1> QED
    BY InitHolds, <1>1, PTL DEF Spec

-----------------------------------------------------------------------------
(* The theorems *)

\* The rows, the calls in progress and the history have their types: no
\* quantity is ever negative (service.go, replay.go).
THEOREM TypeCorrect == Spec => []TypeOK
BY InvariantHolds, PTL DEF CubeInvariant

\* Every change inverts to the version before it, through any number of swaps:
\* what ReplayBackwards rests on.
THEOREM ChangesAlwaysInvert == Spec => []ChangesInvert
BY InvariantHolds, PTL DEF CubeInvariant

\* No row of a cube names a card that the catalogue lost (importBulk beside
\* ApplyChange and ChangePrinting).
THEOREM ReferencesAreKnown == Spec => []ReferencesKnown
BY InvariantHolds, PTL DEF CubeInvariant

-----------------------------------------------------------------------------
(* The replay *)

\* A set of naturals has a least element: what stands in for induction below.
LEMMA LeastNatural ==
    ASSUME NEW T \in SUBSET Nat, T # {}
    PROVE  \E n \in T : \A m \in T : n <= m
<1>1. PICK n \in T : \A m \in T : <<m, n>> \notin OpToRel(<, Nat)
      BY NatLessThanWellFounded, WFMin
<1>2. \A m \in T : ~(m < n)
      BY <1>1 DEF OpToRel
<1> QED
      BY <1>2

LEMMA InvertType ==
    ASSUME NEW l \in Lists, NEW change \in Changes
    PROVE  /\ Invert(l, change) \in Lists
           /\ \A o \in Oracles :
                 /\ Invert(l, change)[o].quantity =
                       Minus(l[o].quantity, change.adds[o].quantity) + change.removes[o].quantity
                 /\ Invert(l, change)[o].printing \in
                       {l[o].printing, change.removes[o].printing, None}
<1>1. ASSUME NEW o \in Oracles
      PROVE  /\ Invert(l, change)[o] \in Lines
             /\ Invert(l, change)[o].quantity =
                   Minus(l[o].quantity, change.adds[o].quantity) + change.removes[o].quantity
             /\ Invert(l, change)[o].printing \in
                   {l[o].printing, change.removes[o].printing, None}
  <2> DEFINE kept == Minus(l[o].quantity, change.adds[o].quantity)
             p == IF kept > 0 THEN l[o].printing ELSE change.removes[o].printing
  <2>1. /\ l[o].quantity \in Nat /\ change.adds[o].quantity \in Nat
        /\ change.removes[o].quantity \in Nat
        /\ l[o].printing \in Printings \cup {None}
        /\ change.removes[o].printing \in Printings \cup {None}
        BY DEF Changes, Lists, Lines
  <2>2. kept + change.removes[o].quantity \in Nat /\ p \in Printings \cup {None}
        BY <2>1 DEF Minus
  <2>3. Invert(l, change)[o] = Line(p, kept + change.removes[o].quantity)
        BY DEF Invert
  <2> QED
        BY <2>2, <2>3, LineType
<1> QED
    BY <1>1 DEF Invert, Lists

\* The replay that ends with l after the changes in log, from version t on.
Replay(g, l, log, t) ==
    g = [v \in t..Len(log) |-> IF v = Len(log) THEN l ELSE Invert(g[v + 1], log[v + 1])]

\* The recursion of ReplayBackwards has a solution: a replay from t + 1 is
\* continued to t, and there is one from the end.
LEMMA ReplayExists ==
    ASSUME NEW l, NEW log \in Seq(Changes), NEW t \in 0..Len(log)
    PROVE  \E g : Replay(g, l, log, t)
<1> DEFINE N == Len(log)
           T == {k \in 0..N : ~ \E g : Replay(g, l, log, N - k)}
<1>0. N \in Nat
      OBVIOUS
<1>1. SUFFICES ASSUME T # {}
               PROVE  FALSE
      <2>1. N - t \in 0..N /\ N - (N - t) = t
            BY <1>0
      <2> QED
            BY <2>1
<1>2. PICK k \in T : \A m \in T : k <= m
  <2>1. T \in SUBSET Nat
        BY <1>0
  <2> HIDE DEF T
  <2> QED
        BY <1>1, <2>1, LeastNatural
<1>3. k \in 0..N /\ ~ \E g : Replay(g, l, log, N - k)
      OBVIOUS
<1>4. CASE k = 0
  <2> DEFINE g == [v \in N..N |-> l]
  <2>1. Replay(g, l, log, N)
        BY <1>0 DEF Replay
  <2> QED
        BY <1>0, <1>3, <1>4, <2>1
<1>5. CASE k # 0
  <2> DEFINE s == N - k
  <2>1. k - 1 \in 0..N /\ k - 1 \notin T /\ N - (k - 1) = s + 1
        BY <1>0, <1>2, <1>3, <1>5
  <2>2. PICK g : Replay(g, l, log, s + 1)
        BY <2>1
  <2> DEFINE h == [v \in s..N |-> IF v = s THEN Invert(g[s + 1], log[s + 1]) ELSE g[v]]
  <2>3. s \in 0..(N - 1)
        BY <1>0, <1>3, <1>5
  <2>4. ASSUME NEW v \in s..N
        PROVE  h[v] = IF v = N THEN l ELSE Invert(h[v + 1], log[v + 1])
    <3>1. CASE v = s
          BY <1>0, <2>3, <3>1
    <3>2. CASE v # s
      <4>1. v \in (s + 1)..N /\ (v # N => v + 1 \in (s + 1)..N)
            BY <1>0, <2>3, <3>2
      <4>2. g[v] = IF v = N THEN l ELSE Invert(g[v + 1], log[v + 1])
            BY <2>2, <4>1 DEF Replay
      <4>3. h[v] = g[v] /\ (v # N => h[v + 1] = g[v + 1])
            BY <1>0, <2>3, <3>2, <4>1
      <4> QED
            BY <4>2, <4>3
    <3> QED
          BY <3>1, <3>2
  <2>5. Replay(h, l, log, s)
        BY <2>4 DEF Replay
  <2> QED
        BY <1>3, <2>5
<1> QED
      BY <1>4, <1>5

LEMMA ReplayBackwardsIs ==
    ASSUME NEW l, NEW log \in Seq(Changes), NEW t \in 0..Len(log)
    PROVE  \E g : Replay(g, l, log, t) /\ ReplayBackwards(l, log, t) = g[t]
<1> DEFINE at == CHOOSE g : Replay(g, l, log, t)
<1>1. Replay(at, l, log, t)
      BY ReplayExists
<1>2. ReplayBackwards(l, log, t) = at[t]
      BY DEF ReplayBackwards, Replay
<1> QED
      BY <1>1, <1>2

\* What a replay from the list has at every version: the quantities of that
\* version, and no printing that the list and the changelog do not name.
ReplayedWell(g, v) ==
    /\ g[v] \in Lists
    /\ Quantities(g[v]) = past[v + 1]
    /\ PrintingsOf(g[v]) \subseteq References

LEMMA ReplayGoesWell ==
    ASSUME TypeOK, ChangesInvert, cube.alive, NEW t \in 0..cube.version,
           NEW g, Replay(g, list, changes, t)
    PROVE  ReplayedWell(g, t)
<1> DEFINE N == cube.version
           T == {k \in 0..(N - t) : ~ReplayedWell(g, N - k)}
<1>0. /\ N \in Nat /\ Len(changes) = N /\ changes \in Seq(Changes) /\ list \in Lists
      /\ past[N + 1] = Quantities(list)
      BY BoundsAreNat DEF TypeOK, ChangesInvert
<1>1. SUFFICES ASSUME T # {}
               PROVE  FALSE
  <2>1. N - t \in 0..(N - t) /\ N - (N - t) = t
        BY <1>0
  <2> QED
        BY <2>1
<1>2. PICK k \in T : \A m \in T : k <= m
  <2>1. T \in SUBSET Nat
        BY <1>0
  <2> HIDE DEF T
  <2> QED
        BY <1>1, <2>1, LeastNatural
<1>3. k \in 0..(N - t) /\ ~ReplayedWell(g, N - k)
      OBVIOUS
<1> DEFINE v == N - k
<1>4. v \in t..N /\ v \in Nat
      BY <1>0, <1>3
<1>5. g[v] = IF v = N THEN list ELSE Invert(g[v + 1], changes[v + 1])
      BY <1>0, <1>4 DEF Replay
<1>6. CASE v = N
      BY <1>0, <1>3, <1>5, <1>6 DEF ReplayedWell, References
<1>7. CASE v # N
  <2>1. k - 1 \in 0..(N - t) /\ k - 1 \notin T /\ N - (k - 1) = v + 1 /\ v + 1 \in 1..N
        BY <1>0, <1>2, <1>3, <1>4, <1>7
  <2>2. /\ g[v + 1] \in Lists /\ Quantities(g[v + 1]) = past[v + 2]
        /\ PrintingsOf(g[v + 1]) \subseteq References
        BY <1>4, <2>1 DEF ReplayedWell
  <2> DEFINE c == changes[v + 1]
  <2>3. c \in Changes /\ g[v] = Invert(g[v + 1], c)
        BY <1>0, <1>5, <1>7, <2>1
  <2>4. /\ g[v] \in Lists
        /\ \A o \in Oracles :
              /\ g[v][o].quantity =
                    Minus(g[v + 1][o].quantity, c.adds[o].quantity) + c.removes[o].quantity
              /\ g[v][o].printing \in {g[v + 1][o].printing, c.removes[o].printing, None}
    <3> HIDE DEF c, v
    <3> QED
        BY <2>2, <2>3, InvertType
  <2>5. \A o \in Oracles : g[v + 1][o].quantity = past[v + 2][o]
        BY <2>2 DEF Quantities
  <2>6. \A o \in Oracles : past[v + 1][o] =
            Minus(past[v + 2][o], c.adds[o].quantity) + c.removes[o].quantity
    <3>1. v + 1 \in 1..cube.version /\ (v + 1) + 1 = v + 2
          BY <1>0, <1>4, <2>1
    <3> HIDE DEF v
    <3> QED
        BY <3>1 DEF ChangesInvert
  <2>7. past[v + 1] \in [Oracles -> Nat]
    <3>1. v + 1 \in 1..Len(past) /\ past \in Seq([Oracles -> Nat])
          BY <1>0, <1>4 DEF TypeOK, ChangesInvert
    <3> HIDE DEF v
    <3> QED
        BY <3>1
  <2>8. Quantities(g[v]) = past[v + 1]
        BY <2>4, <2>5, <2>6, <2>7 DEF Quantities
  <2>9. PrintingsOf(g[v]) \subseteq References
    <3>1. PrintingsOf(c.removes) \subseteq References
          BY <1>0, <2>1 DEF References
    <3> QED
          BY <2>2, <2>4, <3>1 DEF PrintingsOf
  <2> QED
        BY <1>3, <2>4, <2>8, <2>9 DEF ReplayedWell
<1> QED
      BY <1>6, <1>7

LEMMA EveryVersionWell ==
    ASSUME TypeOK, ChangesInvert, cube.alive, NEW v \in 0..cube.version
    PROVE  /\ Quantities(CardsAt(v)) = past[v + 1]
           /\ PrintingsOf(CardsAt(v)) \subseteq References
<1>1. CASE v = cube.version
      BY <1>1 DEF CardsAt, ChangesInvert, References
<1>2. CASE v # cube.version
  <2>1. changes \in Seq(Changes) /\ v \in 0..Len(changes)
        BY DEF TypeOK, ChangesInvert
  <2>2. PICK g : Replay(g, list, changes, v) /\ ReplayBackwards(list, changes, v) = g[v]
        BY <2>1, ReplayBackwardsIs
  <2>3. CardsAt(v) = g[v]
        BY <1>2, <2>2 DEF CardsAt
  <2> QED
        BY <2>2, <2>3, ReplayGoesWell DEF ReplayedWell
<1> QED
      BY <1>1, <1>2

\* GetCards of any version of a cube returns the quantities that the cube had
\* at that version: whatever was edited, swapped and synchronised since, for a
\* changelog of any length.
THEOREM ReplayShowsHistory == Spec => []ReplayIsHistory
<1>1. CubeInvariant => ReplayIsHistory
      BY EveryVersionWell DEF CubeInvariant, ReplayIsHistory
<1> QED
      BY <1>1, InvariantHolds, PTL

\* GetCards of a past version meets no card that the catalogue lost.
THEOREM PastCardsAreKnown == Spec => []PastCardsKnown
<1>1. CubeInvariant => PastCardsKnown
      BY EveryVersionWell DEF CubeInvariant, PastCardsKnown, ReferencesKnown
<1> QED
      BY <1>1, InvariantHolds, PTL

\* No edit is lost or applied to a list its author did not see (ApplyChange).
THEOREM EditsApply == Spec => EditsApplyToWhatWasSeen
<1> DEFINE Seen(e) == edits[e].step = "locked" /\ changes' # changes /\ edits'[e] = Idle =>
          /\ past'[cube'.version + 1] =
                [o \in Oracles |-> past[edits[e].expected + 1][o]
                    + edits[e].change.adds[o].quantity - edits[e].change.removes[o].quantity]
          /\ cube'.version = edits[e].expected + 1
<1>1. CubeInvariant /\ [Next]_vars => [\A e \in Editors : Seen(e)]_vars
  <2> SUFFICES ASSUME CubeInvariant, Next, NEW e \in Editors,
                      edits[e].step = "locked", changes' # changes, edits'[e] = Idle
               PROVE  Seen(e)
      OBVIOUS
  <2> DEFINE change == edits[e].change
  <2>1. edits[e] \in Locked /\ cube.alive /\ cube.version = edits[e].expected /\ Applies(change)
        BY EditTypes DEF CubeInvariant, LockHolds
  <2>2. PICK f \in Editors : Commit(f)
    <3>1. ~Delete
          BY DEF Delete, Idle
    <3> QED
        BY <3>1
        DEF Next, Resolve, LockAndCheck, Refuse, CommitFails, SwapRead, SwapWrite, Sync
  <2>3. f = e
        BY <2>2 DEF Commit, CubeInvariant, LockHolds
  <2>4. change \in Changes
        BY <2>1 DEF Locked
  <2>5. \A o \in Oracles : ApplyDiff(list, change)[o].quantity =
            list[o].quantity + change.adds[o].quantity - change.removes[o].quantity
        BY <2>1, <2>4, ApplyDiffType DEF CubeInvariant
  <2>6. /\ past' = Append(past, Quantities(ApplyDiff(list, change)))
        /\ cube'.version = cube.version + 1
        BY <2>2, <2>3 DEF Commit, CubeInvariant, TypeOK
  <2>7. /\ Len(past) = cube.version + 1 /\ cube.version \in Nat
        /\ past[cube.version + 1] = Quantities(list)
        /\ past \in Seq([Oracles -> Nat])
        BY <2>1, BoundsAreNat DEF CubeInvariant, ChangesInvert, TypeOK
  <2>8. past'[cube'.version + 1] = Quantities(ApplyDiff(list, change))
        BY <2>6, <2>7
  <2>9. \A o \in Oracles : past[edits[e].expected + 1][o] = list[o].quantity
        BY <2>1, <2>7 DEF Quantities
  <2>10. Quantities(ApplyDiff(list, change)) =
             [o \in Oracles |-> past[edits[e].expected + 1][o]
                 + change.adds[o].quantity - change.removes[o].quantity]
        BY <2>5, <2>9 DEF Quantities
  <2> QED
      BY <2>1, <2>6, <2>8, <2>10
<1> QED
    BY InvariantHolds, <1>1, PTL DEF Spec, EditsApplyToWhatWasSeen

=============================================================================
