------------------------------- MODULE Cubes -------------------------------
(***************************************************************************)
(* One cube: its card list, its append-only changelog and the versions     *)
(* that the changelog replays, which is what an event pins                 *)
(* (src/backend/internal/cubes/{service,replay}.go, db/cubes.sql.go).      *)
(*                                                                         *)
(* ApplyChange is three steps: it resolves the printings to add before its *)
(* transaction begins; the transaction then locks the cube row and checks  *)
(* the diff against the list it reads; and it writes and commits.          *)
(* ChangePrinting takes no lock: it reads, and it writes.  The catalogue   *)
(* of cards moves on meanwhile (Sync), bound only by the foreign keys.     *)
(*                                                                         *)
(* Name, description and visibility of a cube (Update) are left out: they  *)
(* decide who may call, and every call here is the owner's.                *)
(***************************************************************************)
EXTENDS Integers, Sequences, FiniteSets

CONSTANTS
    Oracles,        \* oracle ids: a card, whatever its printing
    Printings,      \* scryfall ids
    None,           \* no printing, no oracle
    Editors,        \* open edits and printing swaps of the owner
    MaxVersion,     \* bound on the committed changes
    MaxQuantity,    \* the most copies that one line adds or removes (99)
    MaxLines        \* the most lines of a diff (1000 a side)

ASSUME NoneIsNew == None \notin Oracles \cup Printings
ASSUME BoundsAreNat == MaxVersion \in Nat /\ MaxQuantity \in Nat \ {0} /\ MaxLines \in Nat

VARIABLES
    cube,      \* the row: alive, version
    list,      \* cube_cards
    changes,   \* cube_changes with their items, oldest first
    oracleOf,  \* cards: the oracle of a printing, None if there is no such card
    edits,     \* calls in progress, by editor
    past       \* history: the quantities of every version

vars == <<cube, list, changes, oracleOf, edits, past>>

Absent  == [printing |-> None, quantity |-> 0]
Lines   == [printing : Printings \cup {None}, quantity : Nat]
Lists   == [Oracles -> Lines]
Empty   == [o \in Oracles |-> Absent]

Counts  == 1..MaxQuantity
Deltas  == [oracle : Oracles, printing : Printings, quantity : Counts]
Changes == [adds : Lists, removes : Lists]

Idle    == [step |-> "idle"]
Request == [step : {"resolved"}, expected : 0..MaxVersion, adds : SUBSET Deltas,
            removes : SUBSET [oracle : Oracles, quantity : Counts]]
Locked  == [step : {"locked"}, expected : 0..MaxVersion, change : Changes]
Swap    == [step : {"swap"}, oracle : Oracles, printing : Printings]

-----------------------------------------------------------------------------
(* Lists and changes *)

Quantities(l) == [o \in Oracles |-> l[o].quantity]

Known == {p \in Printings : oracleOf[p] # None}

Line(p, n) == IF n = 0 THEN Absent ELSE [printing |-> p, quantity |-> n]

\* The deltas of one side of a diff, as a list.
AsList(deltas) ==
    [o \in Oracles |->
        IF \E d \in deltas : d.oracle = o
        THEN LET d == CHOOSE d \in deltas : d.oracle = o IN Line(d.printing, d.quantity)
        ELSE Absent]

OncePerOracle(side) == \A d, e \in side : d.oracle = e.oracle => d = e

ValidateDiff(l, adds, removes) ==
    /\ adds \cup removes # {}
    /\ OncePerOracle(adds)
    /\ OncePerOracle(removes)
    /\ \A a \in adds, r \in removes : a.oracle # r.oracle
    /\ \A r \in removes : r.quantity <= l[r.oracle].quantity

\* The insert of AddCubeCard keeps the printing of a row that is there.
AddCubeCard(l, adds) ==
    [o \in Oracles |-> Line(IF l[o].quantity > 0 THEN l[o].printing ELSE adds[o].printing,
                            l[o].quantity + adds[o].quantity)]

RemoveCubeCardQuantity(l, removes) ==
    [o \in Oracles |-> Line(l[o].printing, l[o].quantity - removes[o].quantity)]

ApplyDiff(l, change) == RemoveCubeCardQuantity(AddCubeCard(l, change.adds), change.removes)

\* One step of ReplayBackwards: subtract the adds, then restore the removes.
Minus(m, n) == IF m > n THEN m - n ELSE 0

\* Mutant: a removed line is restored as it was recorded, whatever is left.
InvertOverwriting(l, change) ==
    [o \in Oracles |->
        LET kept == Minus(l[o].quantity, change.adds[o].quantity)
        IN  IF change.removes[o].quantity > 0 THEN change.removes[o]
            ELSE Line(l[o].printing, kept)]

Invert(l, change) ==
    [o \in Oracles |->
        LET kept == Minus(l[o].quantity, change.adds[o].quantity)
        IN  Line(IF kept > 0 THEN l[o].printing ELSE change.removes[o].printing,
                 kept + change.removes[o].quantity)]

ReplayBackwards(l, log, target) ==
    LET at[v \in target..Len(log)] ==
            IF v = Len(log) THEN l ELSE Invert(at[v + 1], log[v + 1])
    IN  at[target]

\* GetCards: one snapshot of the list and the changelog.
CardsAt(v) ==
    IF v = cube.version THEN list ELSE ReplayBackwards(list, changes, v)

PrintingsOf(l) == {l[o].printing : o \in Oracles} \ {None}

\* Mutant: the guard of the sync forgets the changelog.
ListReferences == PrintingsOf(list)

\* The rows that reference cards, as the guard of the sync sees them.
References ==
    PrintingsOf(list) \cup
    UNION {PrintingsOf(changes[i].adds) \cup PrintingsOf(changes[i].removes) :
           i \in 1..Len(changes)}

CubeLocked == \E e \in Editors : edits[e].step = "locked"

-----------------------------------------------------------------------------
(* The cube's row *)

Init ==
    /\ cube = [alive |-> TRUE, version |-> 0]
    /\ list = Empty
    /\ changes = <<>>
    /\ oracleOf \in [Printings -> Oracles \cup {None}]
    /\ edits = [e \in Editors |-> Idle]
    /\ past = <<Quantities(Empty)>>

\* DeleteCube waits for the row lock of an edit.  The list, the changelog and
\* the links of events go with the cube.
Delete ==
    /\ cube.alive /\ ~CubeLocked
    /\ cube' = [cube EXCEPT !.alive = FALSE]
    /\ list' = Empty
    /\ changes' = <<>>
    /\ past' = <<>>
    /\ UNCHANGED <<oracleOf, edits>>

-----------------------------------------------------------------------------
(* ApplyChange *)

Write(e, call) == edits' = [edits EXCEPT ![e] = call]

\* GetCardsByScryfallIDs, before the transaction.  The owner sends what he
\* saw of the version he expects; printings that no card has end the call.
Resolve(e, adds, removes) ==
    /\ edits[e] = Idle
    /\ cube.alive
    /\ Cardinality(DOMAIN adds) + Cardinality(DOMAIN removes) <= MaxLines
    /\ DOMAIN adds \subseteq Known
    /\ Write(e, [step |-> "resolved", expected |-> cube.version,
                 adds |-> {[oracle |-> oracleOf[p], printing |-> p, quantity |-> adds[p]] :
                           p \in DOMAIN adds},
                 removes |-> {[oracle |-> o, quantity |-> removes[o]] : o \in DOMAIN removes}])
    /\ UNCHANGED <<cube, list, changes, oracleOf, past>>

\* A removed line records the printing that the list has of it now.
RemoveDeltas(removes) ==
    {[oracle |-> r.oracle, printing |-> list[r.oracle].printing, quantity |-> r.quantity] :
     r \in removes}

\* Mutant: the version is not compared.
AcceptsAnyVersion(call) ==
    /\ cube.alive
    /\ ValidateDiff(list, call.adds, call.removes)

Accepts(call) ==
    /\ cube.alive
    /\ cube.version = call.expected
    /\ ValidateDiff(list, call.adds, call.removes)

LockAndCheck(e) ==
    /\ edits[e].step = "resolved"
    /\ ~CubeLocked
    /\ Accepts(edits[e])
    /\ cube.version < MaxVersion
    /\ Write(e, [step |-> "locked", expected |-> edits[e].expected,
                 change |-> [adds    |-> AsList(edits[e].adds),
                             removes |-> AsList(RemoveDeltas(edits[e].removes))]])
    /\ UNCHANGED <<cube, list, changes, oracleOf, past>>

\* ErrNotFound, ErrVersionConflict and ErrInvalidChange roll back.
Refuse(e) ==
    /\ edits[e].step = "resolved"
    /\ ~CubeLocked
    /\ ~Accepts(edits[e])
    /\ Write(e, Idle)
    /\ UNCHANGED <<cube, list, changes, oracleOf, past>>

ItemsResolve(change) ==
    PrintingsOf(change.adds) \cup PrintingsOf(change.removes) \subseteq Known

Commit(e) ==
    /\ edits[e].step = "locked"
    /\ ItemsResolve(edits[e].change)
    /\ list' = ApplyDiff(list, edits[e].change)
    /\ changes' = Append(changes, edits[e].change)
    /\ cube' = [cube EXCEPT !.version = @ + 1]
    /\ past' = Append(past, Quantities(list'))
    /\ Write(e, Idle)
    /\ UNCHANGED <<oracleOf>>

\* A foreign key or the connection fails, and the transaction rolls back.
CommitFails(e) ==
    /\ edits[e].step = "locked"
    /\ Write(e, Idle)
    /\ UNCHANGED <<cube, list, changes, oracleOf, past>>

-----------------------------------------------------------------------------
(* ChangePrinting *)

SwapRead(e, o, p) ==
    /\ edits[e] = Idle
    /\ cube.alive
    /\ list[o].quantity > 0
    /\ list[o].printing # p
    /\ oracleOf[p] = o
    /\ Write(e, [step |-> "swap", oracle |-> o, printing |-> p])
    /\ UNCHANGED <<cube, list, changes, oracleOf, past>>

\* The update finds no row if the line left the list meanwhile, and fails
\* on its foreign key if the card left the catalogue.
SwapWrite(e) ==
    /\ edits[e].step = "swap"
    /\ LET o == edits[e].oracle
           p == edits[e].printing
       IN  list' = IF list[o].quantity > 0 /\ p \in Known
                   THEN [list EXCEPT ![o].printing = p] ELSE list
    /\ Write(e, Idle)
    /\ UNCHANGED <<cube, changes, oracleOf, past>>

-----------------------------------------------------------------------------
(* The catalogue *)

\* One import of the catalogue (module CardSync): printings come, move to
\* another oracle or go, but none goes that a row references.
Sync(p, o) ==
    /\ oracleOf[p] # o
    /\ o = None => p \notin References
    /\ oracleOf' = [oracleOf EXCEPT ![p] = o]
    /\ UNCHANGED <<cube, list, changes, edits, past>>

-----------------------------------------------------------------------------
Sides(S) == UNION {[T -> Counts] : T \in SUBSET S}

Next ==
    \/ Delete
    \/ \E e \in Editors : \E adds \in Sides(Printings), removes \in Sides(Oracles) :
          Resolve(e, adds, removes)
    \/ \E e \in Editors : LockAndCheck(e) \/ Refuse(e) \/ Commit(e) \/ CommitFails(e)
    \/ \E e \in Editors, o \in Oracles, p \in Printings : SwapRead(e, o, p)
    \/ \E e \in Editors : SwapWrite(e)
    \/ \E p \in Printings, o \in Oracles \cup {None} : Sync(p, o)

Spec == Init /\ [][Next]_vars

-----------------------------------------------------------------------------
(* Properties *)

\* The types of the rows, of the calls in progress and of the history.
TypeOK ==
    /\ cube \in [alive : BOOLEAN, version : 0..MaxVersion]
    /\ list \in Lists
    /\ changes \in Seq(Changes)
    /\ oracleOf \in [Printings -> Oracles \cup {None}]
    /\ edits \in [Editors -> {Idle} \cup Request \cup Locked \cup Swap]
    /\ past \in Seq([Oracles -> Nat])

\* GetCards of any version returns, card for card, the quantities that the
\* cube had at that version: replaying the changelog backwards from the list
\* undoes exactly what the edits did, whatever was swapped in between.
ReplayIsHistory ==
    cube.alive => \A v \in 0..cube.version : Quantities(CardsAt(v)) = past[v + 1]

\* Every change inverts to the version before it, and the last version is the
\* list: what a replay of any length rests on.
ChangesInvert ==
    cube.alive =>
        /\ Len(past) = cube.version + 1
        /\ Len(changes) = cube.version
        /\ past[cube.version + 1] = Quantities(list)
        /\ \A v \in 1..cube.version : \A o \in Oracles :
              past[v][o] = Minus(past[v + 1][o], changes[v].adds[o].quantity)
                               + changes[v].removes[o].quantity

\* "Sync guard keeps referenced cards": GetCards never meets a card of a past
\* version that is missing from the catalogue.
PastCardsKnown ==
    cube.alive => \A v \in 0..cube.version : PrintingsOf(CardsAt(v)) \subseteq Known

\* Every printing that a row of the cube names is a card of the catalogue.
ReferencesKnown == References \subseteq Known

\* No lost update: an edit that commits applies to the list of the version
\* that its author saw, although others edit and swap printings meanwhile.
EditsApplyToWhatWasSeen ==
    [][\A e \in Editors : edits[e].step = "locked" /\ changes' # changes /\ edits'[e] = Idle =>
          /\ past'[cube'.version + 1] =
                [o \in Oracles |-> past[edits[e].expected + 1][o]
                    + edits[e].change.adds[o].quantity - edits[e].change.removes[o].quantity]
          /\ cube'.version = edits[e].expected + 1]_vars

\* 00004_cubes.sql: "two printings of the same card cannot coexist".
OneRowPerCard ==
    \A o, u \in Oracles :
        list[o].quantity > 0 /\ list[u].quantity > 0
            /\ oracleOf[list[o].printing] = oracleOf[list[u].printing] => o = u

=============================================================================
