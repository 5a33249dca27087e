----------------------------- MODULE Collections -----------------------------
(***************************************************************************)
(* The collection of one user (src/backend/internal/collections/service.go *)
(* and db/collections.sql.go).  ChangePrinting and ApplyImport are         *)
(* transactions of several statements that lock rows one by one and hold   *)
(* them to their end; SetQuantity is one statement.  Several requests of   *)
(* the user run at the same time, and the catalogue of cards changes.      *)
(*                                                                         *)
(* A transaction sees the committed rows and its own; view[t] holds its    *)
(* own, and with them the locks.  An insert of a row that is not there     *)
(* locks its key, a delete or a locking read of such a row finds nothing.  *)
(***************************************************************************)
EXTENDS Catalogue, Sequences, Functions

CONSTANTS
    Calls,   \* requests in progress
    Leaving, \* printings that a sync may take out of the catalogue and bring back
    MovesTo, \* the other card of a printing that a sync may move
    Cubes    \* cubes: quantities of printings, made before anything has moved

ASSUME LeavingArePrintings == Leaving \subseteq Printings
ASSUME MovesArePrintings == DOMAIN MovesTo \subseteq Printings
ASSUME CubesAreQuantities ==
    \A c \in Cubes : DOMAIN c \subseteq Printings /\ \A p \in DOMAIN c : c[p] \in Nat

VARIABLES
    owned,   \* collection_items: quantity of a printing, 0 if there is no row
    rowCard, \* collection_items.oracle_id of the rows that there are
    call,    \* the requests in progress
    view,    \* the rows a transaction has locked or written
    viewCard \* oracle_id of the rows it has locked or inserted

table == <<owned, rowCard>>
vars  == <<table, catalogue, call, view, viewCard>>

Idle   == [step |-> "idle"]
NoRows == [p \in {} |-> 0]
Row(p, n) == [q \in {p} |-> n]
Items  == [printing : Printings, quantity : 1..MaxItemQuantity]

Clamped(n) == IF n < MaxItemQuantity THEN n ELSE MaxItemQuantity

\* What is seen through rows of one's own.
Over(rows, below) ==
    [p \in DOMAIN rows \cup DOMAIN below |-> IF p \in DOMAIN rows THEN rows[p] ELSE below[p]]

-----------------------------------------------------------------------------
(* Transactions *)

\* Mutant: a row is never waited for.
NobodyWaits(t, p) == TRUE

\* A statement on the row proceeds: no other transaction holds it.
Free(t, p) == \A u \in Calls \ {t} : p \notin DOMAIN view[u]

Go(t, c) == call' = [call EXCEPT ![t] = c]

\* Mutant: the rows stay locked.
RollbackForgotten(t) == Go(t, Idle) /\ UNCHANGED <<table, catalogue, view, viewCard>>

\* The oracle_id of a row is that of the card when the row was inserted.
Stored(rows, cards) == [p \in {p \in DOMAIN rows : rows[p] # 0} |-> cards[p]]

Rollback(t) ==
    /\ Go(t, Idle)
    /\ view' = [view EXCEPT ![t] = NoRows]
    /\ viewCard' = [viewCard EXCEPT ![t] = NoRows]
    /\ UNCHANGED <<table, catalogue>>

CommitRows(t, rows) ==
    /\ owned' = Over(rows, owned)
    /\ rowCard' = Stored(owned', Over(viewCard[t], Over(rowCard, cardOf)))
    /\ Go(t, Idle)
    /\ view' = [view EXCEPT ![t] = NoRows]
    /\ viewCard' = [viewCard EXCEPT ![t] = NoRows]
    /\ UNCHANGED catalogue

Hold(t, p, n) == view' = [view EXCEPT ![t] = Over(Row(p, n), @)]

\* AddCollectionItem on the row as this transaction sees it; on a conflict the
\* row keeps its oracle_id.
AddCollectionItem(t, p, n) ==
    /\ p \in known
    /\ Free(t, p)
    /\ Hold(t, p, Clamped(Over(view[t], owned)[p] + Clamped(n)))
    /\ viewCard' = [viewCard EXCEPT ![t] =
           IF Over(view[t], owned)[p] = 0 THEN Over(Row(p, cardOf[p]), @) ELSE @]
    /\ UNCHANGED <<table, catalogue>>

-----------------------------------------------------------------------------
(* SetQuantity *)

\* An absent row is deleted without waiting; an unknown card has no row to set.
SetQuantity(p, n) ==
    /\ IF n = 0 THEN owned[p] # 0 ELSE p \in known
    /\ \A t \in Calls : p \notin DOMAIN view[t]
    /\ owned' = [owned EXCEPT ![p] = n]
    /\ rowCard' = Stored(owned', Over(rowCard, cardOf))
    /\ UNCHANGED <<catalogue, call, view, viewCard>>

-----------------------------------------------------------------------------
(* ChangePrinting *)

\* GetCollectionItemForUpdate of the source; nothing owned, nothing to move.
LockSource(t, p, r) ==
    /\ call[t] = Idle
    /\ p # r
    /\ owned[p] # 0
    /\ Free(t, p)
    /\ Hold(t, p, owned[p])
    /\ viewCard' = [viewCard EXCEPT ![t] = Row(p, rowCard[p])]
    /\ Go(t, [step |-> "locked", from |-> p, to |-> r])
    /\ UNCHANGED <<table, catalogue>>

\* The target is a printing of the card that the source row was stored with.
SameCard(t) ==
    call[t].to \in known /\ cardOf[call[t].to] = viewCard[t][call[t].from]

\* GetCardsByScryfallIDs of the target: it is unknown or of another card.
MoveRefused(t) ==
    /\ call[t].step = "locked" /\ ~SameCard(t)
    /\ Rollback(t)

CheckTarget(t) ==
    /\ call[t].step = "locked" /\ SameCard(t)
    /\ Go(t, [call[t] EXCEPT !.step = "checked"])
    /\ UNCHANGED <<table, catalogue, view, viewCard>>

\* The target vanished between the check and the write.
TargetGone(t) ==
    /\ call[t].step = "checked" /\ call[t].to \notin known
    /\ Rollback(t)

AddTarget(t) ==
    /\ call[t].step = "checked"
    /\ AddCollectionItem(t, call[t].to, view[t][call[t].from])
    /\ Go(t, [call[t] EXCEPT !.step = "added"])

\* Mutant: the source row is not deleted.
KeepSource(t) ==
    /\ call[t].step = "added"
    /\ CommitRows(t, view[t])

\* DeleteCollectionItem of the source, and the commit.
FinishMove(t) ==
    /\ call[t].step = "added"
    /\ CommitRows(t, Over(Row(call[t].from, 0), view[t]))

-----------------------------------------------------------------------------
(* ApplyImport *)

\* In-request duplicates are summed, in the order of first occurrence.
Merge(items) ==
    LET merged[i \in 0..Len(items)] ==
            IF i = 0 THEN <<>>
            ELSE LET it == items[i]
                     at == {j \in 1..Len(merged[i - 1]) :
                               merged[i - 1][j].printing = it.printing}
                 IN  IF at = {}
                     THEN Append(merged[i - 1],
                                 [it EXCEPT !.quantity = Clamped(it.quantity)])
                     ELSE [j \in DOMAIN merged[i - 1] |->
                              IF j \in at
                              THEN [merged[i - 1][j] EXCEPT !.quantity = Clamped(@ + it.quantity)]
                              ELSE merged[i - 1][j]]
    IN  merged[Len(items)]

\* A printing that is unknown by now refuses the whole batch.
BeginImport(t, items) ==
    /\ call[t] = Idle
    /\ items # <<>>
    /\ \A i \in 1..Len(items) : items[i].printing \in known
    /\ Go(t, [step |-> "import", todo |-> Merge(items), batch |-> Merge(items)])
    /\ UNCHANGED <<table, catalogue, view, viewCard>>

AddNext(t) ==
    /\ call[t].step = "import"
    /\ call[t].todo # <<>>
    /\ LET it == Head(call[t].todo) IN AddCollectionItem(t, it.printing, it.quantity)
    /\ Go(t, [call[t] EXCEPT !.todo = Tail(@)])

\* The printing vanished in the middle of the batch.
ImportRefused(t) ==
    /\ call[t].step = "import"
    /\ call[t].todo # <<>> /\ Head(call[t].todo).printing \notin known
    /\ Rollback(t)

FinishImport(t) ==
    /\ call[t].step = "import"
    /\ call[t].todo = <<>>
    /\ CommitRows(t, view[t])

-----------------------------------------------------------------------------
(* The database and the catalogue *)

\* The row that a transaction needs next.
Wants(t) ==
    CASE call[t].step = "checked" -> {call[t].to}
      [] call[t].step = "import" /\ call[t].todo # <<>> -> {Head(call[t].todo).printing}
      [] OTHER -> {}

WaitsFor(t) == {u \in Calls \ {t} : Wants(t) \cap DOMAIN view[u] # {}}

\* Postgres ends one of two transactions that wait for each other.
Deadlock(t) ==
    /\ \E u \in WaitsFor(t) : t \in WaitsFor(u)
    /\ Rollback(t)

\* The request is cancelled or the connection is lost.
Abort(t) ==
    /\ call[t] # Idle
    /\ Rollback(t)

\* The cards that a printing is of, now or later.
CardsOf(p) == {OracleOf[p]} \cup {MovesTo[q] : q \in DOMAIN MovesTo \cap {p}}

\* A sync upserts a printing, with its card; it waits for no row that refers to it.
Upsert(p, o) ==
    /\ p \notin known \/ o # cardOf[p]
    /\ known' = known \cup {p}
    /\ cardOf' = [cardOf EXCEPT ![p] = o]
    /\ UNCHANGED <<table, call, view, viewCard>>

\* A sync keeps what rows and open inserts refer to.
Vanish(p) ==
    /\ p \in known
    /\ owned[p] = 0 /\ \A t \in Calls : p \notin DOMAIN view[t]
    /\ known' = known \ {p}
    /\ UNCHANGED <<table, cardOf, call, view, viewCard>>

Init ==
    /\ owned = [p \in Printings |-> 0]
    /\ rowCard = NoRows
    /\ known \in {Printings \ gone : gone \in SUBSET Leaving}
    /\ cardOf = OracleOf
    /\ call = [t \in Calls |-> Idle]
    /\ view = [t \in Calls |-> NoRows]
    /\ viewCard = [t \in Calls |-> NoRows]

Step(t) ==
    \/ MoveRefused(t) \/ CheckTarget(t) \/ TargetGone(t) \/ AddTarget(t) \/ FinishMove(t)
    \/ AddNext(t) \/ ImportRefused(t) \/ FinishImport(t)

Next ==
    \/ \E p \in Printings, n \in 0..MaxItemQuantity : SetQuantity(p, n)
    \/ \E t \in Calls, p, r \in Printings : LockSource(t, p, r)
    \/ \E t \in Calls : Step(t) \/ Deadlock(t) \/ Abort(t)
    \/ \E p \in Leaving \cup DOMAIN MovesTo : \E o \in CardsOf(p) : Upsert(p, o)
    \/ \E p \in Leaving : Vanish(p)

\* Requests run on, a lock is granted to whoever waits for it, and Postgres
\* looks for deadlocks.
Fairness == \A t \in Calls : SF_vars(Step(t)) /\ WF_vars(Deadlock(t))

-----------------------------------------------------------------------------
(* Wantlist *)

Copies(rows, S) == FoldFunctionOnSet(LAMBDA n, m : n + m, 0, rows, S)

\* What a cube needs beyond what is owned: of the very printing, or else of the
\* card that the cube row was stored with, in rows that were stored with it.
Wantlist(cube, matchPrinting) ==
    LET have(p)    == IF matchPrinting THEN owned[p]
                      ELSE Copies(owned, {r \in DOMAIN rowCard : rowCard[r] = OracleOf[p]})
        missing(p) == cube[p] - have(p)
    IN  [p \in {p \in DOMAIN cube : missing(p) > 0} |-> missing(p)]

-----------------------------------------------------------------------------
(* Properties *)

\* However requests interleave, what they commit is what whole operations one
\* after the other would have done.
AsLedger == INSTANCE Ledger WITH copies <- owned, Limit <- MaxItemQuantity
ImplementsLedger == AsLedger!Spec

\* What a batch adds of each printing.
Added(lines) ==
    [p \in {lines[i].printing : i \in DOMAIN lines} |->
        Copies([i \in DOMAIN lines |-> lines[i].quantity],
               {i \in DOMAIN lines : lines[i].printing = p})]

\* And it is the operation that was asked for: "a torn pair can never leave a
\* duplicated quantity", and an import adds all its lines or none.
OperationsAreWhole ==
    [][\A t \in Calls : call[t] # Idle /\ call'[t] = Idle =>
          \/ UNCHANGED owned
          \/ call[t].step = "added" /\ AsLedger!Move(call[t].from, call[t].to)
          \/ call[t].step = "import" /\ AsLedger!Add(Added(call[t].batch))]_vars

\* "matchPrinting switches ownership from oracle level (any printing satisfies a
\* slot) to printing level": what the exact printing satisfies, any printing does,
\* so the list by card never asks for more.  Refuted: rows keep the card that their
\* printing had when they were stored.
WantlistModesAgree ==
    \A c \in Cubes :
        LET byCard     == Wantlist(c, FALSE)
            byPrinting == Wantlist(c, TRUE)
        IN  \A p \in DOMAIN byCard : p \in DOMAIN byPrinting /\ byCard[p] <= byPrinting[p]

\* No request waits for ever: rows are released on every way out, and of two
\* that wait for each other one is ended.
CallsEnd == \A t \in Calls : call[t] # Idle ~> call[t] = Idle

=============================================================================
