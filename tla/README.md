# Cube Planner: TLA+ models and proofs

Cube Planner organises Magic cube drafts: a Go backend (`src/backend`) over
PostgreSQL, a React frontend (`src/frontend`), Stripe for event fees. This
directory holds the TLA+ models of the backend's core logic and of the one dialog
of the frontend that computes what is written, the TLC configurations that check
them and the TLAPS proofs about them. The reference
is always the code; docs are quoted only where the code does something else.

## 1. Inventory

| component | state | operations | what is hard | what makes it correct | modules |
|---|---|---|---|---|---|
| event registrations (`internal/events`) | `events`, `registrations`, `stripe_events` rows | Create, Update, Transition, Register, Pay, CancelRegistration, OrganizerRefund, RemoveRegistration, DenyRefund, three webhooks, Sweep | handlers in parallel, Stripe calls outside transactions, webhooks late, twice or out of order, crashes between a commit and a refund | never overbooked, fair waitlist, one active row per user, every charge backs a seat or goes back | `Registrations`, `SeatAllocation`, `RegistrationsSeating` (section 3) |
| tournament engine (`internal/tournaments`) | `tournaments`, `tournament_players`, `rounds`, `matches`, `match_result_reports` | Upsert, PairNextRound, Reroll, Swap, Publish, Complete, ReportResult, Drop, Undrop | drops between pairing and publishing, clocks of waiting transactions, report order | everyone active is paired once per round, results of closed rounds never change | `Tournament` (4) |
| Swiss pairing, standings (`internal/tournaments/swiss`) | none | Pair, ComputeStandings | odd fields, byes, rematches, search budget | a pairing with the fewest rematches and a fair bye; standings and pairing count alike, ranks follow the keys | `SwissTables`, `SwissPairing`, `SwissRounds` (5) |
| cubes (`internal/cubes`) | cube, its cards, versioned changes | Create, ApplyChange, ChangePrinting, GetCards at a version, Delete | two editors, swaps that are no version, a moving catalogue | replay of the history is the list that was; no lost update | `Cubes` (6) |
| card catalogue sync (`internal/cards`) | `cards`, staging table, sync runs | Sync on a ticker | failed and interrupted runs, references made meanwhile | the catalogue is one complete import, references stay | `CardSync` (7) |
| card lists (`cards/list.go`, `shared/cards` of the frontend) | a resolved list under review | ResolveList, the review dialog | names that look like selectors or quantities, a catalogue that changes under a review | a match is what was typed | `ListResolution`, `ImportReview` (8) |
| collections (`internal/collections`) | quantity per user and printing | SetQuantity, ChangePrinting, ApplyImport, Wantlist | transactions of several row locks, deadlocks, clamping, cancelled requests | whole operations or nothing, quantities within 1..999 | `Collections`, `Ledger`, `Catalogue` (8) |
| authentication (`internal/auth`) | users, tokens, sessions, identities | Register, VerifyEmail, Login, reset, OAuth | statements that commit one by one, requests that stop half way, first-login races | a link works once, a verified account is not taken over, nobody is locked out | `Accounts` (9) |
| rate limiter, card search, HTTP handlers, config, mail, generated queries | | | | | not modelled (section 11) |

How they interact: the tournament roster is a snapshot of the paid registrations
of a started event; `RemoveRegistration` also drops the player from the
tournament; `finish` asks the tournament for open rounds; an event pins a version
of a cube. Cube and collection rows refer to cards by foreign keys, which is what
the delete of the sync respects; the resolution of a pasted list reads the
catalogue that the sync changes. Stripe is called by Pay and by the refund paths
and answers through `httpapi/stripe.go`. The sweeper and the sync run on tickers
inside the one server process.

## 2. Plan

| step | state |
|---|---|
| `Registrations` and `SeatAllocation`: seats, waitlist, money and the refinement proved | done |
| `Tournament`, proved | done |
| Swiss pairing and standings, driven through rounds, proved with the search | done |
| `Cubes`, proved with the replay | done |
| `CardSync`, proved | done |
| Collections against `Ledger`, card lists, the review that composes them, proved | done |
| `Accounts`, proved | done |
| composition of `Registrations` and `Tournament` beyond removal, finish and cancel | not done |

Modules compose as follows. `RegistrationsSeating` extends `Registrations` and
instantiates `SeatAllocation`; `SwissRounds` extends `SwissPairing`, and its
`FewestRematches` checks the assumption `Tournament` makes of `Pair`, which
`SwissTables` states once for both; `ImportReview` extends `Collections`, which
instantiates `Ledger`, and `ListResolution`, both over `Catalogue`. Every module
with an `MC` twin gets its symmetry and constants there; `MCRegistrations` extends
`RegistrationsSeating`, so that all runs of registrations use it. A module `...Proofs` extends the
module it is about; `RegistrationsSeatingProofs` extends `RegistrationsProofs` too, and
the refinement mapping. `SwissProofs` is about `SwissRounds`. No module declares a
recursive operator: recursions are functions (`TryPair`, `Ranks`, `Merge`) or folds, so that
everything here can be reasoned about.

All runs set `CHECK_DEADLOCK FALSE`: an event that is over, a cube that is
deleted, a process out of faults and files, a user without a request may all
stop. Liveness properties say where stopping is not allowed.

## 3. Registrations

`Registrations.tla` models one event; handlers only ever lock and touch the rows
of one event. `MCRegistrations.tla` adds the symmetry of users, rows and
sessions, which are interchangeable names.

### State

| variable | code |
|---|---|
| `evStatus`, `hasFee`, `maxParticipants`, `waitlistCounter` | columns of `events` (00006_events.sql) |
| `owner`, `status`, `waitlistPos`, `session`, `intent` | columns of `registrations`; a row that was not inserted is `"none"` |
| `windowOver` | `expires_at <= now` |
| `sessReg`, `sessState`, `sessOver` | what Stripe knows of a checkout session: its `client_reference_id`, its state and that of its charge, its expiry |
| `seen` | `stripe_events` |
| `refunds` | calls of `RefundPaymentIntent` and the finalizations that follow, which run outside the event lock |
| `denials` | `DenyRefund` between its read and its write |
| `staleDenial`, `ejected` | history, for properties only: a denial has hit a row that held a seat; removed rows (`ejected` also tells which stored sessions `RemoveRegistration` ends) |

### Actions

A transaction that locks the event row first is one action, with everything it
calls: `promoteLocked` is the operator `Promote`, which gives the free spots to
the first rows of the waitlist, and `SetStatuses` also nulls the columns that
every UPDATE nulls. Where the code works outside the lock, the action is split:

* Pay: `PayCheck` (reads and checks), then `PayStore` or `PayFails`. Two calls
  may overlap, which creates two live sessions for one row. A Pay call that finds
  a live session returns its URL and changes nothing.
* DenyRefund: `DenyRead`, then `DenyWrite`. A second caller may have read the same
  row, so a denial may write more than once.
* Refunds: a handler adds a record to `refunds`, `CallRefund` is the Stripe call,
  `FinalizeRefund` or `FinalizeCancelledRow` the transaction after it. A call that
  fails, and a process that dies before the call, is a record that stays. Stripe
  refuses the second refund of an intent, so `CallRefund` needs a captured charge.
* `charge.refunded`: the row is looked up before the lock, so the lookup
  (`HandleChargeRefunded`) and the finalization are two steps.
* RemoveRegistration: the end of the stored session (`ExpireRemoved`) is a
  best-effort call after the commit.

Webhooks arrive in any order and any number of times; `markSeen` commits with the
handler, so an event that is delivered again is a stutter. `stripe_events` is keyed on
the id of the event, and the same fact may be told by several events: `EventIds` tells
them apart, and a second event is handled like the first. The completion of a session is
processed by one of `CompletedInTime`, `CompletedTwice`, `CompletedLate`, after
the status of the row. `Completed` needs no delivery record: a session that
Stripe has captured may be delivered at any later time.

Abstractions: the clock is "has this instant passed"; a session's end is never
before the end of the payment window it was created in, because Pay clamps it so.
The refund deadline can be moved by Update at any time, so being inside it is a
free choice. `finish` is modelled without its count of open rounds, which is in
`Tournament` (section 4); nothing here is checked that depends on it. E-mails, logs, the
links to cubes (SetCubes) and the read-only queries are left out. A Stripe outage is
a call that never happens. Payment processing never creates two rows per
`Register`, so the number of rows bounds the number of registrations.

### Abstract specification

`SeatAllocation.tla` is what a player is promised: a number of seats and a queue;
a claim is seated at once if a seat is free, otherwise queues; a freed seat goes
to the head of the queue in the same step; when the event closes the queue is
gone and nobody is seated any more. The queue is the set of those who wait and the
relation of who came before whom. `RegistrationsSeating.tla` maps the occupying rows to
the seats, the waitlisted rows to the queue and their `waitlist_pos` to its order, and
states the implementation as `ImplementsSeatAllocation`.

### Runs

| run | bounds | shows |
|---|---|---|
| `seats` | 3 users, 3 rows, 1 session, capacity 1 or 2 | no overbooking, one active row per user, nobody waits beside a free seat unless a stale denial freed it, first in first out, a frozen roster, and that `SeatAllocation` is implemented |
| `money` | 1 user, 1 row, 2 sessions, fairness | types; a paid row rests on a charge of its own, `refunded` never before the money went back; a captured charge reaches its row or goes back |
| `live` | 2 users, 2 rows, 1 session, 2 event ids, fairness | the same of rows and money while players compete for a seat and every fact is told twice; a denial takes a seat only from a row with a second payment; an unpaid seat ends |

Three rows and capacity two are the least with a waitlist of length two beside a
seat, and with a free seat beside an occupied one; one session is enough for a
late payment to race the waitlist. Two sessions are the least for a Pay race; a
third one would only repeat the second. Two event ids are the least for a second event;
a third one finds a row in a status in which the second one could. `seats` has one session
and one event id, because with two of either a stale denial (see below) frees a seat without
promoting, which is not a step of `SeatAllocation`. Two sessions, two rows and two event ids at once
are beyond what TLC does in minutes: for any number of them `MoneyMatchesRow` and
`StaleDenialNeedsSecondPayment` are proved, the second also where the second payment is that of
a sibling session. `MoneyMatchesRow` restricts two of its parts to rows with one
session: with two they fail, as `ChargesTraceable` below shows.

Further statements in the module that TLC refutes, without a run of their own; each
needs at most 2 users, 2 rows, 2 sessions and capacity 1:

| property | statement | what happens |
|---|---|---|
| `SeatOrMoney` | a late payment takes a seat or is refunded | a refund finalized after a reclaim by another charge flips the row to refunded, that charge is kept |
| `EjectedStaysOut` | a removed row is never reclaimable | it becomes `refunded` by its first late payment and is reclaimed by the second |
| `NoIdleSpot` | every path that frees a spot locks the event row and promotes | a late `DenyRefund` cancels a reclaimed seat and promotes nobody |
| `RefundReachesRow` | a dashboard refund reaches the row | `charge.refunded` before the completion finds no row; the completion marks it paid |
| `ChargesTraceable` | the intent is always recorded so refunds stay traceable | the second completion on a terminal row overwrites an intent whose charge was kept |
| `DenialKeepsMoney` | a denied row is cancelled, the money stays (`service.go:955`) | `DenyRefund` reads a request whose row has a refund under way, the refund is finalized, and the denial is written over the refunded row; a `DenyRefund` under the event lock could not |
| `ReclaimsExpiredOrCancelled` | only expired or cancelled rows are reclaimed | a refunded row is reclaimed |

### Fairness

`live` needs the sweeper (its ticker runs as long as the process, `main.go` starts
it; `Sweep` is enabled as long as an overdue row exists), time to pass, and
nothing of Stripe or the player. `money` needs Stripe to deliver a completion
until it is acknowledged with 200, which `stripeWebhookHandler` gives only after
the commit, and it needs refund calls to be made and accepted. The latter is an
assumption about the environment: the code makes one attempt and logs a failure,
so with a failing call the charge stays and `money` says nothing. There is no
fairness on players, organizers, Pay, finalizations or charge.refunded.

### Proofs

`RegistrationsProofs.tla` proves for any finite set of rows and any sets of users
and sessions, under the assumptions of `Registrations` (rows are finite, the three null
values are new, the largest capacity is a positive number):

* `TypeCorrect`: `Spec => []TypeOK`.
* `SeatsCorrect`: `Spec => []SeatInvariant`, from which `CapacityHolds`,
  `OneActiveRowHolds`, `WaitlistPositionsHold`, `ClosedRegistrationHolds` and
  `NoIdleSpotHolds` follow.
* `RosterIsFrozen`: the action property `RosterFrozen`.

The seat properties are not inductive alone. `SeatInvariant` adds `QuietDraft` (a
draft has no rows and nothing under way, without which a change of the capacity
of a draft could overbook it or leave an idle spot), `SessionsHaveRows` (a webhook
of an existing session concerns a row) and `CancelledRowRefunds` (the finalization
without promotion only exists once the event is cancelled, when nobody waits).
The central lemmas are `PromoteFits` (the promoted rows fit into the free spots:
they are mapped one to one into the positions ahead of the first that does not
fit) and `PromoteFills` (after a promotion either nobody waits or no spot is
free). The step proof has one case per action; actions that only touch Stripe or
calls under way are handled by one background lemma.

The proofs about money, in the same module, sum every step up before they look at an
invariant: what it may do to the status of a row (`RowsMove`), to an intent (`IntentsMove`), to what Stripe
knows (`StripeMove`), to the completions processed (`ChargesLand`), to the refunds
(`RefundsMove`) and to the denials under way (`DenialsMove`). Each part of `MoneyInvariant`
then needs a few of these summaries, whatever the action was. `MoneyInvariant` adds what the
lines of code take for granted: an intent is a charge of the row's own session, sessions
are made for rows that exist, a refund is of a charge of its row, and what a denial has
read of a row with one session can only have ended.

* `MoneyMatches`: `MoneyMatchesRow`, however webhooks repeat and refunds fail. Two of its
  three parts speak of rows with one session (`Sole`), because with two they are false.
* `StaleDenialNeedsPayment`: the unlocked write of `DenyRefund` hits a seat only where a
  second completion was processed for a row (`StaleDenialNeedsSecondPayment`): the payment of
  a sibling session, or the first payment under another event id.

`RegistrationsSeatingProofs.tla` classifies the steps once more (`SeatMoves`): no seat moves,
rows leave and `promoteLocked` serves the queue, a row takes a free seat, a row joins the
queue, registration closes, a draft changes, a denial hits a seat.

* `WaitlistServedFairly`: the action property `WaitlistIsFair`.
* `SeatsArePromised`: `ImplementsSeatAllocation` for every behaviour in which no denial hits
  a row that holds a seat. The hypothesis is not a convenience: such a denial frees a seat
  and promotes nobody, and without the hypothesis the refinement is false.
* `SolePaymentsKeepPromise`: the same for every behaviour in which no row has two completions
  processed, by `StaleDenialNeedsSecondPayment`; this is the case that `seats` checks.

`WaitlistPositions`, `ClosedRegistration`, `SeatInvariant` and `MoneyInvariant` are proved and
not listed in a run, since they support the others. Only model-checked: the two liveness
properties (fairness and ENABLED are outside the prover).

## 4. Tournament

`Tournament.tla` models the tournament of one event from its start on. Its input
is the set of players with a paid registration; `RosterFrozen` of section 3 is why
that set does not grow any more.

### State

| variable | code |
|---|---|
| `evStatus` | `events.status`, `started` at first |
| `paid`, `ejected` | players whose registration is `paid`, `removed` |
| `planned` | `tournaments.planned_rounds`; 0 while there is no tournament |
| `roster`, `dropped` | `tournament_players`, those with a `dropped_at` |
| `late` | dropped players for whom a round has a later `created_at`: all that Undrop asks of the two clocks |
| `pairing`, `droppedSince` | a PairNextRound transaction has begun; who dropped after that |
| `rounds` | `rounds`, each with the set of its `matches` and their `match_result_reports` |
| `calls` | ReportResult transactions that have begun |
| `missed` | history: dropped players some round was paired without |

A match is the set of its players, a bye a set of one. Which slot a player has,
tables and seeds change nothing but presentation and standings. `stamp` is the
order of `reported_at` among the reports of one match.

### Actions

`startedEvent` locks the event row, so every mutation is one action with all it
calls: Upsert, PairNextRound (which creates the tournament if there is none),
Reroll, Swap, Publish, Complete, ReportResult, Drop, Undrop, and of
`internal/events` Finish, Cancel and Remove, which drops the player. The lock
orders the writes but not the clocks: `rounds.created_at` and
`match_result_reports.reported_at` default to `now()`, in PostgreSQL the start of the
transaction, which may wait for the lock a long time. `BeginPairing` and
`BeginReport` are those starts; `PairingRefused` and `ReportRefused` are what
becomes of a transaction whose conditions fail, or that the database aborts.
`dropped_at` is the clock of the service, read while the lock is held; the two
clocks are taken to agree.

`swiss.Pair` is any pairing of the active players, so what holds here holds for
every seed and history. `PaidLeaves` stands for the refunds of a paid row, which the
tournament is not told. One pairing waits for the lock at a time: another one that
began earlier could only widen the gap that `undrop` shows.

### Runs

`tournament` has 3 players, 2 rounds, two scores and 3 reports a match. The
constraint `ManyReportsOnce` (`MCTournament`) cuts the product of the dimensions,
not the dimensions: with three players on the roster there are no reports, so that
run of cases is about tables, swaps, byes and drops; with two players one round
takes every order of three reports; with a second round there are two reports in
all. It shows that a round seats each of its players once, that rounds come in
order, within the plan and with only the latest one open, that results which were
paired from are frozen however late a report arrives, that scores follow the
status of the round, that an organizer's report is final and that every dispute
that shows is recorded.

Three players are the least for a bye, and for a swap between a bye and a table;
two full tables only occur in `swiss` (four players), and in the proofs, which are
for any number. Two rounds are the least for a result to be paired from; a third
would be to the second as the second is to the first. Three reports are the least
for two of one player to be written in the wrong order around one of the other.

`undrop` (3 players, 2 rounds, 1 report a match) is refuted: undrop is to be
rejected once a round was created after the drop, since the player missed a
pairing; but the round's `created_at` is before a drop that its pairing already
respected.

Further statements in the module that TLC refutes, without a run of their own, with 2
players, 1 round, 2 scores and 3 reports a match:

| property | statement | what happens |
|---|---|---|
| `EjectedNotPaired` | future rounds skip a removed participant | he undrops himself |
| `StandingsFinal` | standings of a finished event are final | removal still drops a player |
| `AgreementIsStored` | the stored result is the one the players agree on | the last write has the earlier `reported_at` |
| `DisputeIsSticky` | a dispute stays in the history | a report written late is inserted before it |

The module assumes no fairness and states no liveness: every step is a person's
decision.

### Proofs

`TournamentProofs.tla` proves for every finite set of players, all results, numbers of
rounds and of reports, under the assumptions of `Tournament` (the organizer is no
player, results are valid and not null, the default number of rounds is one the API
plans):

* `TypeCorrect`, `RoundsCorrect` (`Spec => []RoundsInvariant`), `RoundsInOrderHolds`,
  `SeatedOnceHolds`, `ScoresFollowStatusHolds`, `OrganizerRulesHold`,
  `DisputeIsRecordedHolds`, and the action property `ResultsAreFrozen`.

The proofs go through one idea: every step that touches the rounds either appends a
draft or is `Edit(i, R)`, the replacement of round `i` by a round `R`. `EditKeepsTheRest`
says what an edit leaves alone, one lemma per action which `R` it writes, and each
invariant then needs only a fact about `R`. `RoundsInOrder` is not needed for typing, but
`ResultsFrozen` rests on it: an edit concerns an open round or the latest one, and only the
latest is open. `SwapIsPairing` is the central lemma of `SeatedOnce`: exchanging one player
between two tables maps the byes one to one. `OrganizerRules` is inductive only together
with `ScoresFollowStatus`, since publishing scores the byes of a round without reports.

## 5. Swiss pairing and standings

`SwissPairing.tla` translates `swiss/pair.go` and `swiss/standings.go` into functions
of the rounds so far. The seed of a pairing only decides between equals, so `Pair` is
the set of what any seed gives: every choice of the bye, every order of the players
that sorts them by points. `TryPair` is the backtracking search in its order, with its
budget of rematches, `FirstBudget` the loop that raises it; `PickBye` tries the groups of
equal points from the lowest one up. Table numbers and drawn games (the API sends none) are
left out.

Percentages are floating-point numbers: `Rounded` is a quotient cut to the bits of a float,
to the nearest one and to the even one of two, and every division, sum and product of
`standings.go` is rounded by it in the order in which the code computes, the sums over
opponents in the order of their rounds. `Scales` are the denominators that a float may have
and `Normal` its precision. The order of the rows (`Precedes`, `Sorted`) compares these
floats as they are, as `sort.Slice` does; the ranks (`Ties`, `Ranks`) compare with
`Epsilon`. `SwissRounds.tla` drives the two: rounds are drafted,
re-rolled, swapped, published and reported, players drop, results are corrected, so
the histories are those a tournament can reach and not arbitrary ones. `moved` is history:
the rounds whose bye the organizer has moved by a swap.

`swiss` has 4 players, 3 rounds, a win and a draw. With a drop the field is odd; three
rounds of three players are the least in which everybody has had a bye and, with
drops and swaps, the least in which only rematches are left. Floats have eleven bits and
eps is a quarter of a percent point. As 1e-9 does with doubles, it lies between the two sizes
that matter: equal means of up to three opponents are at most an eighth of a point apart by
their rounding, and means that are not equal are at least seven eighths apart. The run shows that
a pairing seats exactly the active players and, among the pairings with the same bye, has
the fewest rematches; that the bye of every published round that the organizer left alone
was one of the lowest group with a player without (`ByesAreFair`, which reads it off the
rounds that were played, whatever was dropped, re-rolled and swapped before); that the points
of `pair.go` are those of `standings.go`; and that ranks are those of a competition wherever
no two percentages are nearly equal without being equal (`RanksFailOnlyByRounding`). With four
players the search rarely has to back out of a choice; the proofs are for fields of any size.

`standings` refutes the same without that condition, `RanksAreCompetition`, which is what the
comment of `ComputeStandings` says. In round one p2 beats p1 and p4 beats p3, each 2-0;
in round two p1 beats p4 and p3 beats p2; in round three p3 has the bye and p4 beats p2.
The means of the opponents of p3 and p4 are of the same three numbers added up in different orders.
They differ in the last bit, p3 is put first, and since the two do not tie, for p4 has won
more games, p4 is second. The same rounds give 50.0 and 49.99999999999999 in
the doubles of the code.

`SwissProofs.tla` proves the four properties of `swiss` for any finite set of players, any scores,
any number of rounds, floats of any precision and any eps. Three arguments do not depend on the rounds at all:

* The search. `TryPair` is a recursive function; `TriesExist` shows that it has a value
  for every order and budget, so that `TryPairIs` may unfold it. `TriesAreSound`: what a call
  returns is a perfect matching of its order within its budget. `TriesAreComplete`: if there
  is one within the budget, the call returns one, because taking the nearest opponent that
  leaves the rest pairable never loses it. Both are by least counterexample on the
  length of the order. `FirstBudgetIsLeast` follows: the first budget that works is the number of
  rematches of the best pairing, and pairing every other player (`PairingOfEveryOther`)
  shows that a budget of all players always works. `PairIsFair` adds the bye.
* The sums. `SumIsTally` says that the folds over matches are sums
  along some enumeration; `SumInParts` splits a sum over the matches into that over the
  two-seat games and that over the byes, which is how `pair.go` and `standings.go` differ.
* The ranks. `RoundedType`, `MeanSumExists` and `MeanSumType` show that every percentage is a
  float with a positive denominator, so that the order of the rows key by key is total
  and transitive (`PrecedesOrders`). Ties with an eps are not transitive; `TiesAreSameKeys`
  says that they are those of equal keys where no rounding shows. `RanksExist`
  unfolds the recursive function of ranks, and `RankCountsTheBetter` is by least
  counterexample on the position. `OrderExists` builds a sorted order of any finite set.

`ByesAreFair` is about rounds of the past, and inductive only as `ByesInvariant`: the draft is
fair against the rounds published so far, and a report never changes the rounds that one was
drafted from (`BeforeStays`). `PickByeIsFair` is the loop over the groups,
`SwappedTablesAreFair` a swap that leaves the bye alone.

What they need of the rounds is `RoundsInvariant`: every published round is a finite set of
matches of one or two players, with a result that fits its seats or none; every draft is
a set of such tables (`Swap` keeps them so, whoever has dropped meanwhile). `PairingAlwaysEnds` says that none of it is vacuous: in every reachable state
the budget loop ends, every pairing it may end with is one of the active players, and
there is a table of standings. No run checks `RoundsInvariant` and `ByesInvariant`, since the
properties of `swiss` rest on them.

## 6. Cubes

`Cubes.tla` is one cube: its row, `cube_cards` by oracle id, `cube_changes`, and
`oracleOf`, the part of the catalogue that cubes see. `past` is history: the
quantities of every version.

`ApplyChange` resolves printings before its transaction (`Resolve`), locks and checks
(`LockAndCheck`, `Refuse`) and writes (`Commit`, or `CommitFails` when a foreign key
or a check of the table refuses). `ChangePrinting` has no lock and no version: a
read (`SwapRead`) and a write (`SwapWrite`). `Delete` removes everything; Create is
the initial state. `Sync` moves, adds or removes one printing of the catalogue, as the
foreign keys allow, which is what section 7 shows of an import. `CardsAt` is the
backward replay of `replay.go`, a recursive function.

`cubes` has one card in two printings, two editors, three versions, two lines a diff
and two copies a line. One card is enough because every check and every change is
made card by card; a second one adds nothing but the product of two such histories.
Three versions are the least to add, remove and add again with a swap in between.
It shows that the replay gives what the list was (`ReplayIsHistory`), that every card
of a past list is in the catalogue (`PastCardsKnown`), and that an edit commits on
what its author saw (`EditsApplyToWhatWasSeen`).

`OneRowPerCard` ("two printings of the same card cannot coexist", 00004_cubes.sql) is
refuted, with two cards and without a run of its own: a sync moves a printing to the
card of another row of the list.

`CubesProofs.tla` proves every property of the run, for any number of cards, editors, changes
and copies: `EditsApply`, `ReplayShowsHistory`, `PastCardsAreKnown`, and `TypeCorrect`,
`ReferencesAreKnown` and `ChangesAlwaysInvert`, which they rest on. The invariant adds
`LockHolds`: at most one edit is locked, the version is then the one it expects, and its
removals fit the list, which swaps do not change. `ChangesInvert` is the step of the replay.
That the recursion of such steps gives every version is shown without a schema of induction,
by the least number, counted from the end of the changelog, at which it would go wrong
(`ReplayGoesWell`); that `ReplayBackwards` has a value at all by the same argument
(`ReplayExists`).

## 7. Card catalogue sync

`CardSync.tla` has the one goroutine of `scheduler.go` as a program counter `sync`:
boot, describe the file, compare with the last success, record a run, truncate the
staging table, copy in batches, and a transaction of upsert and delete, then the
record of success. A step may fail, the record of a failure may fail, the process may
die anywhere; Scryfall may publish the next file at any time. `doomed` is what the
DELETE has chosen by the snapshot it started with; `pending` are inserts of users
whose transaction is open, which hold the card. The data of a card is the number of
the file it came from.

`card_sync` has two cards, three files, two faults and two references. Two cards are
the least for a batch that is not the file; three files are the least for a stale
staging table to be of neither the last nor the next import; two faults allow a failure while
recovering from one. `CatchesUp` holds under the fairness that the process is
restarted and its ticker fires (`scheduler.go`), a sync runs to its end unless a fault
ends it, and the transactions of users end; faults are bounded, and no fairness makes
Scryfall publish or users act. That a sync ends includes that its download does: the HTTP
client has no timeout (`scryfall.go:28`), so a server that stalls for ever is outside of what
`CatchesUp` says, as is a file without a playable card, which is never imported.

`CardSyncProofs.tla` proves every safety property of the run for any number of
cards, files, faults and references. The invariant adds `StagingIsFile` (from the
truncation on the staging table is the copied part of the file), `DoomedIsMissing` and
`ImportsAdvance` (the file under import is newer than every recorded one and not older
than the imported one).

## 8. Collections and pasted lists

`Catalogue.tla` declares what readers share: the printings that are known now and the card
of each (`cardOf`), which a sync may change as it may any other column. In
`Collections.tla` a transaction is a sequence of statements; `view[t]` holds the rows
it has written or locked, a statement on a row that another transaction holds waits,
`Deadlock` ends one of two that wait for each other, `Abort` is a cancelled request.
A row is stored with the card that its printing has when it is inserted (`rowCard`; `viewCard`
for the rows that an open transaction has locked or inserted) and keeps it when it is written again. ChangePrinting is
`LockSource`, `CheckTarget` (the target is a printing of the card that the source was stored
with, or `MoveRefused`), `AddTarget` (or `TargetGone`, if a sync has deleted it since) and
`FinishMove`. `SetQuantity` is one statement. `Upsert` and `Vanish` are what a sync does. An
import is modelled from its merged batch on (`Merge`); a line that the merge lost would not be seen.

`Ledger.tla` is what the owner is promised: copies per
printing, changed by whole operations, cut off at 999; `ImplementsLedger` is the
refinement, and `OperationsAreWhole` says that it is the operation that was asked for. The
second is needed beside the first, since a user may set any one quantity to anything: a lost
update of a single row is a step of the ledger, though not of the request that made it.

`ListResolution.tla` is `cards/list.go`: how a line is read and the ladder from set and
collector number to name to suggestions, with the retry that takes the whole line as a
name. A line is a sequence of tokens, and constants say which of them are numbers, set
codes and collector numbers. `ImportReview.tla` composes the two as the dialog does:
paste, choose, import, by when the catalogue may have changed. `review` is the lines under
review, each with the line it was read from, and the printing chosen for it.

`import_review` has three printings (two of one card, one of which vanishes, comes back and
moves to a third card, and a card whose name begins with a year and ends like the set code of
the other), two texts, two requests at a time and at most two copies of a printing, so that
every sum may be cut off. One text has a name with the slot of another card, so that the user
must choose, and a line that is no card; the other has the long name with and without a quantity, a
selector alone, and lines that are merged. Two transactions are the least for a deadlock, of two moves in
opposite directions or a move and an import; cycles of more would need three
requests of one user. `CallsEnd` assumes that requests run on, that a lock is granted in
the end to whoever waits for it while it is free again and again (the queue of Postgres,
hence strong fairness) and that Postgres looks for deadlocks.

`wantlist` refutes a comment of the code. A wantlist by card should never ask for more than the
one by printing, since any printing satisfies a slot (`WantlistModesAgree`). A cube is stored
with a printing, a sync moves the printing to another card, the user gets a copy: it is the very printing of
the cube, and the wantlist by card does not count it, because the row of the cube and that of
the collection were stored with different cards. The two cubes of the runs are of before
anything has moved.

`NamesImportable` takes the comment in `list.go` at its word, within what the code says it
cannot do: a line that is all number or all selector is not a name, a name that begins with
a small number needs its quantity in front, and a selector that the catalogue has wins.

`CollectionsProofs.tla` proves every property of `import_review`, for any finite catalogue, any
text and any number of requests: `CommitsAreSerial` (the refinement of `Ledger`),
`RequestsAreWhole`, `MatchesAreTyped` and `EveryNameImportable`. The
invariant says that no row is locked twice (`LocksExclude`) and that the rows a request
holds are the committed ones with its part of the work done so far (`Holds`); for an import
that is the first lines of its batch, each printing once (`MergeType`). `OthersHold` is the
central lemma: whoever commits owns the rows it writes, so what the others hold stays
true. The folds and recursions (`Copies`, `Merge`, `BuildImportItems`) are handled by
existence lemmas over 0..N and over finite sets (`RecursionExists`, `TallyExists`), by
least counterexamples again. Only model-checked: `CallsEnd`, which is liveness.

## 9. Accounts

`Accounts.tla` is `internal/auth`. No operation is a transaction, so every statement
is a step, other requests run between two of them, and `Stop` ends a request anywhere.
`user`, `linked`, `link` and `sessions` are the tables; `call` is what each request
holds. An account is its e-mail address, a link a row of `auth_tokens` by account,
purpose and number. `VerifyEmail` and `ResetPassword` consume the link in the statement
that finds it. `CompleteLogin` and the steps of `matchOrCreateUser` are the provider
logins; an explicit link is a `CompleteLogin` of an account with a session.

`accounts` has two addresses, one of which uses passwords and one provider that vouches
for it, the other a provider that does not; two passwords, two requests at a time, one
link of a kind and one fault. Two requests are the least for any race here, since each
of them is of two requests; one fault is enough to stop a registration or a login at each
of its steps. The liveness properties say that nobody is locked out: they assume that
requests run on, that expired links go, and that the user tries again, opens the mail
he gets (strong fairness, because his tries are enabled again and again and not always)
and that faults end. There is no fairness on logins, resets or explicit links.

`AccountsProofs.tla` proves `SpentOnce`, `SessionsAreEarned`, `VerifiedPasswordKept` and
`IdentityStays` for any number of addresses, identities, links and requests. The
invariant adds `AccountsExist` (whatever names an account names one that is there, which
types the updates), `LinksAreHeld` (a link that is written and not mailed, or used up,
belongs to one request) and `LoginsAreEarned`. `ProgressStep` is the central lemma:
accounts stay, verified ones stay verified, identities stay where they are, so what a
request has seen still holds when it writes.

## 10. What the proofs rest on

Each proof module has one inductive invariant, `Init` implies it, every step keeps it,
and the theorems follow from it by temporal logic. The assumptions are those of the
modules: bounds are numbers, null values are new, an identity has an address, the
organizer is no player, the players of a tournament are finitely many, the games of a
result are those of a match of three, the catalogue is finite and its ranks are numbers, a pasted line
is a sequence with at least one token, a cube asks for quantities of known ids, and a card
may begin with a number only above the largest quantity (1993 to 2099 against 999, the
constants of `list.go`). TLC evaluates them in every run.

Two theorems have a hypothesis beyond the specification, `SeatsArePromised` and
`SolePaymentsKeepPromise` (section 3): the refinement is false where a denial takes a seat
away. The behaviours of the run `seats`, with its one session and one event id, satisfy both
hypotheses. `RanksFailOnlyForRounding` has its condition in the property, table by table.

Left to TLC alone is liveness (`UnpaidSeatEnds`, `ChargeSettles`, `CatchesUp`, `CallsEnd`,
`VerificationRecovers`, `ProviderLoginWorks`), which needs fairness and ENABLED. Every
invariant and every action property of a passing run is proved.

Proved and checked by no run of its own, because it supports something that is:
`WaitlistPositions`, `ClosedRegistration`, `SeatInvariant` and `MoneyInvariant` of
Registrations, the types of Tournament, Cubes, CardSync and Accounts, `ReferencesKnown` and
`ChangesInvert` of Cubes, `CollectionInvariant` and `ReviewInvariant` of the collections,
`IdentityStays` of Accounts, `RoundsInvariant`, `ByesInvariant` and `PairingAlwaysEnds` of the
Swiss rounds.

## 11. Not modelled

* Events: the links of an event to cubes (SetCubes) and the listings; e-mails.
* Cubes: Update (name, description, visibility), which decides who may call, and listings.
* Cards: Autocomplete, Search and Printings are queries without state; `NormalizeName`
  and the limit of 500 lines of a pasted list.
* Accounts: hashing, the state cookie of a provider login, display names, texts of mails.
* The rate limiter: a counter behind one mutex, of which every property would restate a
  guard. A fixed window lets up to two limits pass around its edge.
* The 53 bits of the standings' floats: TLC checks eleven, the proofs hold for any number of
  them. That eps lies between the rounding and the least difference is a matter of the
  numbers (section 5), which no theorem needs.
* HTTP handlers, configuration, mail transport and the rest of the frontend: decoding and
  presentation over the services.

PROJECT.json lists each component with its reason and, under `hazards`, the line where
each hazard bites and the properties that cover it.
