----------------------------- MODULE Tournament -----------------------------
(***************************************************************************)
(* The swiss tournament of a started event: rounds, results and drops      *)
(* (src/backend/internal/tournaments/service.go, queries/tournaments.sql), *)
(* with what internal/events does to it: finish, cancel, and the drop of a *)
(* removed participant.                                                    *)
(*                                                                         *)
(* Every mutation locks the event row first, so each is one action.  What  *)
(* a transaction reads of the clock is fixed before it waits for the lock: *)
(* rounds.created_at and match_result_reports.reported_at are the start of *)
(* the transaction.  BeginPairing and BeginReport are those starts.        *)
(*                                                                         *)
(* swiss.Pair is abstracted to any pairing of the active players, which    *)
(* SwissRounds shows it to be.  Which of the two slots of a match a player *)
(* has only matters to standings, so a match is the set of its players.    *)
(***************************************************************************)
EXTENDS SwissTables, Sequences

CONSTANTS
    Players,      \* users with a paid registration when the event starts
    Organizer,    \* any admin
    Results,      \* the scores that callers report
    NoResult,     \* the null result of a match
    MaxRounds,    \* the most rounds that the API plans (30)
    MaxReports    \* bound on the reports of a match

ASSUME FinitePlayers == IsFiniteSet(Players)
ASSUME OrganizerIsNoPlayer == Organizer \notin Players
ASSUME BoundsAreNat == MaxRounds \in Nat \ {0} /\ MaxReports \in Nat

\* Result.valid with the draws that the API always sends, none.
Valid(r) == r[1] + r[2] <= 3

ValidResults == {r \in (0..2) \X (0..2) : Valid(r)}

ASSUME ResultsAreValid == Results \subseteq ValidResults
ASSUME NoResultIsNew == NoResult \notin ValidResults

VARIABLES
    evStatus,      \* events.status, from the start of the event on
    paid,          \* players whose registration is 'paid'
    ejected,       \* players whose registration is 'removed'
    planned,       \* tournaments.planned_rounds, 0 while there is no tournament
    roster,        \* tournament_players
    dropped,       \* dropped_at is set
    late,          \* ... and a round has a later created_at
    pairing,       \* a PairNextRound transaction has begun and waits for the lock
    droppedSince,  \* dropped_at is later than the begin of that transaction
    rounds,        \* rounds and their matches, in order of number
    calls,         \* ReportResult transactions that have begun
    missed         \* history: dropped players a round was paired without

rosterVars == <<paid, ejected, roster, dropped, late>>
clockVars  == <<pairing, droppedSince>>
vars == <<evStatus, rosterVars, clockVars, planned, rounds, calls, missed>>

Statuses   == {"draft", "published", "completed"}
ByeResult  == <<2, 0>>
Reporters  == Players \cup {Organizer}
Reports    == [by : Reporters, score : Results, stamp : 1..MaxReports]
Matches    == [seats : SUBSET Players, score : ValidResults \cup {NoResult}, log : SUBSET Reports]
Rounds     == [status : Statuses, matches : SUBSET Matches]
Calls      == [round : Nat, seats : SUBSET Players, report : Reports]

-----------------------------------------------------------------------------
(* Matches, pairings and the report log *)

Tables(round) == {m.seats : m \in round.matches}
Seats(round) == UNION Tables(round)
IsBye(m)     == Cardinality(m.seats) = 1

Open(round)  == round.status # "completed"

Unplayed(t) == [seats |-> t, score |-> NoResult, log |-> {}]
Draft(P)    == [status |-> "draft", matches |-> {Unplayed(t) : t \in P}]

\* ceil(log2(n)), at least one.
DefaultRounds(n) == CHOOSE k \in 1..n : n <= 2^k /\ \A j \in 1..(k - 1) : 2^j < n

ASSUME DefaultIsPlannable == \A n \in 1..Cardinality(Players) : DefaultRounds(n) \in 1..MaxRounds

OrganizerReported(m) == \E e \in m.log : e.by = Organizer

PlayerLog(m) == {e \in m.log : e.by # Organizer}

\* Scores of the latest report of each reporter in a log.
LatestScores(log) ==
    {e.score : e \in {f \in log : \A g \in log : g.by = f.by => g.stamp <= f.stamp}}

\* Get: the badge that clears, and below the sticky one of the organizer.
Disputed(m) == ~OrganizerReported(m) /\ Cardinality(LatestScores(PlayerLog(m))) > 1

\* Mutant: the scores are compared before the report is among them.
HadDisputeBefore(m) ==
    \E e \in PlayerLog(m) :
        Cardinality(LatestScores({f \in PlayerLog(m) : f.stamp < e.stamp})) > 1

HadDispute(m) ==
    \E e \in PlayerLog(m) :
        Cardinality(LatestScores({f \in PlayerLog(m) : f.stamp <= e.stamp})) > 1

Replace(i, m, n) ==
    rounds' = [rounds EXCEPT ![i].matches = (@ \ {m}) \cup {n}]

-----------------------------------------------------------------------------
\* The event has just started: whoever has paid may enter the roster.
Init ==
    /\ evStatus = "started"
    /\ paid = Players
    /\ ejected = {}
    /\ planned = 0
    /\ roster = {}
    /\ dropped = {}
    /\ late = {}
    /\ pairing = FALSE
    /\ droppedSince = {}
    /\ rounds = <<>>
    /\ calls = {}
    /\ missed = {}

-----------------------------------------------------------------------------
(* The organizer: tournament and rounds *)

\* Upsert creates the tournament from the paid roster or changes its length.
Upsert(n) ==
    /\ evStatus = "started"
    /\ planned' = n
    /\ IF planned = 0
       THEN paid # {} /\ roster' = paid
       ELSE n >= Len(rounds) /\ UNCHANGED roster
    /\ UNCHANGED <<evStatus, paid, ejected, dropped, late, clockVars, rounds, calls, missed>>

BeginPairing ==
    /\ evStatus = "started"
    /\ ~pairing
    /\ pairing' = TRUE
    /\ droppedSince' = {}
    /\ UNCHANGED <<evStatus, rosterVars, planned, rounds, calls, missed>>

\* Mutant: any draft or published round may be left behind.
PairingAllowedAnyTime(S, n) == Len(rounds) < n /\ Cardinality(S) >= 2

PairingAllowed(S, n) ==
    /\ \A i \in DOMAIN rounds : ~Open(rounds[i])
    /\ Len(rounds) < n
    /\ Cardinality(S) >= 2

\* Without a tournament, pairing creates it with its default length.
PairNextRound ==
    LET isNew   == planned = 0
        players == IF isNew THEN paid ELSE roster
        n       == IF isNew THEN DefaultRounds(Cardinality(paid)) ELSE planned
    IN  /\ pairing
        /\ evStatus = "started"
        /\ players # {}
        /\ PairingAllowed(players \ dropped, n)
        /\ roster' = players
        /\ planned' = n
        /\ \E P \in Pairings(players \ dropped) : rounds' = Append(rounds, Draft(P))
        /\ late' = late \cup (dropped \ droppedSince)
        /\ missed' = missed \cup dropped
        /\ pairing' = FALSE
        /\ droppedSince' = {}
        /\ UNCHANGED <<evStatus, paid, ejected, dropped, calls>>

\* One of its conditions fails, or the database does.
PairingRefused ==
    /\ pairing
    /\ pairing' = FALSE
    /\ droppedSince' = {}
    /\ UNCHANGED <<evStatus, rosterVars, planned, rounds, calls, missed>>

\* Mutant: the draft keeps the matches it had.
RerollAdds(i) ==
    /\ evStatus = "started"
    /\ rounds[i].status = "draft"
    /\ \E P \in Pairings(roster \ dropped) :
          rounds' = [rounds EXCEPT ![i].matches = @ \cup Draft(P).matches]
    /\ UNCHANGED <<evStatus, rosterVars, clockVars, planned, calls, missed>>

\* Unlike PairNextRound, Reroll does not ask for two active players.
Reroll(i) ==
    /\ evStatus = "started"
    /\ rounds[i].status = "draft"
    /\ \E P \in Pairings(roster \ dropped) : rounds' = [rounds EXCEPT ![i] = Draft(P)]
    /\ UNCHANGED <<evStatus, rosterVars, clockVars, planned, calls, missed>>

\* Players p of match m and q of match n change places; the empty slot of a
\* bye cannot be chosen, and a swap within a match only turns it around.
Swap(i, m, n, p, q) ==
    /\ evStatus = "started"
    /\ rounds[i].status = "draft"
    /\ m # n /\ p \in m.seats /\ q \in n.seats
    /\ q \notin m.seats \ {p} /\ p \notin n.seats \ {q}
    /\ rounds' = [rounds EXCEPT ![i].matches = (@ \ {m, n}) \cup
           {Unplayed((m.seats \ {p}) \cup {q}), Unplayed((n.seats \ {q}) \cup {p})}]
    /\ UNCHANGED <<evStatus, rosterVars, clockVars, planned, calls, missed>>

\* Mutant: byes wait for a report.
PublishAsIs(i) ==
    /\ evStatus = "started"
    /\ rounds[i].status = "draft"
    /\ rounds' = [rounds EXCEPT ![i].status = "published"]
    /\ UNCHANGED <<evStatus, rosterVars, clockVars, planned, calls, missed>>

Publish(i) ==
    /\ evStatus = "started"
    /\ rounds[i].status = "draft"
    /\ rounds' = [rounds EXCEPT ![i] =
           [status |-> "published",
            matches |-> {IF IsBye(m) THEN [m EXCEPT !.score = ByeResult] ELSE m :
                            m \in rounds[i].matches}]]
    /\ UNCHANGED <<evStatus, rosterVars, clockVars, planned, calls, missed>>

Complete(i) ==
    /\ evStatus = "started"
    /\ rounds[i].status = "published"
    /\ \A m \in rounds[i].matches : m.score # NoResult
    /\ rounds' = [rounds EXCEPT ![i].status = "completed"]
    /\ UNCHANGED <<evStatus, rosterVars, clockVars, planned, calls, missed>>

-----------------------------------------------------------------------------
(* Results *)

Stamps(i, m) == {e.stamp : e \in m.log} \cup
                {c.report.stamp : c \in {d \in calls : d.round = i /\ d.seats = m.seats}}

\* reported_at is the start of the transaction: the new stamp is later than that
\* of every report of the match that has begun.
BeginReport(i, m, by, r) == \E now \in 1..MaxReports :
    /\ evStatus = "started"
    /\ rounds[i].status # "draft"
    /\ by \in m.seats \cup {Organizer}
    /\ \A t \in Stamps(i, m) : t < now
    /\ now = 1 \/ now - 1 \in Stamps(i, m)
    /\ calls' = calls \cup {[round |-> i, seats |-> m.seats,
                             report |-> [by |-> by, score |-> r, stamp |-> now]]}
    /\ UNCHANGED <<evStatus, rosterVars, clockVars, planned, rounds, missed>>

\* Mutants: the organizer's lock ignored; earlier rounds stay open to reports.
ReportableOverOrganizer(c, m) ==
    /\ ~IsBye(m)
    /\ c.round = Len(rounds) /\ rounds[c.round].status # "draft"
    /\ c.report.by = Organizer \/ rounds[c.round].status = "published"
ReportableAnyRound(c, m) ==
    /\ ~IsBye(m)
    /\ c.report.by = Organizer \/ ~OrganizerReported(m)
    /\ rounds[c.round].status # "draft"
    /\ c.report.by = Organizer \/ rounds[c.round].status = "published"

\* Players report while the round is published and no organizer has reported;
\* the organizer until the next round is paired.  Byes take no report.
Reportable(c, m) ==
    /\ ~IsBye(m)
    /\ c.report.by = Organizer \/ ~OrganizerReported(m)
    /\ c.round = Len(rounds) /\ rounds[c.round].status # "draft"
    /\ c.report.by = Organizer \/ rounds[c.round].status = "published"

\* The log is append-only, the stored result is the last one written.
ReportResult(c) == \E m \in rounds[c.round].matches :
    /\ evStatus = "started"
    /\ m.seats = c.seats
    /\ Reportable(c, m)
    /\ Replace(c.round, m, [m EXCEPT !.score = c.report.score, !.log = @ \cup {c.report}])
    /\ calls' = calls \ {c}
    /\ UNCHANGED <<evStatus, rosterVars, clockVars, planned, missed>>

\* One of its conditions fails, or the database does.
ReportRefused(c) ==
    /\ calls' = calls \ {c}
    /\ UNCHANGED <<evStatus, rosterVars, clockVars, planned, rounds, missed>>

-----------------------------------------------------------------------------
(* Players come and go *)

SetDropped(p) ==
    /\ dropped' = dropped \cup {p}
    /\ droppedSince' = IF pairing THEN droppedSince \cup {p} ELSE droppedSince

Drop(p) ==
    /\ evStatus = "started"
    /\ p \in roster \ dropped
    /\ SetDropped(p)
    /\ UNCHANGED <<evStatus, paid, ejected, roster, late, pairing, planned, rounds, calls, missed>>

Undrop(p) ==
    /\ evStatus = "started"
    /\ p \in dropped \ late
    /\ dropped' = dropped \ {p}
    /\ droppedSince' = droppedSince \ {p}
    /\ missed' = missed \ {p}
    /\ UNCHANGED <<evStatus, paid, ejected, roster, late, pairing, planned, rounds, calls>>

\* events.RemoveRegistration of a paid row: any event status, and
\* DropTournamentPlayerByEventUser leaves an older dropped_at alone.
Remove(p) ==
    /\ p \in paid
    /\ paid' = paid \ {p}
    /\ ejected' = ejected \cup {p}
    /\ IF p \in roster \ dropped THEN SetDropped(p) ELSE UNCHANGED <<dropped, droppedSince>>
    /\ UNCHANGED <<evStatus, roster, late, pairing, planned, rounds, calls, missed>>

\* A refund, or the cancellation of the event: the tournament is not told.
PaidLeaves(p) ==
    /\ p \in paid
    /\ paid' = paid \ {p}
    /\ UNCHANGED <<evStatus, ejected, roster, dropped, late, clockVars, planned, rounds, calls, missed>>

-----------------------------------------------------------------------------
(* The event ends *)

\* Transition("finish") counts the open rounds under the event lock.
Finish ==
    /\ evStatus = "started"
    /\ \A i \in DOMAIN rounds : ~Open(rounds[i])
    /\ evStatus' = "finished"
    /\ UNCHANGED <<rosterVars, clockVars, planned, rounds, calls, missed>>

Cancel ==
    /\ evStatus = "started"
    /\ evStatus' = "cancelled"
    /\ UNCHANGED <<rosterVars, clockVars, planned, rounds, calls, missed>>

-----------------------------------------------------------------------------
Next ==
    \/ \E n \in 1..MaxRounds : Upsert(n)
    \/ BeginPairing \/ PairNextRound \/ PairingRefused
    \/ \E i \in DOMAIN rounds :
         \/ Reroll(i) \/ Publish(i) \/ Complete(i)
         \/ \E m, n \in rounds[i].matches : \E p \in m.seats, q \in n.seats : Swap(i, m, n, p, q)
         \/ \E m \in rounds[i].matches, by \in Reporters, r \in Results : BeginReport(i, m, by, r)
    \/ \E c \in calls : ReportResult(c) \/ ReportRefused(c)
    \/ \E p \in Players : Drop(p) \/ Undrop(p) \/ Remove(p) \/ PaidLeaves(p)
    \/ Finish \/ Cancel

Spec == Init /\ [][Next]_vars

-----------------------------------------------------------------------------
(* Properties *)

\* Every table and every transaction under way has its type.
TypeOK ==
    /\ evStatus \in {"started", "finished", "cancelled"}
    /\ paid \subseteq Players
    /\ ejected \subseteq Players
    /\ planned \in 0..MaxRounds
    /\ roster \subseteq Players /\ (planned = 0 => roster = {})
    /\ dropped \subseteq roster
    /\ late \subseteq dropped
    /\ pairing \in BOOLEAN
    /\ droppedSince \subseteq dropped
    /\ rounds \in Seq(Rounds)
    /\ calls \subseteq Calls /\ \A c \in calls : c.round \in DOMAIN rounds
    /\ missed \subseteq roster

\* One round in flight, and never more rounds than planned, also when the
\* organizer shortens the tournament while a round is being paired.
OneOpenRound ==
    /\ Len(rounds) <= planned
    /\ \A i \in DOMAIN rounds : i < Len(rounds) => ~Open(rounds[i])

\* However a draft is re-rolled and swapped, its matches are distinct tables
\* that pair players of the roster, each once, with a bye only for an odd field.
SeatedOnce ==
    \A i \in DOMAIN rounds :
        /\ Seats(rounds[i]) \subseteq roster
        /\ Tables(rounds[i]) \in Pairings(Seats(rounds[i]))
        /\ \A m, n \in rounds[i].matches : m.seats = n.seats => m = n

\* Standings never read half a round: drafts hold no results, a published bye
\* counts 2-0, a completed round is scored throughout, and a stored result is
\* one that somebody reported.
ScoresFollowStatus ==
    \A i \in DOMAIN rounds : \A m \in rounds[i].matches :
        /\ rounds[i].status = "draft" => m.score = NoResult /\ m.log = {}
        /\ rounds[i].status = "completed" => m.score # NoResult
        /\ IsBye(m) => m.log = {} /\ (rounds[i].status = "draft" \/ m.score = ByeResult)
        /\ ~IsBye(m) => IF m.log = {} THEN m.score = NoResult
                                      ELSE \E e \in m.log : e.score = m.score

\* Once an organizer has reported, the stored result is an organizer's, however
\* the reports of the players were delayed.
OrganizerRules ==
    \A i \in DOMAIN rounds : \A m \in rounds[i].matches :
        OrganizerReported(m) => \E e \in m.log : e.by = Organizer /\ e.score = m.score

\* finish leaves no open round behind, and none is opened afterwards.
FinishedIsComplete ==
    evStatus = "finished" => \A i \in DOMAIN rounds : ~Open(rounds[i])

\* One round after the other: what PairNextRound, Upsert and finish keep together.
RoundsInOrder == OneOpenRound /\ FinishedIsComplete

\* Results that later pairings were made from do not change, and nothing does
\* once the event is over, also for a call that began before.
ResultsFrozen == [][
    /\ \A i \in DOMAIN rounds : i < Len(rounds) => rounds'[i] = rounds[i]
    /\ evStatus # "started" => rounds' = rounds
  ]_vars

\* The live badge never shows a dispute that the organizer's history lacks.
DisputeIsRecorded ==
    \A i \in DOMAIN rounds : \A m \in rounds[i].matches : Disputed(m) => HadDispute(m)

-----------------------------------------------------------------------------
(* Statements of the comments and of the design that the code does not keep *)

\* "Undrop is rejected once any round was created after the drop": who was left
\* out of a pairing does not become active again.
UndropUntilPaired == [][ (dropped \ dropped') \cap missed = {} ]_vars

\* "Future rounds skip them": a removed participant is not paired any more.
EjectedNotPaired == [][
    Len(rounds') > Len(rounds) => Seats(rounds'[Len(rounds')]) \cap ejected = {}
  ]_vars

\* "Standings are final" once the event is finished, the drop flags included.
StandingsFinal == [][
    evStatus = "finished" => UNCHANGED <<roster, dropped, rounds>>
  ]_vars

\* "The stored result stays consistent": when both players' latest reports
\* agree and no organizer has reported, that score is the stored one.
AgreementIsStored ==
    \A i \in DOMAIN rounds : \A m \in rounds[i].matches :
        LET by == {e.by : e \in m.log} IN
        by = m.seats /\ ~Disputed(m) => LatestScores(m.log) = {m.score}

\* "Sticky": a dispute that was visible once stays in the organizer's history.
DisputeIsSticky == [][
    \A i \in DOMAIN rounds : \A m \in rounds[i].matches : HadDispute(m) =>
        \E n \in rounds'[i].matches : n.seats = m.seats /\ HadDispute(n)
  ]_vars
=============================================================================
