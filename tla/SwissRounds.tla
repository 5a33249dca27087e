----------------------------- MODULE SwissRounds -----------------------------
(***************************************************************************)
(* A tournament round by round, with the pairings and standings of the     *)
(* swiss engine: what Tournament leaves open, at the granularity that the  *)
(* event lock gives (src/backend/internal/tournaments/service.go).         *)
(*                                                                         *)
(* Reports, their log and their races are in Tournament; here a match of   *)
(* the last round just has its latest result.                              *)
(***************************************************************************)
EXTENDS SwissPairing

CONSTANTS Players, Scores, MaxRounds

ASSUME PlayersAreFinite == IsFiniteSet(Players)
ASSUME ScoresAreScores == Scores \subseteq {s \in (0..2) \X (0..2) : s[1] + s[2] <= 3}

VARIABLES
    history,   \* published rounds: their matches
    draft,     \* the tables of the draft round, NoDraft if there is none
    dropped,
    moved      \* history: the rounds in which the organizer has moved the bye

vars == <<history, draft, dropped, moved>>

NoDraft == {{}}
Active  == Players \ dropped

\* The games that each seat wins, from either side of the table.
Results(t) ==
    {g \in [t -> 0..2] : \E s \in Scores : \E p, q \in t : p # q /\ g[p] = s[1] /\ g[q] = s[2]}

Unreported(t) == [seats |-> t, games |-> NoResult]
Bye(t)        == [seats |-> t, games |-> [p \in t |-> 2]]

Scored == \A i \in DOMAIN history : \A m \in history[i] : m.games # NoResult

Init == history = <<>> /\ draft = NoDraft /\ dropped = {} /\ moved = {}

ByesIn(P) == {t \in P : Cardinality(t) = 1}
NextRound == Len(history) + 1

\* The round before is complete, which asks for its results.
PairNextRound ==
    /\ draft = NoDraft /\ Scored
    /\ Len(history) < MaxRounds
    /\ Cardinality(Active) >= 2
    /\ draft' \in Pair(Active, history)
    /\ moved' = moved \ {NextRound}
    /\ UNCHANGED <<history, dropped>>

Reroll ==
    /\ draft # NoDraft
    /\ draft' \in Pair(Active, history)
    /\ moved' = moved \ {NextRound}
    /\ UNCHANGED <<history, dropped>>

\* The organizer exchanges two players of the draft.
Swap ==
    /\ draft # NoDraft
    /\ \E t, u \in draft : \E p \in t, q \in u :
          /\ t # u
          /\ draft' = (draft \ {t, u}) \cup {(t \ {p}) \cup {q}, (u \ {q}) \cup {p}}
    /\ moved' = IF ByesIn(draft') = ByesIn(draft) THEN moved ELSE moved \cup {NextRound}
    /\ UNCHANGED <<history, dropped>>

Publish ==
    /\ draft # NoDraft
    /\ history' = Append(history,
           {IF Cardinality(t) = 1 THEN Bye(t) ELSE Unreported(t) : t \in draft})
    /\ draft' = NoDraft
    /\ UNCHANGED <<dropped, moved>>

\* A result of the last round, or a correction of one.
Report ==
    /\ draft = NoDraft /\ history # <<>>
    /\ LET n == Len(history)
       IN  \E m \in history[n] : \E g \in Results(m.seats) :
              history' = [history EXCEPT ![n] = (@ \ {m}) \cup {[m EXCEPT !.games = g]}]
    /\ UNCHANGED <<draft, dropped, moved>>

Drop(p) ==
    /\ dropped' = dropped \cup {p}
    /\ UNCHANGED <<history, draft, moved>>

Next ==
    \/ PairNextRound \/ Reroll \/ Swap \/ Publish \/ Report
    \/ \E p \in Active : Drop(p)

Spec == Init /\ [][Next]_vars

-----------------------------------------------------------------------------
(* Properties *)

Rematches(P) == Cardinality(P \cap Played(history))

\* A round pairs all active players and nobody else, which is what Tournament
\* assumes of Pair; "falling back to the minimum number of rematches": of the
\* pairings with the same bye none has fewer.
FewestRematches == [][PairNextRound \/ Reroll =>
    /\ draft' \in Pairings(Active)
    /\ \A P \in Pairings(Active) :
          ByesIn(P) = ByesIn(draft') => Rematches(draft') <= Rematches(P)]_vars

\* "a bye from the lowest score group among players without a prior bye", over the
\* published rounds and whatever happened between: whoever had the bye of a round
\* had none before and no more points than the others there who had none, unless
\* the organizer has moved that bye.
ByesAreFair ==
    \A i \in DOMAIN history \ moved :
        LET before == SubSeq(history, 1, i - 1)
        IN  \A m, o \in history[i] : \A p \in m.seats, q \in o.seats :
               m.seats = {p} /\ ~HadBye(before, q) =>
                   ~HadBye(before, p) /\ Points(before, p) <= Points(before, q)

\* The two places that count match points agree, also in the middle of a round:
\* players are paired by the points that the standings show.
PointsAgree == \A p \in Players : Points(history, p) = MatchPoints(history, p)

\* a is before b on the first key on which they do not tie.
Outranks(a, b) ==
    \E k \in 1..4 : /\ AtLeast(a.keys[k], b.keys[k]) /\ ~TiesOn(k, a, b)
                    /\ \A j \in 1..(k - 1) : TiesOn(j, a, b)

CompetitionRanks(rows) ==
    \A i \in 1..Len(rows) :
        Ranks(rows)[i] = 1 + Cardinality({j \in 1..Len(rows) : Outranks(rows[j], rows[i])})

\* No two percentages differ by less than eps without being equal.
NoRoundingShows(rows) ==
    \A i, j \in 1..Len(rows) : \A k \in 1..4 :
        Near(rows[i].keys[k], rows[j].keys[k]) => Same(rows[i].keys[k], rows[j].keys[k])

\* "match points, then OMW%, GW%, OGW%", "ties on all keys share a rank
\* (competition ranking)": a rank counts the players that are before, ties as the
\* ranks see them.  Refuted: the order sees the last bits of a percentage.
RanksAreCompetition == \A rows \in Sorted(Players, history) : CompetitionRanks(rows)

\* Nothing but such a difference puts a rank wrong: every tie is of neighbours, and
\* the rank after a tie skips as many as the tie has.
RanksFailOnlyByRounding ==
    \A rows \in Sorted(Players, history) : NoRoundingShows(rows) => CompetitionRanks(rows)

=============================================================================
