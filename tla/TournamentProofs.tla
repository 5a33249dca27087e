--------------------------- MODULE TournamentProofs ---------------------------
(***************************************************************************)
(* Proofs about Tournament, for every set of players and results and every *)
(* number of rounds and reports: typing, the order of the rounds, and that *)
(* each round is a pairing however it was drafted.                         *)
(***************************************************************************)
EXTENDS Tournament, FiniteSetTheorems, WellFoundedInduction, TLAPS

-----------------------------------------------------------------------------
(* What the actions do to the rounds *)

\* Round i becomes R.
Edit(i, R) ==
    /\ i \in DOMAIN rounds
    /\ R \in Rounds
    /\ rounds' = [rounds EXCEPT ![i] = R]

LEMMA EditKeepsTheRest ==
    ASSUME rounds \in Seq(Rounds), NEW i, NEW R, Edit(i, R)
    PROVE  /\ rounds' \in Seq(Rounds)
           /\ Len(rounds') = Len(rounds)
           /\ DOMAIN rounds' = DOMAIN rounds
           /\ rounds'[i] = R
           /\ \A j \in DOMAIN rounds : j # i => rounds'[j] = rounds[j]
BY DEF Edit

LEMMA RoundTypes ==
    ASSUME rounds \in Seq(Rounds), NEW i \in DOMAIN rounds
    PROVE  /\ rounds[i] \in Rounds
           /\ rounds[i].matches \subseteq Matches
           /\ i \in Nat /\ i \in 1..Len(rounds)
<1>1. i \in 1..Len(rounds) /\ rounds[i] \in Rounds
    OBVIOUS
<1> QED
    BY <1>1 DEF Rounds

LEMMA DraftIsRound ==
    ASSUME NEW S \in SUBSET Players, NEW P \in Pairings(S)
    PROVE  Draft(P) \in Rounds
BY DEF Draft, Pairings, Unplayed, Rounds, Statuses, Matches

LEMMA RerollEdits ==
    ASSUME TypeOK, NEW i \in DOMAIN rounds, Reroll(i)
    PROVE  \E P \in Pairings(roster \ dropped) : Edit(i, Draft(P))
BY DraftIsRound DEF Reroll, Edit, TypeOK

Swapped(i, m, n, p, q) ==
    [rounds[i] EXCEPT !.matches = (@ \ {m, n}) \cup
        {Unplayed((m.seats \ {p}) \cup {q}), Unplayed((n.seats \ {q}) \cup {p})}]

LEMMA SwapEdits ==
    ASSUME TypeOK, NEW i \in DOMAIN rounds, NEW m \in rounds[i].matches, NEW n \in rounds[i].matches,
           NEW p \in m.seats, NEW q \in n.seats, Swap(i, m, n, p, q)
    PROVE  Edit(i, Swapped(i, m, n, p, q))
<1>1. rounds[i] \in Rounds /\ m \in Matches /\ n \in Matches
    BY RoundTypes DEF TypeOK
<1>2. \A S \in SUBSET Players : Unplayed(S) \in Matches
    BY DEF Unplayed, Matches
<1>3. Swapped(i, m, n, p, q) \in Rounds
    BY <1>1, <1>2 DEF Swapped, Rounds, Matches
<1> QED
    BY <1>3 DEF Swap, Swapped, Edit, TypeOK

\* The matches of a round with the byes scored.
Byes2To0(M) == {IF IsBye(m) THEN [m EXCEPT !.score = ByeResult] ELSE m : m \in M}

LEMMA PublishEdits ==
    ASSUME TypeOK, NEW i \in DOMAIN rounds, Publish(i)
    PROVE  Edit(i, [status |-> "published", matches |-> Byes2To0(rounds[i].matches)])
<1>1. rounds[i].matches \subseteq Matches
    BY RoundTypes DEF TypeOK
<1>2. ByeResult \in ValidResults
    BY DEF ByeResult, ValidResults, Valid
<1>3. Byes2To0(rounds[i].matches) \subseteq Matches
    BY <1>1, <1>2 DEF Byes2To0, Matches
<1> QED
    BY <1>3 DEF Publish, Byes2To0, Edit, Rounds, Statuses

LEMMA CompleteEdits ==
    ASSUME TypeOK, NEW i \in DOMAIN rounds, Complete(i)
    PROVE  Edit(i, [rounds[i] EXCEPT !.status = "completed"])
BY RoundTypes DEF Complete, Edit, Rounds, Statuses, TypeOK

Reported(m, c) == [m EXCEPT !.score = c.report.score, !.log = @ \cup {c.report}]

LEMMA ReportEdits ==
    ASSUME TypeOK, NEW c \in calls, ReportResult(c)
    PROVE  \E m \in rounds[c.round].matches :
              /\ m.seats = c.seats /\ Reportable(c, m)
              /\ Reported(m, c) \in Matches
              /\ Edit(c.round, [rounds[c.round] EXCEPT !.matches = (@ \ {m}) \cup {Reported(m, c)}])
<1>1. PICK m \in rounds[c.round].matches :
          /\ m.seats = c.seats
          /\ Reportable(c, m)
          /\ Replace(c.round, m, Reported(m, c))
    BY DEF ReportResult, Reported
<1>2. c.round \in DOMAIN rounds /\ c \in Calls
    BY DEF TypeOK
<1>3. rounds[c.round] \in Rounds /\ m \in Matches
    BY <1>2, RoundTypes DEF TypeOK
<1>4. Reported(m, c) \in Matches
    BY <1>2, <1>3, ResultsAreValid DEF Reported, Matches, Calls, Reports
<1>5. [rounds[c.round] EXCEPT !.matches = (@ \ {m}) \cup {Reported(m, c)}] \in Rounds
    BY <1>3, <1>4 DEF Rounds
<1> QED
    BY <1>1, <1>2, <1>4, <1>5 DEF Replace, Edit

LEMMA PairNextRoundAppends ==
    ASSUME TypeOK, PairNextRound
    PROVE  \E P \in Pairings(roster' \ dropped) :
              /\ Draft(P) \in Rounds
              /\ rounds' = Append(rounds, Draft(P))
              /\ rounds' \in Seq(Rounds)
              /\ Len(rounds') = Len(rounds) + 1
              /\ DOMAIN rounds' = DOMAIN rounds \cup {Len(rounds) + 1}
              /\ rounds'[Len(rounds) + 1] = Draft(P)
              /\ \A j \in DOMAIN rounds : rounds'[j] = rounds[j]
<1>1. PICK P \in Pairings(roster' \ dropped) : rounds' = Append(rounds, Draft(P))
    BY DEF PairNextRound
<1>2. roster' \ dropped \in SUBSET Players
    BY DEF PairNextRound, TypeOK
<1>3. Draft(P) \in Rounds
    BY <1>1, <1>2, DraftIsRound
<1> QED
    BY <1>1, <1>3 DEF TypeOK

-----------------------------------------------------------------------------
(* Typing *)

LEMMA RosterSize ==
    ASSUME NEW S \in SUBSET Players, S # {}
    PROVE  Cardinality(S) \in 1..Cardinality(Players)
BY FinitePlayers, FS_Subset, FS_CardinalityType, FS_EmptySet

LEMMA TypeInit == Init => TypeOK
<1> SUFFICES ASSUME Init
             PROVE  TypeOK
    OBVIOUS
<1>1. rounds \in Seq(Rounds)
    BY DEF Init
<1>2. planned \in 0..MaxRounds
    BY BoundsAreNat DEF Init
<1>3. calls \subseteq Calls /\ \A c \in calls : c.round \in DOMAIN rounds
    BY DEF Init
<1> QED
    BY <1>1, <1>2, <1>3 DEF Init, TypeOK

LEMMA TypeNext == TypeOK /\ [Next]_vars => TypeOK'
<1> SUFFICES ASSUME TypeOK, [Next]_vars
             PROVE  TypeOK'
    OBVIOUS
<1> USE DEF rosterVars, clockVars
<1>1. ASSUME NEW n \in 1..MaxRounds, Upsert(n)
      PROVE  TypeOK'
    BY <1>1, BoundsAreNat DEF Upsert, TypeOK
<1>2. CASE BeginPairing \/ PairingRefused
    BY <1>2 DEF BeginPairing, PairingRefused, TypeOK
<1>3. CASE PairNextRound
    <2>1. rounds' \in Seq(Rounds) /\ DOMAIN rounds \subseteq DOMAIN rounds'
        BY <1>3, PairNextRoundAppends
    <2>2. planned' \in 0..MaxRounds /\ planned' # 0
        BY <1>3, RosterSize, DefaultIsPlannable, BoundsAreNat DEF PairNextRound, TypeOK
    <2>3. roster' \subseteq Players /\ roster \subseteq roster'
        BY <1>3 DEF PairNextRound, TypeOK
    <2> QED
        BY <1>3, <2>1, <2>2, <2>3 DEF PairNextRound, TypeOK
<1>4. ASSUME NEW i \in DOMAIN rounds, Reroll(i)
      PROVE  TypeOK'
    BY <1>4, RerollEdits, EditKeepsTheRest DEF Reroll, TypeOK
<1>5. ASSUME NEW i \in DOMAIN rounds, Publish(i)
      PROVE  TypeOK'
    BY <1>5, PublishEdits, EditKeepsTheRest DEF Publish, TypeOK
<1>6. ASSUME NEW i \in DOMAIN rounds, Complete(i)
      PROVE  TypeOK'
    BY <1>6, CompleteEdits, EditKeepsTheRest DEF Complete, TypeOK
<1>7. ASSUME NEW i \in DOMAIN rounds, NEW m \in rounds[i].matches, NEW n \in rounds[i].matches,
             NEW p \in m.seats, NEW q \in n.seats, Swap(i, m, n, p, q)
      PROVE  TypeOK'
    BY <1>7, SwapEdits, EditKeepsTheRest DEF Swap, TypeOK
<1>8. ASSUME NEW i \in DOMAIN rounds, NEW m \in rounds[i].matches, NEW by \in Reporters,
             NEW r \in Results, BeginReport(i, m, by, r)
      PROVE  TypeOK'
    <2>1. PICK now \in 1..MaxReports :
              calls' = calls \cup {[round |-> i, seats |-> m.seats,
                                    report |-> [by |-> by, score |-> r, stamp |-> now]]}
        BY <1>8 DEF BeginReport
    <2>2. m \in Matches /\ i \in Nat
        BY RoundTypes DEF TypeOK
    <2>3. [round |-> i, seats |-> m.seats, report |-> [by |-> by, score |-> r, stamp |-> now]] \in Calls
        BY <2>2, ResultsAreValid DEF Calls, Reports, Matches
    <2> QED
        BY <1>8, <2>1, <2>3 DEF BeginReport, TypeOK
<1>9. ASSUME NEW c \in calls, ReportResult(c)
      PROVE  TypeOK'
    BY <1>9, ReportEdits, EditKeepsTheRest DEF ReportResult, TypeOK
<1>10. ASSUME NEW c \in calls, ReportRefused(c)
       PROVE  TypeOK'
    BY <1>10 DEF ReportRefused, TypeOK
<1>11. ASSUME NEW p \in Players, Drop(p) \/ Undrop(p) \/ Remove(p) \/ PaidLeaves(p)
       PROVE  TypeOK'
    BY <1>11 DEF Drop, Undrop, Remove, PaidLeaves, SetDropped, TypeOK
<1>12. CASE Finish \/ Cancel
    BY <1>12 DEF Finish, Cancel, TypeOK
<1>13. CASE UNCHANGED vars
    BY <1>13 DEF vars, TypeOK
<1> QED
    BY <1>1, <1>2, <1>3, <1>4, <1>5, <1>6, <1>7, <1>8, <1>9, <1>10, <1>11, <1>12, <1>13 DEF Next

\* Every table and every transaction under way keeps its type.
THEOREM TypeCorrect == Spec => []TypeOK
<1> QED
    BY TypeInit, TypeNext, PTL DEF Spec

-----------------------------------------------------------------------------
(* One open round *)

RoundsInvariant == TypeOK /\ OneOpenRound /\ FinishedIsComplete

\* An edit that opens no round keeps the order of the rounds.
LEMMA EditKeepsOrder ==
    ASSUME TypeOK, OneOpenRound, NEW i, NEW R, Edit(i, R),
           Open(R) => Open(rounds[i]), planned' = planned
    PROVE  OneOpenRound'
BY EditKeepsTheRest DEF OneOpenRound, TypeOK

\* What the steps that edit a round have in common.
LEMMA StepsEditRounds ==
    ASSUME TypeOK, Next, rounds' # rounds
    PROVE  /\ evStatus = "started" /\ evStatus' = "started"
           /\ \/ PairNextRound
              \/ \E i \in DOMAIN rounds, R \in Rounds :
                    /\ Edit(i, R)
                    /\ planned' = planned
                    /\ Open(R) => Open(rounds[i])
                    /\ Open(rounds[i]) \/ i = Len(rounds)
<1> USE DEF rosterVars, clockVars
<1> DEFINE EditsOne == \E i \in DOMAIN rounds, R \in Rounds :
               /\ Edit(i, R)
               /\ planned' = planned
               /\ Open(R) => Open(rounds[i])
               /\ Open(rounds[i]) \/ i = Len(rounds)
           Goal == evStatus = "started" /\ evStatus' = "started" /\ (PairNextRound \/ EditsOne)
<1>1. CASE PairNextRound
    BY <1>1 DEF PairNextRound
<1>2. ASSUME NEW i \in DOMAIN rounds, Reroll(i)
      PROVE  Goal
    <2>1. PICK P \in Pairings(roster \ dropped) : Edit(i, Draft(P))
        BY <1>2, RerollEdits
    <2>2. Draft(P) \in Rounds /\ Open(rounds[i])
        BY <1>2, <2>1 DEF Edit, Reroll, Open
    <2> QED
        BY <1>2, <2>1, <2>2 DEF Reroll
<1>3. ASSUME NEW i \in DOMAIN rounds, NEW m \in rounds[i].matches, NEW n \in rounds[i].matches,
             NEW p \in m.seats, NEW q \in n.seats, Swap(i, m, n, p, q)
      PROVE  Goal
    BY <1>3, SwapEdits DEF Swap, Edit, Open
<1>4. ASSUME NEW i \in DOMAIN rounds, Publish(i)
      PROVE  Goal
    BY <1>4, PublishEdits DEF Publish, Edit, Open
<1>5. ASSUME NEW i \in DOMAIN rounds, Complete(i)
      PROVE  Goal
    <2> DEFINE R == [rounds[i] EXCEPT !.status = "completed"]
    <2>1. Edit(i, R)
        BY <1>5, CompleteEdits
    <2>2. ~Open(R)
        BY RoundTypes DEF Open, TypeOK, Rounds
    <2>3. Open(rounds[i])
        BY <1>5 DEF Complete, Open
    <2> QED
        BY <1>5, <2>1, <2>2, <2>3 DEF Complete, Edit
<1>6. ASSUME NEW c \in calls, ReportResult(c)
      PROVE  Goal
    <2>1. PICK m \in rounds[c.round].matches :
              /\ Reportable(c, m)
              /\ Edit(c.round, [rounds[c.round] EXCEPT !.matches = (@ \ {m}) \cup {Reported(m, c)}])
        BY <1>6, ReportEdits
    <2> DEFINE R == [rounds[c.round] EXCEPT !.matches = (@ \ {m}) \cup {Reported(m, c)}]
    <2>2. Edit(c.round, R) /\ c.round \in DOMAIN rounds /\ R \in Rounds
        BY <2>1 DEF Edit
    <2>3. R.status = rounds[c.round].status
        BY <2>2, RoundTypes DEF TypeOK, Rounds
    <2>4. c.round = Len(rounds)
        BY <2>1 DEF Reportable
    <2> HIDE DEF R
    <2> QED
        BY <1>6, <2>2, <2>3, <2>4 DEF ReportResult, Open
<1>7. \/ PairNextRound
      \/ \E i \in DOMAIN rounds : Reroll(i) \/ Publish(i) \/ Complete(i)
      \/ \E i \in DOMAIN rounds : \E m, n \in rounds[i].matches : \E p \in m.seats, q \in n.seats :
            Swap(i, m, n, p, q)
      \/ \E c \in calls : ReportResult(c)
    BY DEF Next, Upsert, BeginPairing, PairingRefused, BeginReport, ReportRefused,
           Drop, Undrop, Remove, PaidLeaves, Finish, Cancel
<1> QED
    BY <1>1, <1>2, <1>3, <1>4, <1>5, <1>6, <1>7

LEMMA PlannedAndStatus ==
    ASSUME [Next]_vars
    PROVE  /\ \/ planned' = planned \/ PairNextRound
              \/ \E n \in 1..MaxRounds : Upsert(n)
           /\ evStatus' = evStatus \/ Finish \/ evStatus' = "cancelled"
<1> USE DEF rosterVars, clockVars
<1> DEFINE Same == planned' = planned /\ evStatus' = evStatus
<1>1. ASSUME NEW n \in 1..MaxRounds, Upsert(n)
      PROVE  evStatus' = evStatus
    BY <1>1 DEF Upsert
<1>2. PairNextRound => evStatus' = evStatus
    BY DEF PairNextRound
<1>3. BeginPairing \/ PairingRefused => Same
    BY DEF BeginPairing, PairingRefused
<1>4. ASSUME NEW i \in DOMAIN rounds, Reroll(i) \/ Publish(i) \/ Complete(i)
      PROVE  Same
    BY <1>4 DEF Reroll, Publish, Complete
<1>5. ASSUME NEW i, NEW m, NEW n, NEW p, NEW q, Swap(i, m, n, p, q)
      PROVE  Same
    BY <1>5 DEF Swap
<1>6. ASSUME NEW i, NEW m, NEW by, NEW r, BeginReport(i, m, by, r)
      PROVE  Same
    BY <1>6 DEF BeginReport
<1>7. ASSUME NEW c, ReportResult(c) \/ ReportRefused(c)
      PROVE  Same
    BY <1>7 DEF ReportResult, ReportRefused
<1>8. ASSUME NEW p, Drop(p) \/ Undrop(p) \/ Remove(p) \/ PaidLeaves(p)
      PROVE  Same
    BY <1>8 DEF Drop, Undrop, Remove, PaidLeaves
<1>9. Finish \/ Cancel => planned' = planned
    BY DEF Finish, Cancel
<1>10. Cancel => evStatus' = "cancelled"
    BY DEF Cancel
<1>11. UNCHANGED vars => Same
    BY DEF vars
<1> HIDE DEF Same
<1>12. Next \/ UNCHANGED vars
    OBVIOUS
<1>13. Same => planned' = planned /\ evStatus' = evStatus
    BY DEF Same
<1> QED
    BY <1>1, <1>2, <1>3, <1>4, <1>5, <1>6, <1>7, <1>8, <1>9, <1>10, <1>11, <1>12, <1>13 DEF Next

LEMMA RoundsInit == Init => RoundsInvariant
BY TypeInit DEF Init, RoundsInvariant, OneOpenRound, FinishedIsComplete

LEMMA RoundsNext == RoundsInvariant /\ [Next]_vars => RoundsInvariant'
<1> SUFFICES ASSUME RoundsInvariant, [Next]_vars
             PROVE  RoundsInvariant'
    OBVIOUS
<1> USE DEF RoundsInvariant
<1>1. TypeOK'
    BY TypeNext
<1>2. OneOpenRound'
    <2>1. CASE PairNextRound
        <3>1. /\ Len(rounds) < planned'
              /\ \A i \in DOMAIN rounds : ~Open(rounds[i])
            BY <2>1 DEF PairNextRound, PairingAllowed
        <3>2. /\ Len(rounds') = Len(rounds) + 1
              /\ DOMAIN rounds' = DOMAIN rounds \cup {Len(rounds) + 1}
              /\ \A i \in DOMAIN rounds : rounds'[i] = rounds[i]
            BY <2>1, PairNextRoundAppends
        <3>3. planned' \in Nat /\ Len(rounds) \in Nat
            BY <1>1 DEF TypeOK
        <3> QED
            BY <3>1, <3>2, <3>3 DEF OneOpenRound, Open
    <2>2. CASE rounds' # rounds /\ ~PairNextRound
        <3>1. Next
            BY <2>2 DEF vars
        <3>2. PICK i \in DOMAIN rounds, R \in Rounds :
                  Edit(i, R) /\ planned' = planned /\ (Open(R) => Open(rounds[i]))
            BY <2>2, <3>1, StepsEditRounds
        <3> QED
            BY <3>2, EditKeepsOrder
    <2>3. CASE rounds' = rounds /\ ~PairNextRound
        <3>1. planned' = planned \/ \E n \in 1..MaxRounds : Upsert(n)
            BY <2>3, PlannedAndStatus
        <3>2. planned' = planned \/ planned' >= Len(rounds)
            BY <3>1 DEF Upsert, OneOpenRound, TypeOK
        <3> QED
            BY <2>3, <3>2 DEF OneOpenRound
    <2> QED
        BY <2>1, <2>2, <2>3
<1>3. FinishedIsComplete'
    <2>1. CASE rounds' # rounds
        <3>1. evStatus' = "started"
            BY <2>1, StepsEditRounds DEF vars
        <3> QED
            BY <3>1 DEF FinishedIsComplete
    <2>2. CASE rounds' = rounds
        <3>1. evStatus' = "finished" => evStatus = "finished" \/ Finish
            BY PlannedAndStatus
        <3> QED
            BY <2>2, <3>1 DEF Finish, FinishedIsComplete
    <2> QED
        BY <2>1, <2>2
<1> QED
    BY <1>1, <1>2, <1>3

\* The rounds are typed, ordered, and complete when the event is finished.
THEOREM RoundsCorrect == Spec => []RoundsInvariant
<1>1. RoundsInvariant /\ UNCHANGED vars => RoundsInvariant'
    BY RoundsNext
<1> QED
    BY RoundsInit, RoundsNext, PTL DEF Spec

\* No interleaving opens a second round, exceeds the planned number, or leaves
\* an open round in a finished event.
THEOREM RoundsInOrderHolds == Spec => []RoundsInOrder
<1>1. RoundsInvariant => RoundsInOrder
    BY DEF RoundsInvariant, RoundsInOrder
<1> QED
    BY <1>1, RoundsCorrect, PTL

Frozen ==
    /\ \A i \in DOMAIN rounds : i < Len(rounds) => rounds'[i] = rounds[i]
    /\ evStatus # "started" => rounds' = rounds

LEMMA FrozenNext == RoundsInvariant /\ [Next]_vars => Frozen
<1> SUFFICES ASSUME RoundsInvariant, [Next]_vars
             PROVE  Frozen
    OBVIOUS
<1> USE DEF RoundsInvariant
<1>1. CASE rounds' = rounds
    BY <1>1 DEF Frozen
<1>2. CASE PairNextRound
    BY <1>2, PairNextRoundAppends DEF PairNextRound, Frozen
<1>3. CASE rounds' # rounds /\ ~PairNextRound
    <2>1. Next
        BY <1>3 DEF vars
    <2>2. PICK i \in DOMAIN rounds, R \in Rounds :
              Edit(i, R) /\ (Open(rounds[i]) \/ i = Len(rounds))
        BY <1>3, <2>1, StepsEditRounds
    <2>3. \A j \in DOMAIN rounds : j < Len(rounds) => j # i
        BY <2>2 DEF OneOpenRound
    <2>4. evStatus = "started"
        BY <1>3, <2>1, StepsEditRounds
    <2> QED
        BY <2>2, <2>3, <2>4, EditKeepsTheRest DEF TypeOK, Frozen
<1> QED
    BY <1>1, <1>2, <1>3

\* Rounds that later pairings were made from never change, and no round does
\* once the event is over.
THEOREM ResultsAreFrozen == Spec => ResultsFrozen
<1>1. RoundsInvariant /\ [Next]_vars => [Frozen]_vars
    BY FrozenNext
<1> QED
    BY <1>1, RoundsCorrect, PTL DEF Spec, ResultsFrozen, Frozen

-----------------------------------------------------------------------------
(* Every round is a pairing *)

Singles(P) == {t \in P : Cardinality(t) = 1}

LEMMA TablesAreFinite ==
    ASSUME NEW S \in SUBSET Players, NEW P \in Pairings(S)
    PROVE  /\ \A t \in P : t \subseteq S /\ IsFiniteSet(t) /\ Cardinality(t) \in {1, 2}
           /\ IsFiniteSet(P)
           /\ IsFiniteSet(Singles(P))
<1>1. IsFiniteSet(S) /\ IsFiniteSet(SUBSET S)
    BY FinitePlayers, FS_Subset, FS_SUBSET
<1>2. P \subseteq SUBSET S /\ \A t \in P : Cardinality(t) \in {1, 2}
    BY DEF Pairings
<1>3. Singles(P) \subseteq P
    BY DEF Singles
<1> QED
    BY <1>1, <1>2, <1>3, FS_Subset

\* Exchanging one player between two tables of a pairing gives a pairing.
LEMMA SwapIsPairing ==
    ASSUME NEW S \in SUBSET Players, NEW P \in Pairings(S),
           NEW a \in P, NEW b \in P, a # b, NEW p \in a, NEW q \in b
    PROVE  (P \ {a, b}) \cup {(a \ {p}) \cup {q}, (b \ {q}) \cup {p}} \in Pairings(S)
<1> DEFINE a2 == (a \ {p}) \cup {q}
           b2 == (b \ {q}) \cup {p}
           P2 == (P \ {a, b}) \cup {a2, b2}
<1>1. /\ UNION P = S
      /\ \A t, u \in P : t # u => t \cap u = {}
      /\ Cardinality(Singles(P)) = Cardinality(S) % 2
    BY DEF Pairings, Singles
<1>2. a \cap b = {} /\ p \notin b /\ q \notin a /\ p # q
    BY <1>1
<1>3. a2 \cap b2 = {} /\ a2 \cup b2 = a \cup b /\ a2 # b2 /\ a2 # a /\ b2 # b
    BY <1>2
<1>4. Cardinality(a2) = Cardinality(a) /\ Cardinality(b2) = Cardinality(b)
    <2>1. IsFiniteSet(a) /\ IsFiniteSet(b) /\ Cardinality(a) \in Nat /\ Cardinality(b) \in Nat
        BY TablesAreFinite, FS_CardinalityType
    <2>2. IsFiniteSet(a \ {p}) /\ Cardinality(a \ {p}) = Cardinality(a) - 1
        BY <2>1, FS_RemoveElement
    <2>3. Cardinality(a2) = Cardinality(a \ {p}) + 1
        BY <1>2, <2>2, FS_AddElement
    <2>4. IsFiniteSet(b \ {q}) /\ Cardinality(b \ {q}) = Cardinality(b) - 1
        BY <2>1, FS_RemoveElement
    <2>5. Cardinality(b2) = Cardinality(b \ {q}) + 1
        BY <1>2, <2>4, FS_AddElement
    <2> QED
        BY <2>1, <2>2, <2>3, <2>4, <2>5
<1>5. \A t \in P \ {a, b} : t \cap a2 = {} /\ t \cap b2 = {} /\ t # a2 /\ t # b2
    BY <1>1, <1>3
<1>6. UNION P2 = S
    <2>1. UNION P2 = (UNION (P \ {a, b})) \cup (a2 \cup b2)
        OBVIOUS
    <2>2. UNION P = (UNION (P \ {a, b})) \cup (a \cup b)
        OBVIOUS
    <2> QED
        BY <1>1, <1>3, <2>1, <2>2
<1>7. \A t \in P2 : t \in SUBSET S /\ Cardinality(t) \in {1, 2}
    BY <1>4, <1>6, TablesAreFinite
<1>8. \A t, u \in P2 : t # u => t \cap u = {}
    BY <1>1, <1>3, <1>5
<1> HIDE DEF a2, b2
<1>9. Cardinality(Singles(P2)) = Cardinality(Singles(P))
    <2> DEFINE f == [t \in Singles(P) |-> IF t = a THEN a2 ELSE IF t = b THEN b2 ELSE t]
    <2>1. \A t \in Singles(P) : f[t] \in Singles(P2)
        BY <1>4 DEF Singles
    <2>2. \A t, u \in Singles(P) : f[t] = f[u] => t = u
        BY <1>3, <1>5 DEF Singles
    <2>3. \A u \in Singles(P2) : \E t \in Singles(P) : f[t] = u
        <3> SUFFICES ASSUME NEW u \in Singles(P2)
                     PROVE  \E t \in Singles(P) : f[t] = u
            OBVIOUS
        <3>1. CASE u = a2
            <4>1. a \in Singles(P)
                BY <1>4, <3>1 DEF Singles
            <4> QED
                BY <3>1, <4>1
        <3>2. CASE u = b2
            <4>1. b \in Singles(P) /\ f[b] = b2
                BY <1>4, <3>2 DEF Singles
            <4> QED
                BY <3>2, <4>1
        <3>3. CASE u \in P \ {a, b}
            <4>1. u \in Singles(P) /\ f[u] = u
                BY <3>3 DEF Singles
            <4> QED
                BY <4>1
        <3> QED
            BY <3>1, <3>2, <3>3 DEF Singles
    <2>4. f \in [Singles(P) -> Singles(P2)]
        BY <2>1
    <2> HIDE DEF f
    <2>5. f \in Bijection(Singles(P), Singles(P2))
        BY <2>2, <2>3, <2>4 DEF Bijection, Injection, Surjection, IsInjective
    <2>6. ExistsBijection(Singles(P), Singles(P2))
        BY <2>5 DEF ExistsBijection
    <2> QED
        BY <2>6, TablesAreFinite, FS_Bijection
<1> HIDE DEF P2
<1>10. P2 \in Pairings(S)
    BY <1>1, <1>6, <1>7, <1>8, <1>9 DEF Pairings, Singles
<1> QED
    BY <1>10 DEF P2, a2, b2

\* What SeatedOnce says of one round.
Seated(R) ==
    /\ Tables(R) \in Pairings(Seats(R))
    /\ \A m, n \in R.matches : m.seats = n.seats => m = n

LEMMA DraftIsSeated ==
    ASSUME NEW S \in SUBSET Players, NEW P \in Pairings(S)
    PROVE  Seated(Draft(P)) /\ Seats(Draft(P)) = S
<1>1. Tables(Draft(P)) = P
    <2>1. Draft(P).matches = {Unplayed(t) : t \in P}
        BY DEF Draft
    <2>2. \A t \in P : Unplayed(t).seats = t
        BY DEF Unplayed
    <2> QED
        BY <2>1, <2>2 DEF Tables
<1>2. UNION P = S
    BY DEF Pairings
<1>3. \A m, n \in Draft(P).matches : m.seats = n.seats => m = n
    BY DEF Draft, Unplayed
<1> QED
    BY <1>1, <1>2, <1>3 DEF Seated, Seats

\* Rewriting matches without moving anybody keeps a round a pairing.
LEMMA SameSeatsIsSeated ==
    ASSUME NEW R, NEW R2, Seated(R), Tables(R2) = Tables(R),
           \A m, n \in R2.matches : m.seats = n.seats => m = n
    PROVE  Seated(R2) /\ Seats(R2) = Seats(R)
BY DEF Seated, Seats

LEMMA PublishIsSeated ==
    ASSUME NEW R \in Rounds, Seated(R)
    PROVE  LET R2 == [status |-> "published", matches |-> Byes2To0(R.matches)]
           IN  Seated(R2) /\ Seats(R2) = Seats(R)
<1> DEFINE R2 == [status |-> "published", matches |-> Byes2To0(R.matches)]
           Scored(m) == IF IsBye(m) THEN [m EXCEPT !.score = ByeResult] ELSE m
<1>1. R2.matches = {Scored(m) : m \in R.matches}
    BY DEF Byes2To0
<1>2. \A m \in R.matches : Scored(m).seats = m.seats
    BY DEF Rounds, Matches
<1> HIDE DEF Scored, R2
<1>3. Tables(R2) = Tables(R)
    BY <1>1, <1>2 DEF Tables
<1>4. \A m, n \in R2.matches : m.seats = n.seats => m = n
    BY <1>1, <1>2 DEF Seated
<1>5. Seated(R2) /\ Seats(R2) = Seats(R)
    BY <1>3, <1>4, SameSeatsIsSeated
<1> QED
    BY <1>5 DEF R2

LEMMA ReportIsSeated ==
    ASSUME NEW R \in Rounds, Seated(R), NEW m \in R.matches, NEW c
    PROVE  LET R2 == [R EXCEPT !.matches = (@ \ {m}) \cup {Reported(m, c)}]
           IN  Seated(R2) /\ Seats(R2) = Seats(R)
<1> DEFINE R2 == [R EXCEPT !.matches = (@ \ {m}) \cup {Reported(m, c)}]
<1>1. R2.matches = (R.matches \ {m}) \cup {Reported(m, c)}
    BY DEF Rounds
<1>2. Reported(m, c).seats = m.seats
    BY DEF Reported, Rounds, Matches
<1> HIDE DEF R2
<1>3. Tables(R2) = Tables(R)
    BY <1>1, <1>2 DEF Tables
<1>4. \A k, n \in R2.matches : k.seats = n.seats => k = n
    BY <1>1, <1>2 DEF Seated
<1>5. Seated(R2) /\ Seats(R2) = Seats(R)
    BY <1>3, <1>4, SameSeatsIsSeated
<1> QED
    BY <1>5 DEF R2

LEMMA SwapIsSeated ==
    ASSUME TypeOK, NEW i \in DOMAIN rounds, Seated(rounds[i]),
           NEW m \in rounds[i].matches, NEW n \in rounds[i].matches,
           m # n, NEW p \in m.seats, NEW q \in n.seats
    PROVE  /\ Seated(Swapped(i, m, n, p, q))
           /\ Seats(Swapped(i, m, n, p, q)) = Seats(rounds[i])
<1> DEFINE R  == rounds[i]
           S  == Seats(R)
           a2 == (m.seats \ {p}) \cup {q}
           b2 == (n.seats \ {q}) \cup {p}
           R2 == Swapped(i, m, n, p, q)
<1>1. R \in Rounds /\ S \in SUBSET Players
    BY RoundTypes DEF TypeOK, Rounds, Matches, Seats, Tables
<1>2. Tables(R) \in Pairings(S) /\ \A k, l \in R.matches : k.seats = l.seats => k = l
    BY DEF Seated
<1>3. m.seats \in Tables(R) /\ n.seats \in Tables(R) /\ m.seats # n.seats
    BY <1>2 DEF Tables
<1>4. R2.matches = (R.matches \ {m, n}) \cup {Unplayed(a2), Unplayed(b2)}
    BY <1>1 DEF Swapped, Rounds
<1>5. Unplayed(a2).seats = a2 /\ Unplayed(b2).seats = b2
    BY DEF Unplayed
<1>6. Tables(R2) = (Tables(R) \ {m.seats, n.seats}) \cup {a2, b2}
    <2>1. {k.seats : k \in R.matches \ {m, n}} = Tables(R) \ {m.seats, n.seats}
        BY <1>2 DEF Tables
    <2> HIDE DEF a2, b2, R2, R
    <2> QED
        BY <1>4, <1>5, <2>1 DEF Tables
<1>7. Tables(R2) \in Pairings(S)
    BY <1>1, <1>2, <1>3, <1>6, SwapIsPairing, SMTT(20)
<1>8. Seats(R2) = S
    BY <1>7 DEF Seats, Pairings
<1>9. /\ a2 # b2
      /\ \A k \in R.matches \ {m, n} : k.seats # a2 /\ k.seats # b2
    <2>1. \A t, u \in Tables(R) : t # u => t \cap u = {}
        BY <1>2 DEF Pairings
    <2>2. q \notin m.seats /\ p \notin n.seats /\ p # q
        BY <1>3, <2>1
    <2>3. \A k \in R.matches \ {m, n} : p \notin k.seats /\ q \notin k.seats
        BY <1>2, <1>3, <2>1 DEF Tables
    <2> QED
        BY <2>2, <2>3
<1>10. \A k, l \in R2.matches : k.seats = l.seats => k = l
    <2> HIDE DEF a2, b2, R2, R
    <2> QED
        BY <1>2, <1>4, <1>5, <1>9
<1> QED
    BY <1>7, <1>8, <1>10 DEF Seated

LEMMA RosterGrows == TypeOK /\ [Next]_vars => roster \subseteq roster'
<1> SUFFICES ASSUME TypeOK, [Next]_vars
             PROVE  roster \subseteq roster'
    OBVIOUS
<1> USE DEF rosterVars, clockVars
<1>1. ASSUME NEW n \in 1..MaxRounds, Upsert(n)
      PROVE  roster \subseteq roster'
    BY <1>1 DEF Upsert, TypeOK
<1>2. PairNextRound => roster \subseteq roster'
    BY DEF PairNextRound, TypeOK
<1>3. BeginPairing \/ PairingRefused \/ Finish \/ Cancel \/ UNCHANGED vars => roster' = roster
    BY DEF BeginPairing, PairingRefused, Finish, Cancel, vars
<1>4. ASSUME NEW i \in DOMAIN rounds, Reroll(i) \/ Publish(i) \/ Complete(i)
      PROVE  roster' = roster
    BY <1>4 DEF Reroll, Publish, Complete
<1>5. ASSUME NEW i, NEW m, NEW n, NEW p, NEW q, Swap(i, m, n, p, q)
      PROVE  roster' = roster
    BY <1>5 DEF Swap
<1>6. ASSUME NEW i, NEW m, NEW by, NEW r, BeginReport(i, m, by, r)
      PROVE  roster' = roster
    BY <1>6 DEF BeginReport
<1>7. ASSUME NEW c, ReportResult(c) \/ ReportRefused(c)
      PROVE  roster' = roster
    BY <1>7 DEF ReportResult, ReportRefused
<1>8. ASSUME NEW p, Drop(p) \/ Undrop(p) \/ Remove(p) \/ PaidLeaves(p)
      PROVE  roster' = roster
    BY <1>8 DEF Drop, Undrop, Remove, PaidLeaves
<1> QED
    BY <1>1, <1>2, <1>3, <1>4, <1>5, <1>6, <1>7, <1>8 DEF Next

AllSeated(rs, X) == \A i \in DOMAIN rs : Seated(rs[i]) /\ Seats(rs[i]) \subseteq X

LEMMA AllSeatedIsSeatedOnce ==
    /\ SeatedOnce <=> AllSeated(rounds, roster)
    /\ SeatedOnce' <=> AllSeated(rounds', roster')
BY DEF SeatedOnce, AllSeated, Seated, Seats, Tables, Pairings

LEMMA EditSeats ==
    ASSUME TypeOK, AllSeated(rounds, roster), roster \subseteq roster',
           NEW i, NEW R, Edit(i, R), Seated(R), Seats(R) \subseteq roster
    PROVE  AllSeated(rounds', roster')
<1>1. \A j \in DOMAIN rounds' : rounds'[j] = R \/ (j \in DOMAIN rounds /\ rounds'[j] = rounds[j])
    BY EditKeepsTheRest DEF TypeOK
<1> QED
    BY <1>1 DEF AllSeated

LEMMA SeatedNext == TypeOK /\ SeatedOnce /\ [Next]_vars => SeatedOnce'
<1> SUFFICES ASSUME TypeOK, AllSeated(rounds, roster), [Next]_vars
             PROVE  AllSeated(rounds', roster')
    BY AllSeatedIsSeatedOnce
<1>0. roster \subseteq roster' /\ roster \subseteq Players
    BY RosterGrows DEF TypeOK
<1>1. CASE PairNextRound
    <2>1. PICK P \in Pairings(roster' \ dropped) :
              /\ DOMAIN rounds' = DOMAIN rounds \cup {Len(rounds) + 1}
              /\ rounds'[Len(rounds) + 1] = Draft(P)
              /\ \A j \in DOMAIN rounds : rounds'[j] = rounds[j]
        BY <1>1, PairNextRoundAppends
    <2>2. roster' \ dropped \in SUBSET Players
        BY <1>1 DEF PairNextRound, TypeOK
    <2>3. Seated(Draft(P)) /\ Seats(Draft(P)) = roster' \ dropped
        BY <2>2, DraftIsSeated
    <2> QED
        BY <1>0, <2>1, <2>3 DEF AllSeated
<1>2. ASSUME NEW i \in DOMAIN rounds, Reroll(i)
      PROVE  AllSeated(rounds', roster')
    <2>1. PICK P \in Pairings(roster \ dropped) : Edit(i, Draft(P))
        BY <1>2, RerollEdits
    <2>2. Seated(Draft(P)) /\ Seats(Draft(P)) = roster \ dropped
        BY <1>0, DraftIsSeated
    <2> QED
        BY <1>0, <2>1, <2>2, EditSeats
<1>3. ASSUME NEW i \in DOMAIN rounds, NEW m \in rounds[i].matches, NEW n \in rounds[i].matches,
             NEW p \in m.seats, NEW q \in n.seats, Swap(i, m, n, p, q)
      PROVE  AllSeated(rounds', roster')
    <2>1. Seated(rounds[i]) /\ Seats(rounds[i]) \subseteq roster /\ m # n
        BY <1>3 DEF AllSeated, Swap
    <2>2. /\ Seated(Swapped(i, m, n, p, q))
          /\ Seats(Swapped(i, m, n, p, q)) = Seats(rounds[i])
        BY <2>1, SwapIsSeated
    <2> QED
        BY <1>0, <1>3, <2>1, <2>2, SwapEdits, EditSeats
<1>4. ASSUME NEW i \in DOMAIN rounds, Publish(i)
      PROVE  AllSeated(rounds', roster')
    <2> DEFINE R2 == [status |-> "published", matches |-> Byes2To0(rounds[i].matches)]
    <2>1. rounds[i] \in Rounds /\ Seated(rounds[i]) /\ Seats(rounds[i]) \subseteq roster
        BY RoundTypes DEF TypeOK, AllSeated
    <2>2. Seated(R2) /\ Seats(R2) = Seats(rounds[i])
        BY <2>1, PublishIsSeated
    <2>3. Edit(i, R2)
        BY <1>4, PublishEdits
    <2> QED
        BY <1>0, <2>1, <2>2, <2>3, EditSeats
<1>5. ASSUME NEW i \in DOMAIN rounds, Complete(i)
      PROVE  AllSeated(rounds', roster')
    <2> DEFINE R2 == [rounds[i] EXCEPT !.status = "completed"]
    <2>1. rounds[i] \in Rounds /\ Seated(rounds[i]) /\ Seats(rounds[i]) \subseteq roster
        BY RoundTypes DEF TypeOK, AllSeated
    <2>2. R2.matches = rounds[i].matches
        BY <2>1 DEF Rounds
    <2>3. Seated(R2) /\ Seats(R2) = Seats(rounds[i])
        BY <2>1, <2>2, SameSeatsIsSeated DEF Tables, Seated
    <2>4. Edit(i, R2)
        BY <1>5, CompleteEdits
    <2> QED
        BY <1>0, <2>1, <2>3, <2>4, EditSeats
<1>6. ASSUME NEW c \in calls, ReportResult(c)
      PROVE  AllSeated(rounds', roster')
    <2> DEFINE i == c.round
    <2>1. PICK m \in rounds[i].matches :
              Edit(i, [rounds[i] EXCEPT !.matches = (@ \ {m}) \cup {Reported(m, c)}])
        BY <1>6, ReportEdits
    <2> DEFINE R2 == [rounds[i] EXCEPT !.matches = (@ \ {m}) \cup {Reported(m, c)}]
    <2>2. rounds[i] \in Rounds /\ Seated(rounds[i]) /\ Seats(rounds[i]) \subseteq roster
        BY <2>1, RoundTypes DEF TypeOK, AllSeated, Edit
    <2>3. Seated(R2) /\ Seats(R2) = Seats(rounds[i])
        BY <2>2, ReportIsSeated
    <2> QED
        BY <1>0, <2>1, <2>2, <2>3, EditSeats
<1>7. CASE rounds' = rounds
    BY <1>0, <1>7 DEF AllSeated
<1>8. \/ rounds' = rounds
      \/ PairNextRound
      \/ \E i \in DOMAIN rounds : Reroll(i) \/ Publish(i) \/ Complete(i)
      \/ \E i \in DOMAIN rounds : \E m, n \in rounds[i].matches : \E p \in m.seats, q \in n.seats :
            Swap(i, m, n, p, q)
      \/ \E c \in calls : ReportResult(c)
    BY DEF Next, vars, Upsert, BeginPairing, PairingRefused, BeginReport, ReportRefused,
           Drop, Undrop, Remove, PaidLeaves, Finish, Cancel
<1> QED
    BY <1>1, <1>2, <1>3, <1>4, <1>5, <1>6, <1>7, <1>8

\* However often a draft is re-rolled and swapped, a round seats players of
\* the roster, each at one table, with a bye only for an odd field.
THEOREM SeatedOnceHolds == Spec => []SeatedOnce
<1>1. Init => SeatedOnce
    BY DEF Init, SeatedOnce
<1> QED
    BY <1>1, TypeCorrect, SeatedNext, PTL DEF Spec

-----------------------------------------------------------------------------
(* Results *)

Scored(R) == \A m \in R.matches :
    /\ R.status = "draft" => m.score = NoResult /\ m.log = {}
    /\ R.status = "completed" => m.score # NoResult
    /\ IsBye(m) => m.log = {} /\ (R.status = "draft" \/ m.score = ByeResult)
    /\ ~IsBye(m) => IF m.log = {} THEN m.score = NoResult
                                  ELSE \E e \in m.log : e.score = m.score

Ruled(R) == \A m \in R.matches :
    OrganizerReported(m) => \E e \in m.log : e.by = Organizer /\ e.score = m.score

AllScored(rs) == \A i \in DOMAIN rs : Scored(rs[i]) /\ Ruled(rs[i])

LEMMA AllScoredIsInvariant ==
    /\ ScoresFollowStatus /\ OrganizerRules <=> AllScored(rounds)
    /\ (ScoresFollowStatus /\ OrganizerRules)' <=> AllScored(rounds')
BY DEF ScoresFollowStatus, OrganizerRules, AllScored, Scored, Ruled, IsBye, OrganizerReported

LEMMA EditScores ==
    ASSUME TypeOK, AllScored(rounds), NEW i, NEW R, Edit(i, R), Scored(R), Ruled(R)
    PROVE  AllScored(rounds')
<1>1. \A j \in DOMAIN rounds' : rounds'[j] = R \/ (j \in DOMAIN rounds /\ rounds'[j] = rounds[j])
    BY EditKeepsTheRest DEF TypeOK
<1> QED
    BY <1>1 DEF AllScored

LEMMA UnplayedIsScored ==
    ASSUME NEW R, R.status = "draft",
           \A m \in R.matches : m.score = NoResult /\ m.log = {}
    PROVE  Scored(R) /\ Ruled(R)
BY DEF Scored, Ruled, OrganizerReported

LEMMA DraftIsScored ==
    ASSUME NEW P
    PROVE  Scored(Draft(P)) /\ Ruled(Draft(P))
<1>1. \A m \in Draft(P).matches : m.score = NoResult /\ m.log = {}
    BY DEF Draft, Unplayed
<1> QED
    BY <1>1, UnplayedIsScored DEF Draft

LEMMA PublishIsScored ==
    ASSUME NEW R \in Rounds, Scored(R), R.status = "draft"
    PROVE  LET R2 == [status |-> "published", matches |-> Byes2To0(R.matches)]
           IN  Scored(R2) /\ Ruled(R2)
<1> DEFINE R2 == [status |-> "published", matches |-> Byes2To0(R.matches)]
<1>1. ASSUME NEW m \in R2.matches
      PROVE  /\ m.log = {}
             /\ IF IsBye(m) THEN m.score = ByeResult ELSE m.score = NoResult
    <2>1. PICK k \in R.matches : m = IF IsBye(k) THEN [k EXCEPT !.score = ByeResult] ELSE k
        BY DEF Byes2To0
    <2>2. k \in Matches /\ k.log = {} /\ k.score = NoResult
        BY DEF Rounds, Scored
    <2>3. m.seats = k.seats /\ m.log = {}
        BY <2>1, <2>2 DEF Matches
    <2>4. IF IsBye(k) THEN m.score = ByeResult ELSE m.score = NoResult
        BY <2>1, <2>2 DEF Matches
    <2> QED
        BY <2>3, <2>4 DEF IsBye
<1>2. R2.status = "published"
    OBVIOUS
<1> HIDE DEF R2
<1>3. Scored(R2) /\ Ruled(R2)
    BY <1>1, <1>2 DEF Scored, Ruled, OrganizerReported
<1> QED
    BY <1>3 DEF R2

LEMMA ReportIsScored ==
    ASSUME NEW c \in Calls, NEW R \in Rounds, Scored(R), Ruled(R), NEW m \in R.matches,
           ~IsBye(m), R.status # "draft", c.report.by = Organizer \/ ~OrganizerReported(m)
    PROVE  LET R2 == [R EXCEPT !.matches = (@ \ {m}) \cup {Reported(m, c)}]
           IN  Scored(R2) /\ Ruled(R2)
<1> DEFINE R2 == [R EXCEPT !.matches = (@ \ {m}) \cup {Reported(m, c)}]
           k  == Reported(m, c)
<1>1. R2.matches = (R.matches \ {m}) \cup {k} /\ R2.status = R.status
    BY DEF Rounds
<1>2. k.seats = m.seats /\ k.score = c.report.score /\ k.log = m.log \cup {c.report}
    BY DEF Reported, Rounds, Matches
<1>3. c.report \in k.log /\ c.report.score # NoResult
    BY <1>2, ResultsAreValid, NoResultIsNew DEF Calls, Reports
<1>4. ~IsBye(k)
    BY <1>2 DEF IsBye
<1>5. OrganizerReported(k) => c.report.by = Organizer
    BY <1>2 DEF OrganizerReported
<1> HIDE DEF R2, k
<1>6. Scored(R2)
    BY <1>1, <1>2, <1>3, <1>4 DEF Scored
<1>7. Ruled(R2)
    BY <1>1, <1>2, <1>3, <1>5 DEF Ruled
<1> QED
    BY <1>6, <1>7 DEF R2

LEMMA ScoredNext == TypeOK /\ AllScored(rounds) /\ [Next]_vars => AllScored(rounds')
<1> SUFFICES ASSUME TypeOK, AllScored(rounds), [Next]_vars
             PROVE  AllScored(rounds')
    OBVIOUS
<1>1. CASE PairNextRound
    <2>1. PICK P :
              /\ DOMAIN rounds' = DOMAIN rounds \cup {Len(rounds) + 1}
              /\ rounds'[Len(rounds) + 1] = Draft(P)
              /\ \A j \in DOMAIN rounds : rounds'[j] = rounds[j]
        BY <1>1, PairNextRoundAppends
    <2> QED
        BY <2>1, DraftIsScored DEF AllScored
<1>2. ASSUME NEW i \in DOMAIN rounds, Reroll(i)
      PROVE  AllScored(rounds')
    BY <1>2, RerollEdits, DraftIsScored, EditScores
<1>3. ASSUME NEW i \in DOMAIN rounds, NEW m \in rounds[i].matches, NEW n \in rounds[i].matches,
             NEW p \in m.seats, NEW q \in n.seats, Swap(i, m, n, p, q)
      PROVE  AllScored(rounds')
    <2> DEFINE R2 == Swapped(i, m, n, p, q)
    <2>1. rounds[i] \in Rounds /\ Scored(rounds[i]) /\ rounds[i].status = "draft"
        BY <1>3, RoundTypes DEF TypeOK, AllScored, Swap
    <2>2. \A k \in R2.matches : k.score = NoResult /\ k.log = {}
        BY <2>1 DEF Swapped, Unplayed, Rounds, Scored
    <2>3. R2.status = "draft"
        BY <2>1 DEF Swapped, Rounds
    <2> QED
        BY <1>3, <2>2, <2>3, UnplayedIsScored, SwapEdits, EditScores
<1>4. ASSUME NEW i \in DOMAIN rounds, Publish(i)
      PROVE  AllScored(rounds')
    <2>1. rounds[i] \in Rounds /\ Scored(rounds[i]) /\ rounds[i].status = "draft"
        BY <1>4, RoundTypes DEF TypeOK, AllScored, Publish
    <2> QED
        BY <1>4, <2>1, PublishIsScored, PublishEdits, EditScores
<1>5. ASSUME NEW i \in DOMAIN rounds, Complete(i)
      PROVE  AllScored(rounds')
    <2> DEFINE R2 == [rounds[i] EXCEPT !.status = "completed"]
    <2>1. rounds[i] \in Rounds /\ Scored(rounds[i]) /\ Ruled(rounds[i])
        BY RoundTypes DEF TypeOK, AllScored
    <2>2. R2.matches = rounds[i].matches /\ R2.status = "completed"
        BY <2>1 DEF Rounds
    <2>3. rounds[i].status = "published" /\ \A m \in rounds[i].matches : m.score # NoResult
        BY <1>5 DEF Complete
    <2>4. Scored(R2) /\ Ruled(R2)
        BY <2>1, <2>2, <2>3 DEF Scored, Ruled
    <2> QED
        BY <1>5, <2>4, CompleteEdits, EditScores
<1>6. ASSUME NEW c \in calls, ReportResult(c)
      PROVE  AllScored(rounds')
    <2> DEFINE i == c.round
    <2>1. PICK m \in rounds[i].matches :
              /\ Reportable(c, m)
              /\ Edit(i, [rounds[i] EXCEPT !.matches = (@ \ {m}) \cup {Reported(m, c)}])
        BY <1>6, ReportEdits
    <2>2. rounds[i] \in Rounds /\ Scored(rounds[i]) /\ Ruled(rounds[i]) /\ c \in Calls
        BY <2>1, RoundTypes DEF TypeOK, AllScored, Edit
    <2>3. /\ ~IsBye(m) /\ rounds[i].status # "draft"
          /\ c.report.by = Organizer \/ ~OrganizerReported(m)
        BY <2>1 DEF Reportable
    <2> DEFINE R2 == [rounds[i] EXCEPT !.matches = (@ \ {m}) \cup {Reported(m, c)}]
    <2>4. Scored(R2) /\ Ruled(R2)
        BY <2>2, <2>3, ReportIsScored
    <2>5. Edit(i, R2)
        BY <2>1
    <2> HIDE DEF R2
    <2> QED
        BY <2>4, <2>5, EditScores
<1>7. CASE rounds' = rounds
    BY <1>7
<1>8. \/ rounds' = rounds
      \/ PairNextRound
      \/ \E i \in DOMAIN rounds : Reroll(i) \/ Publish(i) \/ Complete(i)
      \/ \E i \in DOMAIN rounds : \E m, n \in rounds[i].matches : \E p \in m.seats, q \in n.seats :
            Swap(i, m, n, p, q)
      \/ \E c \in calls : ReportResult(c)
    BY DEF Next, vars, Upsert, BeginPairing, PairingRefused, BeginReport, ReportRefused,
           Drop, Undrop, Remove, PaidLeaves, Finish, Cancel
<1> QED
    BY <1>1, <1>2, <1>3, <1>4, <1>5, <1>6, <1>7, <1>8

LEMMA AllScoredAlways == Spec => [](ScoresFollowStatus /\ OrganizerRules)
<1>1. Init => ScoresFollowStatus /\ OrganizerRules
    BY DEF Init, ScoresFollowStatus, OrganizerRules
<1>2. TypeOK /\ (ScoresFollowStatus /\ OrganizerRules) /\ [Next]_vars
          => (ScoresFollowStatus /\ OrganizerRules)'
    BY ScoredNext, AllScoredIsInvariant
<1> QED
    BY <1>1, <1>2, TypeCorrect, PTL DEF Spec

\* Drafts hold no results, byes count 2-0 from publishing on, completed rounds
\* are scored throughout, and every other stored result was reported.
THEOREM ScoresFollowStatusHolds == Spec => []ScoresFollowStatus
BY AllScoredAlways, PTL

\* The result of a match that an organizer reported is an organizer's, however
\* the reports of the players are delayed.
THEOREM OrganizerRulesHold == Spec => []OrganizerRules
BY AllScoredAlways, PTL

LEMMA LatestReport ==
    ASSUME NEW L \in SUBSET Reports, L # {}
    PROVE  \E e \in L : \A f \in L : f.stamp <= e.stamp
<1> DEFINE Age(e) == MaxReports - e.stamp
           D == {Age(e) : e \in L}
<1>1. \A e \in L : e.stamp \in Nat /\ Age(e) \in Nat
    BY BoundsAreNat DEF Reports
<1>2. D \in SUBSET Nat /\ D # {}
    BY <1>1
<1> HIDE DEF D
<1>3. PICK d \in D : \A n \in D : <<n, d>> \notin OpToRel(<, Nat)
    BY <1>2, NatLessThanWellFounded, WFMin
<1>4. \A n \in D : ~(n < d)
    BY <1>2, <1>3 DEF OpToRel
<1>5. PICK e \in L : d = Age(e)
    BY DEF D
<1>6. \A f \in L : ~(Age(f) < Age(e))
    BY <1>4, <1>5 DEF D
<1>7. \A f \in L : f.stamp <= e.stamp
    BY <1>1, <1>6, BoundsAreNat
<1> QED
    BY <1>7

LEMMA DisputeOfMatch ==
    ASSUME NEW m \in Matches, Disputed(m)
    PROVE  HadDispute(m)
<1>1. PlayerLog(m) \in SUBSET Reports
    BY DEF PlayerLog, Matches
<1>2. PlayerLog(m) # {}
    <2>1. LatestScores({}) = {}
        BY DEF LatestScores
    <2> QED
        BY <2>1, FS_EmptySet DEF Disputed
<1>3. PICK e \in PlayerLog(m) : \A f \in PlayerLog(m) : f.stamp <= e.stamp
    BY <1>1, <1>2, LatestReport
<1>4. {f \in PlayerLog(m) : f.stamp <= e.stamp} = PlayerLog(m)
    BY <1>3
<1> QED
    BY <1>3, <1>4 DEF Disputed, HadDispute

\* Whatever the badge shows is in the organizer's history.
THEOREM DisputeIsRecordedHolds == Spec => []DisputeIsRecorded
<1>1. TypeOK => DisputeIsRecorded
    BY RoundTypes, DisputeOfMatch DEF TypeOK, DisputeIsRecorded
<1> QED
    BY <1>1, TypeCorrect, PTL
=============================================================================
