---------------------------- MODULE MCTournament ----------------------------
(* Tournament for TLC. *)
EXTENDS Tournament, TLC

SameForAll == Permutations(Players)

OneScore  == {<<2, 0>>}
TwoScores == {<<2, 0>>, <<1, 1>>}

\* All the reports that the bound allows in the first round of two players; with a
\* second round there are two in all, and they agree; three players only get their tables.
\* The third player has got his money back then, he was not removed.
Logged(i) ==
    UNION {{[round |-> i, seats |-> m.seats, report |-> e] : e \in m.log} : m \in rounds[i].matches}

ManyReportsOnce ==
    LET reports == calls \cup UNION {Logged(i) : i \in DOMAIN rounds}
    IN  /\ Cardinality(roster) = 3 => reports = {}
        /\ planned # 0 => ejected \subseteq roster
        /\ \/ Len(rounds) <= 1
           \/ Cardinality(reports) <= 2 /\ \A c \in reports : c.report.score = <<2, 0>>
=============================================================================
