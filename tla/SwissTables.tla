----------------------------- MODULE SwissTables -----------------------------
(* What a round of a swiss tournament is, whoever is paired with whom. *)
EXTENDS Integers, FiniteSets

\* Every active player at one table, and one bye if their number is odd.
Pairings(S) ==
    {P \in SUBSET {t \in SUBSET S : Cardinality(t) \in {1, 2}} :
        /\ UNION P = S
        /\ \A t, u \in P : t # u => t \cap u = {}
        /\ Cardinality({t \in P : Cardinality(t) = 1}) = Cardinality(S) % 2}

=============================================================================
