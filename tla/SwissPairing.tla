---------------------------- MODULE SwissPairing ----------------------------
(***************************************************************************)
(* How a round is paired and how players are ranked                        *)
(* (src/backend/internal/tournaments/swiss/pair.go and standings.go), as   *)
(* functions of the rounds so far.                                         *)
(*                                                                         *)
(* A match has the set of its seats and, once it is reported, the games    *)
(* that each seat has won; a bye has one seat.  The seed of a pairing only *)
(* decides between equals, so Pair is the set of what any seed gives.      *)
(*                                                                         *)
(* Percentages are floating-point numbers as in the code, with fewer bits: *)
(* every quotient, sum and product is rounded, in the order of the code.   *)
(***************************************************************************)
EXTENDS SwissTables, Sequences, FiniteSetsExt, Functions

CONSTANTS
    NoResult,   \* the null result of a match
    Scales,     \* the denominators that a float may have: powers of two
    Normal,     \* the least numerator that uses every bit of a float
    Epsilon     \* eps of the ranks, between the rounding and any real difference

ASSUME ScalesAreBounded ==
    Scales \subseteq Nat \ {0} /\ \E s \in Scales : \A u \in Scales : u <= s
ASSUME NormalIsPositive == Normal \in Nat \ {0}
ASSUME EpsilonIsPositive ==
    /\ Epsilon \in [num : Nat \ {0}, den : Nat \ {0}]
    /\ Epsilon.num <= Epsilon.den

BothSeats(m) == Cardinality(m.seats) = 2
Opponent(m, p) == CHOOSE q \in m.seats : q # p

\* Every match with the number of its round.
Matches(history) == UNION {{i} \X history[i] : i \in DOMAIN history}

MatchesOf(history, p) == {x \in Matches(history) : p \in x[2].seats}

-----------------------------------------------------------------------------
(* Pair *)

Points(history, p) ==
    LET of(m) == IF m.games = NoResult THEN 0
                 ELSE IF ~BothSeats(m) THEN 3
                 ELSE IF m.games[p] > m.games[Opponent(m, p)] THEN 3
                 ELSE IF m.games[p] = m.games[Opponent(m, p)] THEN 1 ELSE 0
    IN  SumFunction([x \in MatchesOf(history, p) |-> of(x[2])])

HadBye(history, p) ==
    \E i \in DOMAIN history : \E m \in history[i] : m.seats = {p}

Played(history) ==
    {t \in UNION {{m.seats : m \in history[i]} : i \in DOMAIN history} : Cardinality(t) = 2}

\* Mutant: whoever is last, also for a second time.
ByesToTheLast(active, history) ==
    {p \in active : \A q \in active : Points(history, p) <= Points(history, q)}

\* pickBye: the groups are tried from the lowest one upward, the first with a
\* player without a bye has it; the lowest group if no group has one.
PickBye(active, history) ==
    LET group(k) == {p \in active : Points(history, p) = k}
        fresh(k) == {p \in group(k) : ~HadBye(history, p)}
        keys     == {Points(history, p) : p \in active}
        tried    == {k \in keys : fresh(k) # {}}
    IN  IF tried = {} THEN group(Min(keys)) ELSE fresh(Min(tried))

Enumerations(S) == Bijection(1..Cardinality(S), S)

\* Points descending, in any order within a group.
Orders(S, history) ==
    {o \in Enumerations(S) :
        \A i, j \in DOMAIN o : i < j => Points(history, o[i]) >= Points(history, o[j])}

NoPairing == {{}}

\* What is left of an order without its first and its i-th player.
Without(o, i) == [j \in 1..(Len(o) - 2) |-> IF j + 1 < i THEN o[j + 1] ELSE o[j + 2]]

\* The first player with the nearest opponent that leaves the rest pairable.
TryPair(order, played, budget) ==
    LET cost(o, i) == IF {o[1], o[i]} \in played THEN 1 ELSE 0
        try[o \in UNION {[1..n -> Range(order)] : n \in 0..Len(order)}] ==
            [b \in 0..budget |->
                LET sub(i) == try[Without(o, i)][b - cost(o, i)]
                    fits == {i \in 2..Len(o) : cost(o, i) <= b /\ sub(i) # NoPairing}
                IN  IF Len(o) = 0 THEN {}
                    ELSE IF fits = {} THEN NoPairing
                    ELSE {{o[1], o[Min(fits)]}} \cup sub(Min(fits))]
    IN  try[order][budget]

\* Mutant: whatever is over the first budget may be spent at once.
AnyRematches(order, played) == TryPair(order, played, Len(order))

\* The rematch budget grows until there is a pairing.
FirstBudget(order, played) ==
    LET budget == Min({b \in 0..Len(order) : TryPair(order, played, b) # NoPairing})
    IN  TryPair(order, played, budget)

\* Every pairing that some seed gives.
Pair(active, history) ==
    LET byes == IF Cardinality(active) % 2 = 1 THEN {{p} : p \in PickBye(active, history)} ELSE {{}}
    IN  UNION {{FirstBudget(o, Played(history)) \cup (IF b = {} THEN {} ELSE {b}) :
                   o \in Orders(active \ b, history)} : b \in byes}

-----------------------------------------------------------------------------
(* ComputeStandings *)

Reported(history, p) == {x \in MatchesOf(history, p) : x[2].games # NoResult}
Games(history, p)    == {x \in Reported(history, p) : BothSeats(x[2])}

\* Mutant: byes are left out altogether.
MatchPointsOfGames(history, p) ==
    LET of(m) == LET won == m.games[p] lost == m.games[Opponent(m, p)]
                 IN  IF won > lost THEN 3 ELSE IF won = lost THEN 1 ELSE 0
    IN  SumFunction([x \in Games(history, p) |-> of(x[2])])

\* A bye is three points; it is no opponent and its games do not count.
MatchPoints(history, p) ==
    MatchPointsOfGames(history, p) + 3 * (Cardinality(Reported(history, p)) - Cardinality(Games(history, p)))

Fraction(n, d) == [num |-> n, den |-> d]
AtLeast(a, b) == a.num * b.den >= b.num * a.den
Same(a, b)    == AtLeast(a, b) /\ AtLeast(b, a)
Zero     == Fraction(0, 1)

\* The float next to n / d, the one with an even numerator if there are two: the
\* coarsest scale that leaves every bit in use.
Rounded(n, d) ==
    LET fine == {s \in Scales : n * s >= d * Normal}
        s    == IF fine = {} THEN Max(Scales) ELSE Min(fine)
        q    == (n * s) \div d
        r    == (n * s) % d
    IN  Fraction(IF 2 * r > d \/ (2 * r = d /\ q % 2 = 1) THEN q + 1 ELSE q, s)

Plus(a, b) ==
    LET den == IF a.den > b.den THEN a.den ELSE b.den
    IN  Rounded(a.num * (den \div a.den) + b.num * (den \div b.den), den)

Percent(a) == Rounded(100 * a.num, a.den)

Third      == Rounded(1, 3)
Floored(a) == IF AtLeast(a, Third) THEN a ELSE Third

MW(history, p) ==
    LET n == Cardinality(Reported(history, p))
    IN  IF n = 0 THEN Third ELSE Floored(Rounded(MatchPoints(history, p), 3 * n))

\* No drawn games are reported, so a game is won by one of the two.
GW(history, p) ==
    LET met  == Games(history, p)
        won  == SumFunction([x \in met |-> x[2].games[p]])
        lost == SumFunction([x \in met |-> x[2].games[Opponent(x[2], p)]])
    IN  IF won + lost = 0 THEN Zero ELSE Rounded(3 * won, 3 * (won + lost))

\* The mean of the opponents, added up in the order of the rounds: the last
\* bits depend on it.
MeanOfOpponents(f(_), history, p) ==
    LET met    == Games(history, p)
        sum[i \in 0..Len(history)] ==
            IF i = 0 THEN Zero
            ELSE IF i \notin {x[1] : x \in met} THEN sum[i - 1]
            ELSE Plus(sum[i - 1], f(Opponent((CHOOSE x \in met : x[1] = i)[2], p)))
        total  == sum[Len(history)]
    IN  IF met = {} THEN Zero ELSE Rounded(total.num, total.den * Cardinality(met))

OMW(history, p) == MeanOfOpponents(LAMBDA q : MW(history, q), history, p)
OGW(history, p) == MeanOfOpponents(LAMBDA q : Floored(GW(history, q)), history, p)

\* The keys of the order, the most important one first.
Row(history, p) ==
    [player |-> p,
     keys |-> <<Fraction(MatchPoints(history, p), 1), Percent(OMW(history, p)),
                Percent(GW(history, p)), Percent(OGW(history, p))>>]

\* sort.Slice compares the floats as they are.
Precedes(a, b) ==
    \E k \in 1..4 : /\ AtLeast(a.keys[k], b.keys[k]) /\ ~Same(a.keys[k], b.keys[k])
                    /\ \A j \in 1..(k - 1) : Same(a.keys[j], b.keys[j])

\* Every order the rows may have: names break its ties, never those of the ranks.
Sorted(roster, history) ==
    {rows \in Enumerations({Row(history, p) : p \in roster}) :
        \A i, j \in DOMAIN rows : i < j => ~Precedes(rows[j], rows[i])}

\* The ranks compare with eps: |a - b| < Epsilon, and match points as they are.
Near(a, b) ==
    LET d == a.num * b.den - b.num * a.den
        e == Epsilon.num * a.den * b.den
    IN  d * Epsilon.den < e /\ (-d) * Epsilon.den < e

TiesOn(k, a, b) == IF k = 1 THEN Same(a.keys[k], b.keys[k]) ELSE Near(a.keys[k], b.keys[k])
Ties(a, b)      == \A k \in 1..4 : TiesOn(k, a, b)

\* Mutant: dense ranks, the next one after a tie is not skipped.
DenseRanks(rows) ==
    LET rank[i \in 1..Len(rows)] ==
            IF i = 1 THEN 1 ELSE IF Ties(rows[i], rows[i - 1]) THEN rank[i - 1] ELSE rank[i - 1] + 1
    IN  rank

\* The rank of the row before if all keys tie with it, or else the position.
Ranks(rows) ==
    LET rank[i \in 1..Len(rows)] ==
            IF i > 1 /\ Ties(rows[i], rows[i - 1]) THEN rank[i - 1] ELSE i
    IN  rank

=============================================================================
