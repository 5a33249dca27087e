--------------------------- MODULE ListResolution ---------------------------
(***************************************************************************)
(* A pasted card list: how a line is read and which printing it names      *)
(* (src/backend/internal/cards/list.go).                                   *)
(*                                                                         *)
(* A line and a name are sequences of tokens, the fields between blanks.   *)
(* What a token looks like is given by constants: the number that Atoi     *)
(* reads in it (after a trailing x), the set code in its parentheses, and  *)
(* whether it may be a collector number.  Names are compared normalized.   *)
(***************************************************************************)
EXTENDS Catalogue, Sequences, Functions

CONSTANTS
    NameOf, SetOf, CollectorOf,  \* cards.normalized_name, set_code, collector_number
    Rank,                        \* the order in which one printing represents others
    NumberIn,                    \* tokens that are a number, and which
    SetIn,                       \* tokens that look like a set code, and which
    CollectorTokens,             \* tokens that may be a collector number
    CardYears,                   \* 1993..2099
    None

ASSUME NamesAreSequences ==
    /\ DOMAIN NameOf = Printings
    /\ \A p \in Printings : NameOf[p] \in Seq(Range(NameOf[p]))
ASSUME RankIsNat == Rank \in [Printings -> Nat]
ASSUME SetsAreNamed == \A token \in DOMAIN SetIn : SetIn[token] # None
ASSUME NumbersAreInt == \A token \in DOMAIN NumberIn : NumberIn[token] \in Int
ASSUME YearsAreNoQuantities == \A year \in CardYears : year > MaxItemQuantity

-----------------------------------------------------------------------------
(* Reading a line *)

InRange(n) == n \in 1..MaxItemQuantity

Selected(name, set, number) == [name |-> name, set |-> set, number |-> number]

\* A trailing set code, and a collector number only behind one.
SplitSelectors(name) ==
    LET n == Len(name)
    IN  IF n >= 2 /\ name[n] \in CollectorTokens /\ name[n - 1] \in DOMAIN SetIn
        THEN Selected(SubSeq(name, 1, n - 2), SetIn[name[n - 1]], name[n])
        ELSE IF n >= 2 /\ name[n] \in DOMAIN SetIn
        THEN Selected(SubSeq(name, 1, n - 1), SetIn[name[n]], None)
        ELSE Selected(name, None, None)

NameWithoutQuantity(line) ==
    IF line[1] \in DOMAIN NumberIn /\ Len(line) > 1 /\ InRange(NumberIn[line[1]])
    THEN Tail(line) ELSE line

Unparsable(line) ==
    [raw |-> line, ok |-> FALSE, quantity |-> 0, name |-> <<>>, set |-> None, number |-> None]

ParseLine(line) ==
    LET named(n, text) ==
            LET s == SplitSelectors(text)
            IN  IF s.name = <<>> THEN Unparsable(line)
                ELSE [raw |-> line, ok |-> TRUE, quantity |-> n, name |-> s.name,
                      set |-> s.set, number |-> s.number]
        counted == line[1] \in DOMAIN NumberIn
    IN  IF ~counted THEN named(1, line)
        ELSE IF NumberIn[line[1]] > MaxItemQuantity /\ Len(line) > 1
                /\ NumberIn[line[1]] \in CardYears THEN named(1, line)
        ELSE IF ~InRange(NumberIn[line[1]]) \/ Len(line) = 1 THEN Unparsable(line)
        ELSE named(NumberIn[line[1]], Tail(line))

-----------------------------------------------------------------------------
(* The queries, each for a whole list *)

\* GetPrintingsByOracleID.
PrintingsOf(oracle) == {p \in known : cardOf[p] = oracle}

Best(S) == CHOOSE p \in S : \A r \in S : Rank[p] <= Rank[r]

\* Mutant: the names of the retry are not looked up.
ParsedNames(lines) == {ParseLine(l).name : l \in {l \in lines : ParseLine(l).ok}}

\* The names that are looked up together, those of the retry included.
BatchedNames(lines) ==
    LET parsed == {l \in lines : ParseLine(l).ok}
    IN  {ParseLine(l).name : l \in parsed} \cup
        {NameWithoutQuantity(l) : l \in {l \in parsed : ParseLine(l).set # None}}

\* GetCardsByNormalizedNames: one printing of every card of that name.
Exact(names, name) ==
    IF name \notin names THEN {}
    ELSE {Best({r \in known : NameOf[r] = name /\ cardOf[r] = cardOf[p]}) :
          p \in {p \in known : NameOf[p] = name}}

\* GetCardsBySetAndCollectorNumbers.
InSlot(set, number) ==
    LET there == {p \in known : SetOf[p] = set /\ CollectorOf[p] = number}
    IN  IF there = {} THEN {} ELSE {Best(there)}

\* GetCardsByNameAndSet.
InSet(name, set) == {p \in known : NameOf[p] = name /\ SetOf[p] = set}

\* SuggestCardsByName: a name that is near, here one that shares a token.
Suggestions(name) ==
    {p \in known : {NameOf[p][i] : i \in 1..Len(NameOf[p])} \cap
                   {name[i] : i \in 1..Len(name)} # {}}

-----------------------------------------------------------------------------
(* Resolving a line *)

Result(status, match, suggestions, parsed) ==
    [raw |-> parsed.raw, status |-> status, match |-> match, suggestions |-> suggestions,
     quantity |-> parsed.quantity, set |-> parsed.set, number |-> parsed.number]

TheOne(S) == CHOOSE p \in S : TRUE

\* One candidate is a match, several are for the user to choose from, and
\* for want of any he may choose from others.
Choice(S, miss, others, parsed) ==
    IF S = {} THEN Result(miss, None, others, parsed)
    ELSE IF Cardinality(S) = 1 THEN Result("matched", TheOne(S), {}, parsed)
    ELSE Result("ambiguous", None, S, parsed)

\* Mutant: whatever card is in the slot.
InAnySlot(parsed) == InSlot(parsed.set, parsed.number)

\* The printing in the slot must carry the name that was typed.
InNamedSlot(parsed) ==
    {p \in InSlot(parsed.set, parsed.number) : NameOf[p] = parsed.name}

\* Every printing of the card of that name, or else of names that are near.
PrintingsForName(names, name) ==
    IF Exact(names, name) = {} THEN Suggestions(name)
    ELSE PrintingsOf(cardOf[TheOne(Exact(names, name))])

FirstReading(names, parsed) ==
    IF ~parsed.ok THEN Result("unmatched", None, {}, parsed)
    ELSE IF parsed.set # None
    THEN Choice(IF parsed.number # None THEN InNamedSlot(parsed)
                                        ELSE InSet(parsed.name, parsed.set),
                "printing-not-found", PrintingsForName(names, parsed.name), parsed)
    ELSE LET near == Suggestions(parsed.name)
         IN  Choice(Exact(names, parsed.name),
                    IF near # {} THEN "ambiguous" ELSE "unmatched", near, parsed)

\* A name may end like a selector: the whole line is tried as a name.
ResolveLine(names, line) ==
    LET parsed == ParseLine(line)
        first  == FirstReading(names, parsed)
        retry  == Exact(names, NameWithoutQuantity(line))
    IN  IF /\ first.status \in {"printing-not-found", "unmatched"}
           /\ parsed.set # None
           /\ Cardinality(retry) = 1
        THEN Result("matched", TheOne(retry), {}, [parsed EXCEPT !.set = None, !.number = None])
        ELSE first

ResolveList(lines) ==
    [i \in DOMAIN lines |-> ResolveLine(BatchedNames({lines[j] : j \in DOMAIN lines}), lines[i])]

-----------------------------------------------------------------------------
(* Properties *)

\* A match is what the line says: its name, in the set and with the number
\* that were given, or the name that the whole line spells; and it counts a
\* quantity that a collection can hold.  Where a set was given and several
\* printings fit, all that are offered are of that name and set.
MatchIsTyped(resolved) ==
    \A i \in DOMAIN resolved :
        LET r == resolved[i]
            p == ParseLine(r.raw)
        IN  /\ r.status = "matched" =>
                  /\ InRange(r.quantity)
                  /\ IF r.set = None
                     THEN NameOf[r.match] \in {p.name, NameWithoutQuantity(r.raw)}
                     ELSE /\ NameOf[r.match] = p.name /\ SetOf[r.match] = p.set
                          /\ p.number # None => CollectorOf[r.match] = p.number
            /\ r.status = "ambiguous" /\ r.set # None =>
                  \A q \in r.suggestions : NameOf[q] = p.name /\ SetOf[q] = p.set

\* "no pathological card name becomes unimportable": a line that is the name of
\* one card, with or without a quantity, is matched with that card even if it
\* ends like a selector, unless the catalogue has what the selector says.  A
\* name that starts with a number needs its quantity in front ("+2 Mace"), and
\* a line that is all number or all selector is not read as a name.
Spells(line, name) ==
    \/ line = name /\ (name[1] \in DOMAIN NumberIn => Len(name) > 1 /\ NumberIn[name[1]] \in CardYears)
    \/ line[1] \in DOMAIN NumberIn /\ InRange(NumberIn[line[1]]) /\ Tail(line) = name

NamesMatch(resolved) ==
    \A i \in DOMAIN resolved, p \in known :
        LET name == NameOf[p]
            s == SplitSelectors(name)
        IN  /\ Spells(resolved[i].raw, name) /\ s.name # <<>>
            /\ \A r \in known : NameOf[r] = name => cardOf[r] = cardOf[p]
            /\ s.set = None \/ InSet(s.name, s.set) = {}
            => /\ resolved[i].status = "matched"
               /\ cardOf[resolved[i].match] = cardOf[p]

=============================================================================
