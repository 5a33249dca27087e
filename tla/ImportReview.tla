---------------------------- MODULE ImportReview ----------------------------
(***************************************************************************)
(* Pasting a list into a collection: the pasted text is resolved against   *)
(* the catalogue (ListResolution), the user reviews the result and chooses *)
(* where it is open, and it is imported (Collections), by when the         *)
(* catalogue may have changed and other requests of the user may run       *)
(* (src/frontend/src/shared/cards/CardListImportDialog.tsx).               *)
(***************************************************************************)
EXTENDS Collections, ListResolution

CONSTANT Texts   \* pasted texts: sequences of lines

ASSUME TextsAreSequences ==
    \A text \in Texts :
        /\ text \in Seq(Range(text))
        /\ \A i \in DOMAIN text : text[i] \in Seq(Range(text[i])) /\ text[i] # <<>>

VARIABLE review  \* the resolved lines under review, and the printing chosen for each

reviewVars == <<vars, review>>

NoReview == [lines |-> <<>>, choices |-> <<>>]

\* A suggestion is chosen for a line without a match; which one comes first
\* is the order of a query.
DefaultChoice(r) ==
    IF r.status = "matched" THEN r.match
    ELSE IF r.suggestions = {} THEN None ELSE Best(r.suggestions)

Paste(text) ==
    /\ review = NoReview
    /\ LET resolved == ResolveList(text)
       IN  review' = [lines |-> resolved,
                      choices |-> [i \in DOMAIN resolved |-> DefaultChoice(resolved[i])]]
    /\ UNCHANGED vars

\* Another suggestion, or none: the line is skipped.
Choose(i, p) ==
    /\ review.lines[i].status \in {"ambiguous", "printing-not-found"}
    /\ p \in review.lines[i].suggestions \cup {None} /\ p # review.choices[i]
    /\ review' = [review EXCEPT !.choices[i] = p]
    /\ UNCHANGED vars

BuildImportItems(r) ==
    LET items[i \in 0..Len(r.lines)] ==
            IF i = 0 THEN <<>>
            ELSE IF r.choices[i] = None THEN items[i - 1]
            ELSE Append(items[i - 1],
                        [printing |-> r.choices[i], quantity |-> r.lines[i].quantity])
    IN  items[Len(r.lines)]

ApplyReview(t) ==
    /\ BeginImport(t, BuildImportItems(review))
    /\ review' = NoReview

Discard ==
    /\ review # NoReview
    /\ review' = NoReview
    /\ UNCHANGED vars

ReviewInit == Init /\ review = NoReview

ReviewNext ==
    \/ \E text \in Texts : Paste(text)
    \/ \E i \in DOMAIN review.lines, p \in Printings \cup {None} : Choose(i, p)
    \/ \E t \in Calls : ApplyReview(t)
    \/ Discard
    \/ Next /\ UNCHANGED review

ReviewSpec == ReviewInit /\ [][ReviewNext]_reviewVars /\ Fairness

\* Whatever is under review says what was pasted, whatever the catalogue
\* becomes meanwhile.
ReviewIsTyped == MatchIsTyped(review.lines)

\* "no pathological card name becomes unimportable", in every pasted text.
NamesImportable == [][review = NoReview => NamesMatch(review'.lines)]_reviewVars

=============================================================================
