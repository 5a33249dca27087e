--------------------------- MODULE MCImportReview ---------------------------
(* ImportReview for TLC: a card in two printings of one set, and a card whose *)
(* name ends like the code of that set.                                       *)
EXTENDS ImportReview, TLC

MCPrintings == {"mine1", "mine2", "sift"}
MCOracleOf  == [p \in MCPrintings |-> IF p = "sift" THEN "Sift" ELSE "Mine"]
MCNameOf    == [p \in MCPrintings |-> IF p = "sift" THEN <<"1996", "mine", "(atq)">> ELSE <<"mine">>]
MCSetOf     == [p \in MCPrintings |-> IF p = "sift" THEN "lea" ELSE "atq"]
MCCollectorOf == "mine1" :> "82" @@ "mine2" :> "83" @@ "sift" :> "82"
MCRank      == "mine1" :> 2 @@ "mine2" :> 1 @@ "sift" :> 3
MCNumberIn  == "1" :> 1 @@ "2" :> 2 @@ "3" :> 3 @@ "82" :> 82 @@ "83" :> 83 @@ "1996" :> 1996
MCSetIn     == "(atq)" :> "atq" @@ "(lea)" :> "lea"
MCCollectorTokens == {"mine", "1", "2", "3", "82", "83", "1996"}
MCCardYears == {1996}

\* A name with the slot of another card, and a list of names and selectors.
MCTexts == {
    << <<"mine", "(lea)", "82">>, <<"2">> >>,
    << <<"2", "1996", "mine", "(atq)">>, <<"mine", "(atq)", "82">>, <<"1996", "mine", "(atq)">>, <<"(atq)", "82">> >> }

MCCubes   == {"mine1" :> 2 @@ "sift" :> 1, "mine2" :> 1}
MCMovesTo == "mine2" :> "Trap"

=============================================================================
