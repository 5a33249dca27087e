------------------------------- MODULE Ledger -------------------------------
(***************************************************************************)
(* What a collection promises its owner: copies per printing, changed by   *)
(* whole operations only.  Setting a quantity replaces it, changing a      *)
(* printing moves all copies, an import adds; a printing holds at most     *)
(* Limit copies, and what exceeds it is cut off.                           *)
(***************************************************************************)
EXTENDS Integers

CONSTANTS Printings, Limit

VARIABLE copies

Sum(a, b) == IF a + b < Limit THEN a + b ELSE Limit

Init == copies = [p \in Printings |-> 0]

Set(p, n) == copies' = [copies EXCEPT ![p] = n]

Move(p, r) ==
    /\ p # r /\ copies[p] > 0
    /\ copies' = [copies EXCEPT ![r] = Sum(@, copies[p]), ![p] = 0]

Add(batch) ==
    copies' = [p \in Printings |->
                  IF p \in DOMAIN batch THEN Sum(copies[p], batch[p]) ELSE copies[p]]

Next ==
    \/ \E p \in Printings, n \in 0..Limit : Set(p, n)
    \/ \E p, r \in Printings : Move(p, r)
    \/ \E S \in SUBSET Printings : \E batch \in [S -> 1..Limit] : Add(batch)

Spec == Init /\ [][Next]_copies

=============================================================================
