------------------------------ MODULE Catalogue ------------------------------
(***************************************************************************)
(* The catalogue of printings as the readers of it see it: which printings *)
(* there are now, and the card that each is a printing of.  CardSync       *)
(* models which there are; a sync may also move a printing to another card *)
(* (cards.oracle_id is updated with the rest of the row).                  *)
(***************************************************************************)
EXTENDS Integers, FiniteSets

CONSTANTS
    Printings,
    OracleOf,        \* the card of a printing at first
    MaxItemQuantity  \* 999, what a line or a collection row may count

ASSUME PrintingsAreFinite == IsFiniteSet(Printings)
ASSUME OracleOfIsTotal == DOMAIN OracleOf = Printings
ASSUME MaxIsPositive == MaxItemQuantity \in Nat \ {0}

VARIABLES
    known,           \* the printings in the catalogue
    cardOf           \* cards.oracle_id of a printing

catalogue == <<known, cardOf>>

=============================================================================
