------------------------------ MODULE MCAccounts ------------------------------
(* Accounts for TLC: an identity that the provider vouches for, one it does not. *)
EXTENDS Accounts, TLC

CONSTANTS e1, e2, google, discord

MCEmailOf == google :> e1 @@ discord :> e2
=============================================================================
