---------------------------- MODULE MCSwissRounds ----------------------------
(* SwissRounds for TLC: a clear win and a draw. *)
EXTENDS SwissRounds, TLC

SameForAll == Permutations(Players)
WinOrDraw  == {<<2, 0>>, <<1, 1>>}

\* Floats of eleven bits, and an eps of a quarter of a percent point.
Powers == {2^k : k \in 4..13}
Eps    == Fraction(1, 4)
=============================================================================
