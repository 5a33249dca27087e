------------------------------ MODULE MCCubes ------------------------------
(* Instances of Cubes for TLC. *)
EXTENDS Cubes, TLC

\* Cards, printings and editors are interchangeable in the safety runs.
Symmetric == Permutations(Oracles) \cup Permutations(Printings) \cup Permutations(Editors)

=============================================================================
