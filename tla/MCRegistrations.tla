-------------------------- MODULE MCRegistrations --------------------------
(* Registrations and their refinement for TLC. *)
EXTENDS RegistrationsSeating, TLC

Interchangeable == Permutations(Users) \cup Permutations(Regs) \cup Permutations(Sessions)
                      \cup Permutations(EventIds)
=============================================================================
