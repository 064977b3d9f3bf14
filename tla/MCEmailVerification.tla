------------------------- MODULE MCEmailVerification ------------------------
(* Small instances of EmailVerification for TLC. *)
EXTENDS EmailVerification, TLC

Symmetry == Permutations(Requests) \cup Permutations(Codes) \cup Permutations(RowIds)
=============================================================================
