---------------------------- MODULE MCUserAccount ---------------------------
(* Small instances of UserAccount for TLC. *)
EXTENDS UserAccount, TLC

Symmetry == Permutations(Requests) \cup Permutations(Emails)
=============================================================================
