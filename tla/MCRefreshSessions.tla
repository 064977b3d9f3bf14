-------------------------- MODULE MCRefreshSessions -------------------------
(* Small instances of RefreshSessions for TLC. *)
EXTENDS RefreshSessions, TLC

Symmetry == Permutations(Requests) \cup Permutations(Jtis) \cup Permutations(Users)
=============================================================================
