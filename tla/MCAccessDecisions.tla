------------------------- MODULE MCAccessDecisions --------------------------
(* Small instances of AccessDecisions for TLC. *)
EXTENDS AccessDecisions, TLC

Symmetry == Permutations(Requests) \cup Permutations(RoleIds) \cup Permutations(GrantIds)
            \cup Permutations(Names) \cup Permutations(Actions)
=============================================================================
