----------------------------- MODULE MCRbacConfig ---------------------------
(* Small instances of RbacConfig for TLC. *)
EXTENDS RbacConfig, TLC

Symmetry == Permutations(Requests) \cup Permutations(RoleIds) \cup Permutations(GrantIds)
            \cup Permutations(Names) \cup Permutations(Actions)
=============================================================================
