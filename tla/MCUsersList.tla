----------------------------- MODULE MCUsersList ----------------------------
(* Small instances of UsersList for TLC. *)
EXTENDS UsersList
=============================================================================
