--------------------------- MODULE MCAuthSettings ---------------------------
(* Small instances of AuthSettings for TLC. *)
EXTENDS AuthSettings
=============================================================================
