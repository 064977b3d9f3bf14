-------------------------- MODULE MCBrowserSession --------------------------
(* Small instance of BrowserSession for TLC. *)
EXTENDS BrowserSession, TLC

Symmetry == Permutations(Requests) \cup Permutations(Jtis)
=============================================================================
