----------------------------- MODULE OneTimeCode ----------------------------
(***************************************************************************)
(* What a confirmation code promises, for one account and one purpose: at  *)
(* most one code is pending; issuing another replaces it; a pending code   *)
(* is accepted at most once, and only while fewer than MaxAttempts wrong   *)
(* submissions have been refused since it was issued.                      *)
(***************************************************************************)
EXTENDS Naturals

CONSTANTS Codes, MaxAttempts, NULL

VARIABLES
    pending,   \* the code that would be accepted, or NULL
    refused,   \* wrong submissions refused since the last issue
    spent      \* codes accepted so far

vars == <<pending, refused, spent>>

Init == pending = NULL /\ refused = 0 /\ spent = {}

Issue(c) == /\ c \notin spent
            /\ pending' = c
            /\ refused' = 0
            /\ UNCHANGED spent

Accept == /\ pending # NULL
          /\ refused < MaxAttempts
          /\ spent' = spent \cup {pending}
          /\ pending' = NULL
          /\ UNCHANGED refused

Refuse == /\ pending # NULL
          /\ refused < MaxAttempts
          /\ refused' = refused + 1
          /\ UNCHANGED <<pending, spent>>

Next == \/ \E c \in Codes : Issue(c)
        \/ Accept
        \/ Refuse

Spec == Init /\ [][Next]_vars

-----------------------------------------------------------------------------
(* The pending code has not been accepted yet, and was not refused too     *)
(* often.                                                                  *)
PendingOK ==
    /\ pending \in Codes \cup {NULL} /\ spent \subseteq Codes
    /\ refused \in 0..MaxAttempts
    /\ pending \notin spent

(* An accepted code never becomes pending again, and a code that was       *)
(* refused MaxAttempts times is never accepted.                            *)
AcceptedForGood ==
    [][/\ spent \subseteq spent' /\ \A c \in spent : pending' # c
       /\ spent' # spent => spent' = spent \cup {pending} /\ refused < MaxAttempts]_vars
=============================================================================
