--------------------------- MODULE RotatingTokens ---------------------------
(***************************************************************************)
(* What refresh-token rotation promises, without users, rows, locks or     *)
(* requests.  A login opens a family; the family has at most one usable    *)
(* token, its head; a rotation replaces the head by a token never seen     *)
(* before; a closed family (logout, theft alarm, deleted account) never    *)
(* has a usable token again.                                               *)
(***************************************************************************)
CONSTANTS
    Jtis,   \* token identifiers; a family is named by its first token
    NULL    \* "no usable token"

VARIABLES
    head,   \* head[f] is the usable token of family f, or NULL
    used    \* every token identifier that was ever issued

vars == <<head, used>>

Init == /\ head = [f \in Jtis |-> NULL]
        /\ used = {}

(* A login opens a family with a fresh token. *)
Open(j) == /\ j \notin used
           /\ used' = used \cup {j}
           /\ head' = [head EXCEPT ![j] = j]

(* The head of f is traded for a fresh token. *)
Rotate(f, k) == /\ head[f] # NULL
                /\ k \notin used
                /\ used' = used \cup {k}
                /\ head' = [head EXCEPT ![f] = k]

(* A token is issued that nobody will ever be able to use: it was signed   *)
(* for an account state that has passed in the meantime.                   *)
Waste(k) == /\ k \notin used
            /\ used' = used \cup {k}
            /\ UNCHANGED head

(* Some families lose their token. *)
Close(F) == /\ head' = [f \in Jtis |-> IF f \in F THEN NULL ELSE head[f]]
            /\ UNCHANGED used

Next == \/ \E j \in Jtis : Open(j) \/ Waste(j)
        \/ \E f, k \in Jtis : Rotate(f, k)
        \/ \E F \in SUBSET Jtis : Close(F)

Spec == Init /\ [][Next]_vars

-----------------------------------------------------------------------------
(* A usable token was issued, and belongs to one family.                   *)
HeadsOK ==
    /\ head \in [Jtis -> Jtis \cup {NULL}] /\ used \subseteq Jtis
    /\ \A f \in Jtis : head[f] # NULL => head[f] \in used
    /\ \A f, g \in Jtis : head[f] # NULL /\ head[f] = head[g] => f = g

(* A token that is no family's head never becomes one again, and a family  *)
(* without a usable token never gets one.                                  *)
NothingReturns ==
    [][/\ \A j \in used : (\E f \in Jtis : head'[f] = j) => \E f \in Jtis : head[f] = j
       /\ \A f \in used : head[f] = NULL => head'[f] = NULL]_vars
=============================================================================
