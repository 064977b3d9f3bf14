------------------------------ MODULE UsersList -----------------------------
(***************************************************************************)
(* UsersListService.getUsersList: an administrator walks through the       *)
(* pages of one listing, with keyset cursors, while accounts are created,  *)
(* deleted and renamed between two pages.                                  *)
(*                                                                         *)
(* Every page is one query.  Identifiers, addresses and creation times are *)
(* numbers in the order of the database.  A search is the pair of the      *)
(* identifiers and the addresses it matches: a UUID restricts the former,  *)
(* a text the latter.  The order of the accounts on one page is the ORDER  *)
(* BY of its query; what the pages have to get right is the order from one *)
(* to the next, so a page is the set of the items on it.                   *)
(***************************************************************************)
EXTENDS Integers, Sequences, FiniteSets, FiniteSetsExt

CONSTANTS
    Ids,         \* primary keys
    Emails,      \* addresses; one more per account stands for deleted-<id>@...
    Times,       \* creation times, in milliseconds
    Limits,      \* page sizes a client asks for
    MaxLimit,    \* USERS_LIST_MAX_LIMIT
    MaxChanges,  \* bound on changes of the table during the walk
    NULL

ASSUME NumbersAssumption ==
    /\ Ids \subseteq Nat /\ Emails \subseteq Nat /\ Times \subseteq Nat /\ Limits \subseteq Nat \ {0}
    /\ MaxLimit \in Nat /\ MaxChanges \in Nat
    /\ NULL \notin Ids

VARIABLES
    rows,     \* users by primary key, NULL where there is none
    query,    \* status, search, sort and order of the walk
    cursor,   \* nextCursor of the last page, NULL before the first
    walk,     \* "start", "more", "end"
    listed,   \* the pages so far: users with the value they sort by
    changes,
    touched   \* history: accounts created or changed since the first page

vars == <<rows, query, cursor, walk, listed, changes, touched>>

Anonymized(i) == 1000 + i   \* deleted-<id>@deleted.local

Searches == {[ids |-> {i}, emails |-> Emails] : i \in Ids}
            \cup {[ids |-> Ids, emails |-> E] : E \in SUBSET Emails}

Sorts  == {"email", "created_at"}
Orders == {"asc", "desc"}

Queries == [status : {"all", "active", "deleted"}, search : Searches,
            sort : Sorts, order : Orders]

Present == {i \in Ids : rows[i] # NULL}

(* Addresses are unique; creation times are not. *)
Free(e) == \A i \in Present : rows[i].email # e

Init ==
    /\ rows \in {R \in [Ids -> [email : Emails, createdAt : Times, deleted : {FALSE}]
                               \cup {NULL}] :
                    \A i, j \in Ids : R[i] # NULL /\ R[j] # NULL /\ R[i].email = R[j].email
                                      => i = j}
    /\ query \in Queries
    /\ cursor = NULL /\ walk = "start" /\ listed = <<>>
    /\ changes = 0 /\ touched = {}

-----------------------------------------------------------------------------
(* The column of SORT_COLUMNS. *)
Value(i, sort) == IF sort = "email" THEN rows[i].email ELSE rows[i].createdAt

(* Row comparison (value, id) in the direction of the listing. *)
Less(a, b) == a.value < b.value \/ (a.value = b.value /\ a.id < b.id)

Before(a, b, order) == IF order = "asc" THEN Less(a, b) ELSE Less(b, a)

(* applySearch() and applyStatusFilter().  No text a client looks for is   *)
(* part of every anonymous address here.                                   *)
Matches(i) ==
    /\ i \in query.search.ids
    /\ query.search.emails # Emails => rows[i].email \in query.search.emails
    /\ query.status = "active" => ~rows[i].deleted
    /\ query.status = "deleted" => rows[i].deleted

(* Mutant: the rows that tie with the cursor are skipped. *)
BeyondTies(item, c, order) ==
    c = NULL \/ (Before(c, item, order) /\ item.value # c.value)

(* applyCursor() *)
Beyond(item, c, order) == c = NULL \/ Before(c, item, order)

Item(i, sort) == [value |-> Value(i, sort), id |-> i]

(* All rows the query matches from the cursor on. *)
Matching(sort, order) ==
    {Item(i, sort) : i \in {j \in Present :
                            Matches(j) /\ Beyond(Item(j, sort), cursor, order)}}

(* Mutant: the order in the cursor is not compared. *)
DecodeAnyOrder(c, sort, order) == c # NULL => c.sort = sort

(* decodeUsersCursor(): a cursor of another listing answers 400. *)
DecodeUsersCursor(c, sort, order) == c # NULL => c.sort = sort /\ c.order = order

(* encodeUsersCursor() *)
EncodeUsersCursor(item, sort, order) ==
    [value |-> item.value, id |-> item.id, sort |-> sort, order |-> order]

(* take(limit + 1): the extra row only says that a next page exists. *)
HasNextPage(n, limit) == n > limit

(* The first of the rows in the order asked for. *)
FirstOf(page, found, order) ==
    \A x \in page, y \in found \ page : Before(x, y, order)

LastOfPage(x, page, order) ==
    x \in page /\ \A y \in page \ {x} : Before(y, x, order)

(* A limit above the maximum answers 400.  Each page may be asked for with *)
(* a sort and an order of its own; the first one has those of the walk.    *)
Page(limit, sort, order) ==
    /\ walk # "end"
    /\ walk = "start" => sort = query.sort /\ order = query.order
    /\ limit <= MaxLimit
    /\ DecodeUsersCursor(cursor, sort, order)
    /\ LET found == Matching(sort, order)
       IN  \/ /\ ~HasNextPage(Cardinality(found), limit)
              /\ listed' = Append(listed, found)
              /\ walk' = "end" /\ cursor' = NULL
           \/ /\ HasNextPage(Cardinality(found), limit)
              /\ walk' = "more"
              /\ \E page \in kSubset(limit, found), last \in found :
                    /\ FirstOf(page, found, order)
                    /\ LastOfPage(last, page, order)
                    /\ listed' = Append(listed, page)
                    /\ cursor' = EncodeUsersCursor(last, sort, order)
    /\ UNCHANGED <<rows, query, changes, touched>>

-----------------------------------------------------------------------------
(* What other requests do to the table between two pages. *)
Change(i, row) ==
    /\ walk = "more"
    /\ changes < MaxChanges
    /\ changes' = changes + 1
    /\ rows' = [rows EXCEPT ![i] = row]
    /\ touched' = touched \cup {i}
    /\ UNCHANGED <<query, cursor, walk, listed>>

Register(i, e, t) ==
    /\ rows[i] = NULL
    /\ Free(e)
    /\ Change(i, [email |-> e, createdAt |-> t, deleted |-> FALSE])

ChangeEmail(i, e) ==
    /\ i \in Present
    /\ ~rows[i].deleted
    /\ Free(e)
    /\ Change(i, [rows[i] EXCEPT !.email = e])

(* Mutant: the address set to null. *)
DeleteAddress(i) ==
    /\ i \in Present
    /\ ~rows[i].deleted
    /\ Change(i, [rows[i] EXCEPT !.email = NULL, !.deleted = TRUE])

Delete(i) ==
    /\ i \in Present
    /\ ~rows[i].deleted
    /\ Change(i, [rows[i] EXCEPT !.email = Anonymized(i), !.deleted = TRUE])

Ended == walk = "end" /\ UNCHANGED vars

Next ==
    \/ \E limit \in Limits, s \in Sorts, o \in Orders : Page(limit, s, o)
    \/ \E i \in Ids :
          \/ \E e \in Emails, t \in Times : Register(i, e, t)
          \/ \E e \in Emails : ChangeEmail(i, e)
          \/ Delete(i)
    \/ Ended

Spec == Init /\ [][Next]_vars

-----------------------------------------------------------------------------
User == [email : Emails \cup {Anonymized(i) : i \in Ids}, createdAt : Times, deleted : BOOLEAN]

Items == [value : Nat, id : Ids]

Cursors == [value : Nat, id : Ids, sort : Sorts, order : Orders]

ASSUME RowsAssumption == NULL \notin User \cup Cursors

TypeOK ==
    /\ rows \in [Ids -> User \cup {NULL}]
    /\ query \in Queries
    /\ walk \in {"start", "more", "end"}
    /\ IF walk = "more" THEN cursor \in Cursors ELSE cursor = NULL
    /\ listed \in Seq(SUBSET Items)
    /\ changes \in 0..MaxChanges
    /\ touched \in SUBSET Ids

Listed(i) == {k \in DOMAIN listed : \E x \in listed[k] : x.id = i}

(* However the table changes between the pages, an account that nobody     *)
(* touches is on exactly one page of a finished walk if it matches the     *)
(* query, ties of creation time and changes of page size included, and on  *)
(* none if it does not.                                                    *)
UntouchedListedOnce ==
    walk = "end" => \A i \in Present \ touched :
        Cardinality(Listed(i)) = IF Matches(i) THEN 1 ELSE 0

(* The pages one after the other are in the order of the listing: no page  *)
(* goes back behind an account of one before, nor goes on in another order *)
(* than the first.                                                         *)
ListingIsOrdered ==
    \A k, l \in DOMAIN listed : k < l =>
        \A x \in listed[k], y \in listed[l] : Before(x, y, query.order)

-----------------------------------------------------------------------------
(* The invariant of the proofs: the cursor is the end of the pages so far, *)
(* and an account that nobody touched is on one of them exactly if it      *)
(* matches and does not lie beyond the cursor.                             *)
CursorOK ==
    /\ walk = "start" => listed = <<>>
    /\ walk = "more" =>
          /\ cursor.sort = query.sort /\ cursor.order = query.order
          /\ \A k \in DOMAIN listed : \A x \in listed[k] : ~Before(cursor, x, query.order)

ListedOK ==
    \A i \in Present \ touched : LET item == Item(i, query.sort) IN
        /\ \A k \in DOMAIN listed : \A x \in listed[k] :
              x.id = i => x = item /\ Matches(i)
        /\ Matches(i) =>
              \/ walk = "start"
              \/ walk = "more" /\ Before(cursor, item, query.order)
              \/ \E k \in DOMAIN listed : item \in listed[k]

(* What holds of a listing at any moment of the walk through its pages,    *)
(* whatever other requests do to the accounts.                             *)
ListIInv == TypeOK /\ CursorOK /\ ListingIsOrdered /\ ListedOK
=============================================================================
