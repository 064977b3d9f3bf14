--------------------------- MODULE UsersListProofs --------------------------
(***************************************************************************)
(* Proofs about UsersList: whatever other requests do to the accounts      *)
(* between two pages, the pages come in the order of the listing and an    *)
(* account nobody touches is on exactly one of them if it matches.         *)
(***************************************************************************)
EXTENDS UsersList, FiniteSetTheorems, TLAPS

-----------------------------------------------------------------------------
(* The order of the listing: (value, id), ascending or descending. *)
Comparable(x) == x.value \in Int /\ x.id \in Int

(* No item lies before itself. *)
LEMMA BeforeIrreflexive ==
    ASSUME NEW x, Comparable(x), NEW o
    PROVE  ~Before(x, x, o)
BY DEF Comparable, Before, Less

(* What lies before what lies before an item lies before it. *)
LEMMA BeforeTransitive ==
    ASSUME NEW x, NEW y, NEW z, Comparable(x), Comparable(y), Comparable(z), NEW o,
           Before(x, y, o), Before(y, z, o)
    PROVE  Before(x, z, o)
BY DEF Comparable, Before, Less

(* Two accounts are never at the same place: equal values are told apart   *)
(* by the primary key.                                                     *)
LEMMA BeforeTotal ==
    ASSUME NEW x, NEW y, Comparable(x), Comparable(y), NEW o
    PROVE  Before(x, y, o) \/ Before(y, x, o) \/ (x.value = y.value /\ x.id = y.id)
BY DEF Comparable, Before, Less

(* So a place that is not beyond the cursor lies before all that is. *)
LEMMA BeforeBeyond ==
    ASSUME NEW x, NEW c, NEW y, Comparable(x), Comparable(c), Comparable(y), NEW o,
           ~Before(c, x, o), Before(c, y, o)
    PROVE  Before(x, y, o)
BY DEF Comparable, Before, Less

(* The items of accounts that exist. *)
LEMMA ItemType ==
    ASSUME TypeOK, NEW i \in Present, NEW sort
    PROVE  Item(i, sort) \in Items /\ Item(i, sort).id = i
<1>1. rows[i] \in User
  BY DEF TypeOK, Present
<1>2. rows[i].email \in Nat /\ rows[i].createdAt \in Nat
  <2>1. rows[i].email \in Emails \/ \E j \in Ids : rows[i].email = Anonymized(j)
    BY <1>1 DEF User
  <2>2. \A j \in Ids : Anonymized(j) \in Nat
    BY NumbersAssumption DEF Anonymized
  <2>3. rows[i].createdAt \in Times
    BY <1>1 DEF User
  <2>4. QED
    BY <2>1, <2>2, <2>3, NumbersAssumption
<1>3. i \in Ids
  BY DEF Present
<1>4. QED
  BY <1>2, <1>3 DEF Item, Items, Value

(* Items and cursors are places in the order. *)
LEMMA PlacesCompare ==
    /\ \A x \in Items : Comparable(x)
    /\ \A c \in Cursors : Comparable(c)
<1>1. Ids \subseteq Int /\ Nat \subseteq Int
  BY NumbersAssumption
<1>2. \A x \in Items : x.value \in Nat /\ x.id \in Ids
  BY DEF Items
<1>3. \A c \in Cursors : c.value \in Nat /\ c.id \in Ids
  BY DEF Cursors
<1>4. QED
  BY <1>1, <1>2, <1>3 DEF Comparable

-----------------------------------------------------------------------------
(* Pages. *)

(* What a page does: the first of the rows beyond the cursor, up to the    *)
(* last of them, or all of them.                                           *)
Serves(found, page, sort, order) ==
    /\ sort = query.sort /\ order = query.order
    /\ walk \in {"start", "more"}
    /\ found = Matching(sort, order)
    /\ page \in SUBSET found
    /\ listed' = Append(listed, page)
    /\ \/ walk' = "end" /\ cursor' = NULL /\ page = found
       \/ /\ walk' = "more"
          /\ FirstOf(page, found, order)
          /\ \E last \in found : /\ LastOfPage(last, page, order)
                                 /\ cursor' = EncodeUsersCursor(last, sort, order)
    /\ UNCHANGED <<rows, query, changes, touched>>

(* Every page of the walk has the sort and the order of the first: another *)
(* one's cursor is refused.                                                *)
LEMMA PageServes ==
    ASSUME TypeOK, CursorOK, NEW limit, NEW sort, NEW order, Page(limit, sort, order)
    PROVE  \E found, page : Serves(found, page, sort, order)
<1>1. sort = query.sort /\ order = query.order
  <2>1. CASE walk = "start"
    BY <2>1 DEF Page
  <2>2. CASE walk = "more"
    <3>1. cursor # NULL
      BY <2>2, RowsAssumption DEF TypeOK
    <3>2. QED
      BY <2>2, <3>1 DEF Page, DecodeUsersCursor, CursorOK
  <2>3. QED
    BY <2>1, <2>2 DEF Page, TypeOK
<1>2. walk \in {"start", "more"}
  BY DEF Page, TypeOK
<1>3. UNCHANGED <<rows, query, changes, touched>>
  BY DEF Page
<1>4. PICK found : /\ found = Matching(sort, order)
                   /\ \/ /\ listed' = Append(listed, found)
                         /\ walk' = "end" /\ cursor' = NULL
                      \/ /\ walk' = "more"
                         /\ \E page \in kSubset(limit, found), last \in found :
                               /\ FirstOf(page, found, order)
                               /\ LastOfPage(last, page, order)
                               /\ listed' = Append(listed, page)
                               /\ cursor' = EncodeUsersCursor(last, sort, order)
  BY DEF Page
<1>5. CASE listed' = Append(listed, found) /\ walk' = "end" /\ cursor' = NULL
  BY <1>1, <1>2, <1>3, <1>4, <1>5 DEF Serves
<1>6. CASE /\ walk' = "more"
           /\ \E page \in kSubset(limit, found), last \in found :
                 /\ FirstOf(page, found, order)
                 /\ LastOfPage(last, page, order)
                 /\ listed' = Append(listed, page)
                 /\ cursor' = EncodeUsersCursor(last, sort, order)
  <2>1. PICK page \in kSubset(limit, found), last \in found :
                 /\ FirstOf(page, found, order)
                 /\ LastOfPage(last, page, order)
                 /\ listed' = Append(listed, page)
                 /\ cursor' = EncodeUsersCursor(last, sort, order)
    BY <1>6
  <2>2. page \in SUBSET found
    BY DEF kSubset
  <2>3. QED
    BY <1>1, <1>2, <1>3, <1>4, <1>6, <2>1, <2>2 DEF Serves
<1>7. QED
  BY <1>4, <1>5, <1>6

(* What a page finds: accounts that match, at the places beyond the        *)
(* cursor.                                                                 *)
LEMMA FoundRows ==
    ASSUME TypeOK, NEW sort, NEW order, NEW x
    PROVE  x \in Matching(sort, order) <=>
              \E i \in Present : /\ x = Item(i, sort) /\ x \in Items /\ x.id = i
                                 /\ Matches(i) /\ Beyond(x, cursor, order)
BY ItemType DEF Matching

(* A change touches one account and leaves the walk alone. *)
Touches(i) ==
    /\ rows' \in [Ids -> User \cup {NULL}]
    /\ \A j \in Ids \ {i} : rows'[j] = rows[j]
    /\ i \in Ids /\ touched' = touched \cup {i}
    /\ changes' \in 0..MaxChanges
    /\ UNCHANGED <<query, cursor, walk, listed>>

(* Registrations, changes of address and deletions are such changes. *)
LEMMA ChangesTouch ==
    ASSUME TypeOK, NEW i \in Ids, NEW row \in User, Change(i, row)
    PROVE  Touches(i)
<1>1. rows' = [rows EXCEPT ![i] = row] /\ rows \in [Ids -> User \cup {NULL}]
  BY DEF Change, TypeOK
<1>2. rows' \in [Ids -> User \cup {NULL}] /\ \A j \in Ids \ {i} : rows'[j] = rows[j]
  BY <1>1
<1>3. changes' \in 0..MaxChanges
  BY NumbersAssumption DEF Change, TypeOK
<1>4. QED
  BY <1>2, <1>3 DEF Change, Touches

(* What any step does to the listing. *)
LEMMA StepCases ==
    ASSUME TypeOK, CursorOK, [Next]_vars
    PROVE  \/ \E found, page, sort, order : Serves(found, page, sort, order)
           \/ \E i \in Ids : Touches(i)
           \/ UNCHANGED vars
<1>1. ASSUME NEW i \in Ids, NEW e \in Emails, NEW t \in Times, Register(i, e, t)
      PROVE  Touches(i)
  <2>1. [email |-> e, createdAt |-> t, deleted |-> FALSE] \in User
    BY DEF User
  <2>2. QED
    BY <1>1, <2>1, ChangesTouch DEF Register
<1>2. ASSUME NEW i \in Ids, NEW e \in Emails, ChangeEmail(i, e)
      PROVE  Touches(i)
  <2>1. rows[i] \in User
    BY <1>2 DEF ChangeEmail, Present, TypeOK
  <2>2. [rows[i] EXCEPT !.email = e] \in User
    BY <2>1 DEF User
  <2>3. QED
    BY <1>2, <2>2, ChangesTouch DEF ChangeEmail
<1>3. ASSUME NEW i \in Ids, Delete(i)
      PROVE  Touches(i)
  <2>1. rows[i] \in User
    BY <1>3 DEF Delete, Present, TypeOK
  <2>2. [rows[i] EXCEPT !.email = Anonymized(i), !.deleted = TRUE] \in User
    BY <2>1 DEF User
  <2>3. QED
    BY <1>3, <2>2, ChangesTouch DEF Delete
<1>4. QED
  BY <1>1, <1>2, <1>3, PageServes DEF Next, Ended, vars

-----------------------------------------------------------------------------
(* Types. *)

(* A step keeps the types. *)
LEMMA TypeStep ==
    ASSUME TypeOK, CursorOK, [Next]_vars
    PROVE  TypeOK'
<1>1. ASSUME NEW found, NEW page, NEW sort, NEW order, Serves(found, page, sort, order)
      PROVE  TypeOK'
  <2>1. found \in SUBSET Items
    BY <1>1, FoundRows DEF Serves
  <2>2. listed' \in Seq(SUBSET Items)
    BY <1>1, <2>1 DEF Serves, TypeOK
  <2>3. ASSUME NEW last \in found
        PROVE  EncodeUsersCursor(last, sort, order) \in Cursors
    BY <1>1, <2>1 DEF Serves, TypeOK, EncodeUsersCursor, Items, Cursors, Queries
  <2>4. QED
    BY <1>1, <2>2, <2>3 DEF Serves, TypeOK
<1>2. ASSUME NEW i \in Ids, Touches(i)
      PROVE  TypeOK'
  BY <1>2 DEF Touches, TypeOK
<1>3. CASE UNCHANGED vars
  BY <1>3 DEF vars, TypeOK
<1>4. QED
  BY <1>1, <1>2, <1>3, StepCases

-----------------------------------------------------------------------------
(* The cursor, the order and the accounts on the pages. *)

(* The new page comes after all those so far. *)
LEMMA PageFollows ==
    ASSUME TypeOK, CursorOK, NEW found, NEW page, NEW sort, NEW order,
           Serves(found, page, sort, order),
           NEW k \in DOMAIN listed, NEW x \in listed[k], NEW y \in found
    PROVE  /\ walk = "more" /\ Before(cursor, y, query.order) /\ ~Before(cursor, x, query.order)
           /\ Before(x, y, query.order)
<1>1. walk = "more"
  BY DEF Serves, CursorOK
<1>2. cursor \in Cursors /\ cursor # NULL
  BY <1>1, RowsAssumption DEF TypeOK
<1>3. y \in Items /\ Before(cursor, y, query.order)
  BY <1>2, FoundRows DEF Serves, Beyond
<1>4. x \in Items /\ ~Before(cursor, x, query.order)
  BY <1>1 DEF CursorOK, TypeOK
<1>5. QED
  BY <1>1, <1>2, <1>3, <1>4, BeforeBeyond, PlacesCompare

(* The pages after another one. *)
LEMMA Pages ==
    ASSUME TypeOK, NEW page, listed' = Append(listed, page)
    PROVE  /\ DOMAIN listed' = DOMAIN listed \cup {Len(listed) + 1}
           /\ Len(listed) + 1 \notin DOMAIN listed
           /\ DOMAIN listed \in SUBSET Nat
           /\ \A k \in DOMAIN listed : listed'[k] = listed[k] /\ k < Len(listed) + 1
           /\ listed'[Len(listed) + 1] = page
BY DEF TypeOK

(* A step leaves the cursor at the end of the pages. *)
LEMMA CursorStep ==
    ASSUME TypeOK, CursorOK, [Next]_vars
    PROVE  CursorOK'
<1>1. ASSUME NEW found, NEW page, NEW sort, NEW order, Serves(found, page, sort, order),
             walk' = "more"
      PROVE  CursorOK'
  <2>1. PICK last \in found : /\ LastOfPage(last, page, order)
                              /\ cursor' = EncodeUsersCursor(last, sort, order)
    BY <1>1 DEF Serves
  <2>2. cursor'.sort = query.sort /\ cursor'.order = query.order /\ query' = query
    BY <1>1, <2>1 DEF Serves, EncodeUsersCursor
  <2>3. cursor'.value = last.value /\ cursor'.id = last.id
    BY <2>1 DEF EncodeUsersCursor
  <2>4. found \in SUBSET Items
    BY <1>1, FoundRows DEF Serves
  <2>5. ASSUME NEW x \in Items, x = last \/ Before(x, last, query.order)
        PROVE  ~Before(cursor', x, query.order)
    BY <2>3, <2>4, <2>5, PlacesCompare DEF Comparable, Before, Less
  <2>6. ASSUME NEW k \in DOMAIN listed, NEW x \in listed[k]
        PROVE  ~Before(cursor', x, query.order)
    <3>1. Before(x, last, query.order)
      BY <1>1, PageFollows
    <3>2. QED
      BY <2>5, <3>1 DEF TypeOK
  <2>7. ASSUME NEW x \in page
        PROVE  ~Before(cursor', x, query.order)
    BY <1>1, <2>1, <2>4, <2>5 DEF Serves, LastOfPage
  <2>8. listed' = Append(listed, page)
    BY <1>1 DEF Serves
  <2>9. \A k \in DOMAIN listed' : \A x \in listed'[k] : ~Before(cursor', x, query'.order)
    BY <2>2, <2>6, <2>7, <2>8, Pages
  <2>10. QED
    BY <1>1, <2>2, <2>9 DEF CursorOK
<1>2. ASSUME NEW found, NEW page, NEW sort, NEW order, Serves(found, page, sort, order)
      PROVE  CursorOK'
  BY <1>1, <1>2 DEF Serves, CursorOK
<1>3. ASSUME NEW i \in Ids, Touches(i)
      PROVE  CursorOK'
  BY <1>3 DEF Touches, CursorOK
<1>4. CASE UNCHANGED vars
  BY <1>4 DEF vars, CursorOK
<1>5. QED
  BY <1>2, <1>3, <1>4, StepCases

(* A step keeps the pages in order. *)
LEMMA OrderStep ==
    ASSUME TypeOK, CursorOK, ListingIsOrdered, [Next]_vars
    PROVE  ListingIsOrdered'
<1>1. ASSUME NEW found, NEW page, NEW sort, NEW order, Serves(found, page, sort, order)
      PROVE  ListingIsOrdered'
  <2>1. listed' = Append(listed, page) /\ query' = query /\ page \in SUBSET found
    BY <1>1 DEF Serves
  <2>2. SUFFICES ASSUME NEW k \in DOMAIN listed', NEW l \in DOMAIN listed', k < l,
                        NEW x \in listed'[k], NEW y \in listed'[l]
                 PROVE  Before(x, y, query.order)
    BY <2>1 DEF ListingIsOrdered
  <2>3. k \in DOMAIN listed
    BY <2>1, <2>2, Pages
  <2>4. CASE l \in DOMAIN listed
    BY <2>1, <2>2, <2>3, <2>4, Pages DEF ListingIsOrdered
  <2>5. CASE l = Len(listed) + 1
    BY <1>1, <2>1, <2>3, <2>5, Pages, PageFollows
  <2>6. QED
    BY <2>1, <2>4, <2>5, Pages
<1>2. ASSUME NEW i \in Ids, Touches(i)
      PROVE  ListingIsOrdered'
  BY <1>2 DEF Touches, ListingIsOrdered
<1>3. CASE UNCHANGED vars
  BY <1>3 DEF vars, ListingIsOrdered
<1>4. QED
  BY <1>1, <1>2, <1>3, StepCases

(* The accounts on the pages. *)
OnPages(i) ==
    /\ \A k \in DOMAIN listed : \A x \in listed[k] :
          x.id = i => x = Item(i, query.sort) /\ Matches(i)
    /\ Matches(i) =>
          \/ walk = "start"
          \/ walk = "more" /\ Before(cursor, Item(i, query.sort), query.order)
          \/ \E k \in DOMAIN listed : Item(i, query.sort) \in listed[k]

(* A page lists the accounts beyond the cursor up to its own. *)
LEMMA PageLists ==
    ASSUME TypeOK, CursorOK, NEW found, NEW page, NEW sort, NEW order,
           Serves(found, page, sort, order), NEW i \in Present, OnPages(i)
    PROVE  OnPages(i)'
<1> DEFINE item == Item(i, query.sort)
<1>1. item' = item /\ (Matches(i)' <=> Matches(i)) /\ query' = query
  BY DEF Serves, Item, Value, Matches
<1>2. listed' = Append(listed, page) /\ page \in SUBSET found /\ found = Matching(sort, order)
      /\ sort = query.sort /\ order = query.order
  BY DEF Serves
<1>3. item \in Items /\ item.id = i
  BY ItemType
<1>4. ASSUME NEW x \in page, x.id = i
      PROVE  x = item /\ Matches(i)
  BY <1>2, <1>4, FoundRows
<1>5. \A k \in DOMAIN listed' : \A x \in listed'[k] : x.id = i => x = item /\ Matches(i)
  BY <1>2, <1>4, Pages DEF OnPages
<1>6. ASSUME item \in page
      PROVE  \E k \in DOMAIN listed' : item \in listed'[k]
  BY <1>2, <1>6, Pages
<1>7. ASSUME NEW k \in DOMAIN listed, item \in listed[k]
      PROVE  \E l \in DOMAIN listed' : item \in listed'[l]
  BY <1>2, <1>7, Pages
<1>8. ASSUME Matches(i), item \notin page, \A k \in DOMAIN listed : item \notin listed[k]
      PROVE  walk' = "more" /\ Before(cursor', item, query.order)
  <2>1. Beyond(item, cursor, order)
    BY <1>2, <1>8 DEF OnPages, Serves, Beyond, TypeOK
  <2>2. item \in found
    BY <1>2, <1>3, <1>8, <2>1, FoundRows
  <2>3. walk' = "more" /\ FirstOf(page, found, order)
    BY <1>8, <2>2 DEF Serves
  <2>4. PICK last \in page : cursor' = EncodeUsersCursor(last, sort, order)
    BY <1>8, <2>2 DEF Serves, LastOfPage
  <2>5. Before(last, item, order)
    BY <1>8, <2>2, <2>3, <2>4 DEF FirstOf
  <2>6. QED
    BY <1>2, <2>3, <2>4, <2>5 DEF EncodeUsersCursor, Before, Less
<1>9. Matches(i) => \/ walk' = "more" /\ Before(cursor', item, query.order)
                    \/ \E k \in DOMAIN listed' : item \in listed'[k]
  BY <1>6, <1>7, <1>8
<1> HIDE DEF item
<1>10. /\ \A k \in DOMAIN listed' : \A x \in listed'[k] : x.id = i => x = item' /\ Matches(i)'
       /\ Matches(i)' => \/ walk' = "more" /\ Before(cursor', item', query'.order)
                         \/ \E k \in DOMAIN listed' : item' \in listed'[k]
  BY <1>1, <1>5, <1>9
<1> USE DEF item
<1>11. QED
  BY <1>10 DEF OnPages

(* An account that is not touched stays where it is. *)
LEMMA UntouchedStays ==
    ASSUME NEW i \in Ids, Touches(i), NEW j \in Ids \ {i}, OnPages(j)
    PROVE  OnPages(j)'
<1>1. /\ rows'[j] = rows[j] /\ query' = query /\ cursor' = cursor
      /\ walk' = walk /\ listed' = listed
  BY DEF Touches
<1>2. Item(j, query.sort)' = Item(j, query.sort) /\ (Matches(j)' <=> Matches(j))
  BY <1>1 DEF Item, Value, Matches
<1>3. QED
  BY <1>1, <1>2 DEF OnPages

(* A step keeps the accounts nobody touched on the pages they belong to. *)
LEMMA ListedStep ==
    ASSUME TypeOK, CursorOK, ListedOK, [Next]_vars
    PROVE  ListedOK'
<1>1. \A i \in Present \ touched : OnPages(i)
  BY DEF ListedOK, OnPages
<1>2. SUFFICES ASSUME NEW i \in Present' \ touched'
               PROVE  OnPages(i)'
  BY DEF ListedOK, OnPages
<1>3. ASSUME NEW found, NEW page, NEW sort, NEW order, Serves(found, page, sort, order)
      PROVE  OnPages(i)'
  <2>1. i \in Present \ touched
    BY <1>2, <1>3 DEF Serves, Present
  <2>2. QED
    BY <1>1, <1>3, <2>1, PageLists
<1>4. ASSUME NEW j \in Ids, Touches(j)
      PROVE  OnPages(i)'
  <2>1. i \in Present \ touched /\ i # j /\ i \in Ids
    BY <1>2, <1>4 DEF Touches, Present
  <2>2. QED
    BY <1>1, <1>4, <2>1, UntouchedStays
<1>5. CASE UNCHANGED vars
  <2>1. i \in Present \ touched
    BY <1>2, <1>5 DEF vars, Present
  <2>2. OnPages(i)
    BY <1>1, <2>1
  <2>3. Item(i, query.sort)' = Item(i, query.sort) /\ (Matches(i)' <=> Matches(i))
    BY <1>5 DEF vars, Item, Value, Matches
  <2>4. QED
    BY <1>5, <2>2, <2>3 DEF vars, OnPages
<1>6. QED
  BY <1>3, <1>4, <1>5, StepCases

-----------------------------------------------------------------------------
(* The theorems. *)

(* Before the first page nothing is listed. *)
LEMMA InitOK == Init => ListIInv
<1> SUFFICES ASSUME Init PROVE ListIInv
  OBVIOUS
<1>1. rows \in [Ids -> User \cup {NULL}]
  <2>1. rows \in [Ids -> [email : Emails, createdAt : Times, deleted : {FALSE}] \cup {NULL}]
    BY DEF Init
  <2>2. [email : Emails, createdAt : Times, deleted : {FALSE}] \subseteq User
    BY DEF User
  <2>3. QED
    BY <2>1, <2>2
<1>2. TypeOK
  BY <1>1, NumbersAssumption DEF Init, TypeOK
<1>3. CursorOK /\ ListingIsOrdered /\ ListedOK
  BY DEF Init, CursorOK, ListingIsOrdered, ListedOK
<1>4. QED
  BY <1>2, <1>3 DEF ListIInv

(* The invariant: the cursor ends the pages, the pages are in order, and   *)
(* an account nobody touched is on them exactly if it matches and does not *)
(* lie beyond the cursor.                                                  *)
THEOREM ListInvariance == Spec => []ListIInv
<1>1. ListIInv /\ [Next]_vars => ListIInv'
  BY TypeStep, CursorStep, OrderStep, ListedStep DEF ListIInv
<1>2. QED
  BY <1>1, InitOK, PTL DEF Spec

(* Whatever happens to the accounts between two pages, the pages come in   *)
(* the order of the listing.                                               *)
THEOREM PagesAreOrdered == Spec => []ListingIsOrdered
<1>1. ListIInv => ListingIsOrdered
  BY DEF ListIInv
<1>2. QED
  BY <1>1, ListInvariance, PTL

(* No account is on two pages. *)
LEMMA OnOnePage ==
    ASSUME ListIInv, NEW i \in Present \ touched, NEW k \in Listed(i), NEW l \in Listed(i)
    PROVE  k = l
<1>1. PICK x \in listed[k] : x.id = i
  BY DEF Listed
<1>2. PICK y \in listed[l] : y.id = i
  BY DEF Listed
<1>3. x = Item(i, query.sort) /\ y = Item(i, query.sort)
  BY <1>1, <1>2 DEF ListIInv, ListedOK, Listed
<1>4. Item(i, query.sort) \in Items
  BY ItemType DEF ListIInv
<1>5. ~Before(x, y, query.order) /\ ~Before(y, x, query.order)
  BY <1>3, <1>4, BeforeIrreflexive, PlacesCompare
<1>6. k \in Nat /\ l \in Nat /\ k \in DOMAIN listed /\ l \in DOMAIN listed
  BY DEF ListIInv, TypeOK, Listed
<1>7. ~(k < l) /\ ~(l < k)
  BY <1>5, <1>6 DEF ListIInv, ListingIsOrdered
<1>8. QED
  BY <1>6, <1>7

(* At the end of the walk an account that nobody touched is on exactly one *)
(* page if it matches the query, and on none if it does not.               *)
THEOREM UntouchedAreListedOnce == Spec => []UntouchedListedOnce
<1>1. ListIInv => UntouchedListedOnce
  <2>1. SUFFICES ASSUME ListIInv, walk = "end", NEW i \in Present \ touched
                 PROVE  Cardinality(Listed(i)) = IF Matches(i) THEN 1 ELSE 0
    BY DEF UntouchedListedOnce
  <2>2. CASE Matches(i)
    <3>1. PICK k \in DOMAIN listed : Item(i, query.sort) \in listed[k]
      BY <2>1, <2>2 DEF ListIInv, ListedOK
    <3>2. k \in Listed(i)
      BY <2>1, <3>1, ItemType DEF Listed, ListIInv
    <3>3. Listed(i) = {k}
      BY <2>1, <3>2, OnOnePage
    <3>4. QED
      BY <2>2, <3>3, FS_Singleton
  <2>3. CASE ~Matches(i)
    <3>1. Listed(i) = {}
      BY <2>1, <2>3 DEF ListIInv, ListedOK, Listed
    <3>2. QED
      BY <2>3, <3>1, FS_EmptySet
  <2>4. QED
    BY <2>2, <2>3
<1>2. QED
  BY <1>1, ListInvariance, PTL
=============================================================================
