--------------------------- MODULE RbacConfigProofs --------------------------
(***************************************************************************)
(* Proofs about RbacConfig: what holds of tables, memory and requests      *)
(* however the requests overlap, and what holds until they first do.       *)
(***************************************************************************)
EXTENDS RbacConfig, TLAPS

(* The tables R have the columns and the constraints of the schema. *)
Tables(R) ==
    /\ DOMAIN R = Ids
    /\ \A i \in Ids : R[i] # NULL => RowOf(i, R[i])

(* What the checks of a handler have made sure of when it goes on to write *)
(* the row i.                                                              *)
Checked(i, e, step) ==
    \/ /\ step = "insert" /\ Fresh(i) /\ RowOf(i, e)
       /\ i \in GrantIds => /\ rows[e.perm] # NULL
                            /\ e.actions \subseteq rows[e.perm].actions
    \/ /\ step = "save" /\ rows[i] # NULL /\ RowOf(i, e)
       /\ i \in GrantIds => /\ e.perm = rows[i].perm /\ rows[e.perm] # NULL
                            /\ e.actions \subseteq rows[e.perm].actions
    \/ /\ step = "delete" /\ rows[i] # NULL
       /\ i \in RoleIds \cup PermIds => Dependents(rows, i) = {}

(* Every request that is not refused goes on like that. *)
LEMMA AskCases ==
    ASSUME TypeOK, Consistent(rows), NEW r \in Requests, Ask(r)
    PROVE  /\ pc[r] = "idle"
           /\ \/ Refuse(r)
              \/ \E i \in Ids : \E e, step : Proceed(r, i, e, step) /\ Checked(i, e, step)
<1> USE DEF TypeOK, Arrives
<1>1. ASSUME NEW n \in Names, NEW i \in RoleIds, CreateRole(r, i, n)
      PROVE  \E e, step : Proceed(r, i, e, step) /\ Checked(i, e, step)
  <2>1. RowOf(i, [name |-> n]) /\ i \notin GrantIds
    BY IdsAssumption DEF RowOf, Role
  <2>2. QED
    BY <1>1, <2>1 DEF CreateRole, Checked
<1>2. ASSUME NEW n \in Names, NEW i \in RoleIds, UpdateRole(r, i, n)
      PROVE  \E e, step : Proceed(r, i, e, step) /\ Checked(i, e, step)
  <2>1. RowOf(i, [rows[i] EXCEPT !.name = n]) /\ i \notin GrantIds /\ rows[i] # NULL
    BY <1>2, IdsAssumption DEF UpdateRole, RowOf, Role, Present
  <2>2. QED
    BY <1>2, <2>1 DEF UpdateRole, Checked
<1>3. ASSUME NEW n \in Names, NEW p \in PermIds, NEW A \in SUBSET Actions,
             CreatePermission(r, p, n, A)
      PROVE  \E e, step : Proceed(r, p, e, step) /\ Checked(p, e, step)
  <2>1. RowOf(p, [name |-> n, actions |-> A]) /\ p \notin GrantIds
    BY IdsAssumption DEF RowOf, Perm
  <2>2. QED
    BY <1>3, <2>1 DEF CreatePermission, Checked
<1>4. ASSUME NEW n \in Names, NEW p \in PermIds, NEW A \in SUBSET Actions,
             UpdatePermission(r, p, n, A)
      PROVE  \E e, step : Proceed(r, p, e, step) /\ Checked(p, e, step)
  <2>1. RowOf(p, [rows[p] EXCEPT !.name = n, !.actions = A])
        /\ p \notin GrantIds /\ rows[p] # NULL
    BY <1>4, IdsAssumption DEF UpdatePermission, RowOf, Perm, Present
  <2>2. QED
    BY <1>4, <2>1 DEF UpdatePermission, Checked
<1>5. ASSUME NEW i \in RoleIds \cup PermIds, RemoveNamed(r, i)
      PROVE  \E e, step : Proceed(r, i, e, step) /\ Checked(i, e, step)
  BY <1>5 DEF RemoveNamed, Checked, Present
<1>6. ASSUME NEW g \in GrantIds, NEW A \in SUBSET Actions, NEW i \in RoleIds,
             NEW p \in PermIds, CreateGrant(r, g, i, p, A)
      PROVE  \E e, step : Proceed(r, g, e, step) /\ Checked(g, e, step)
  <2>1. RowOf(g, [role |-> i, perm |-> p, actions |-> A])
    BY IdsAssumption DEF RowOf, Grant
  <2>2. rows[p] # NULL /\ A \subseteq rows[p].actions
    BY <1>6 DEF CreateGrant, ActionsAllowed, Present
  <2>3. QED
    BY <1>6, <2>1, <2>2 DEF CreateGrant, Checked
<1>7. ASSUME NEW g \in GrantIds, NEW A \in SUBSET Actions, UpdateGrant(r, g, A)
      PROVE  \E e, step : Proceed(r, g, e, step) /\ Checked(g, e, step)
  <2> DEFINE e == [rows[g] EXCEPT !.actions = A]
  <2>1. rows[g] \in Grant /\ rows[g] # NULL
    BY <1>7 DEF UpdateGrant, Present
  <2>2. RowOf(g, e) /\ e.perm = rows[g].perm /\ e.actions = A
    BY <2>1, IdsAssumption DEF RowOf, Grant
  <2>3. rows[e.perm] # NULL /\ A \subseteq rows[e.perm].actions
    BY <1>7, <2>1, <2>2 DEF UpdateGrant, ActionsAllowed, Present, Consistent
  <2>4. QED
    BY <1>7, <2>1, <2>2, <2>3 DEF UpdateGrant, Checked
<1>8. ASSUME NEW g \in GrantIds, RemoveGrant(r, g)
      PROVE  \E e, step : Proceed(r, g, e, step) /\ Checked(g, e, step)
  BY <1>8, IdsAssumption DEF RemoveGrant, Checked, Present
<1>9. pc[r] = "idle"
  BY DEF Ask, Refuse, CreateRole, UpdateRole, CreatePermission, UpdatePermission,
         RemoveNamed, CreateGrant, UpdateGrant, RemoveGrant
<1>10. QED
  BY <1>1, <1>2, <1>3, <1>4, <1>5, <1>6, <1>7, <1>8, <1>9 DEF Ask, Ids

(* save() of two rows of one table gives a row of that table, and each of  *)
(* its columns is that of the entity or that of the row.                   *)
LEMMA SavedRow ==
    ASSUME NEW i \in Ids, NEW row, NEW old, NEW e,
           row # NULL, RowOf(i, row), RowOf(i, e)
    PROVE  /\ RowOf(i, Saved(row, old, e)) /\ Saved(row, old, e) # NULL
           /\ i \in GrantIds =>
                /\ Saved(row, old, e).perm \in {row.perm, e.perm}
                /\ Saved(row, old, e).actions \in {row.actions, e.actions}
<1>1. CASE i \in RoleIds
  <2>1. row \in Role /\ e \in Role /\ i \notin PermIds \cup GrantIds
    BY <1>1, IdsAssumption DEF RowOf
  <2>2. Saved(row, old, e) \in Role
    BY <2>1 DEF Saved, Role
  <2>3. QED
    BY <2>1, <2>2, RowsAssumption DEF RowOf
<1>2. CASE i \in PermIds
  <2>1. row \in Perm /\ e \in Perm /\ i \notin RoleIds \cup GrantIds
    BY <1>2, IdsAssumption DEF RowOf
  <2>2. Saved(row, old, e) \in Perm
    BY <2>1 DEF Saved, Perm
  <2>3. QED
    BY <2>1, <2>2, RowsAssumption DEF RowOf
<1>3. CASE i \in GrantIds
  <2>1. row \in Grant /\ e \in Grant /\ i \notin RoleIds \cup PermIds
    BY <1>3, IdsAssumption DEF RowOf
  <2>2. /\ Saved(row, old, e) \in Grant
        /\ Saved(row, old, e).perm \in {row.perm, e.perm}
        /\ Saved(row, old, e).actions \in {row.actions, e.actions}
    BY <2>1 DEF Saved, Grant
  <2>3. QED
    BY <2>1, <2>2, RowsAssumption DEF RowOf
<1>4. QED
  BY <1>1, <1>2, <1>3 DEF Ids

(* What the tables R of a write of r have to do with the present ones.     *)
Outcome(r, R) ==
    /\ pc[r] \in {"insert", "update", "delete"} /\ key[r] \in Ids
    /\ Tables(R)
    /\ \A i \in Ids \ {key[r]} :
          \/ R[i] = rows[i]
          \/ /\ R[i] = NULL /\ pc[r] = "delete"
             /\ i \in Dependents(rows, key[r])
    /\ R[key[r]] = NULL => pc[r] = "delete" \/ rows[key[r]] = NULL
    /\ R[key[r]] # NULL =>
          /\ pc[r] \in Writing
          /\ key[r] \in GrantIds =>
                /\ R[key[r]].perm = entity[r].perm
                /\ \/ R[key[r]].actions = entity[r].actions
                   \/ rows[key[r]] # NULL /\ R[key[r]].actions = rows[key[r]].actions

(* Types, with those of the rows as the proofs use them. *)
LEMMA TypedTables ==
    ASSUME NEW R, DOMAIN R = Ids
    PROVE  Tables(R) <=>
              /\ \A i \in RoleIds : R[i] \in Role \cup {NULL}
              /\ \A p \in PermIds : R[p] \in Perm \cup {NULL}
              /\ \A g \in GrantIds : R[g] \in Grant \cup {NULL}
BY IdsAssumption DEF Tables, RowOf, Ids

(* Every statement that writes a table is one of these. *)
LEMMA WriteCases ==
    ASSUME TypeOK, RequestsOK, OfferedOK, NEW r \in Requests,
           Insert(r) \/ Delete(r) \/ Update(r)
    PROVE  \E R : Write(r, R) /\ Outcome(r, R)
<1>0. Tables(rows)
  BY TypedTables DEF TypeOK
<1>1. CASE Insert(r)
  <2> DEFINE R == [rows EXCEPT ![key[r]] = entity[r]]
  <2>1. pc[r] = "insert" /\ Write(r, R) /\ key[r] \in Ids /\ RowOf(key[r], entity[r])
    BY <1>1 DEF Insert, RequestsOK, Writing
  <2>2. Tables(R) /\ R[key[r]] = entity[r] /\ \A i \in Ids \ {key[r]} : R[i] = rows[i]
    BY <1>0, <2>1 DEF Tables
  <2> HIDE DEF R
  <2>3. entity[r] # NULL
    BY <2>1, RowsAssumption DEF RowOf, Ids
  <2>4. Outcome(r, R)
    BY <2>1, <2>2, <2>3 DEF Outcome, Writing
  <2>5. QED
    BY <2>1, <2>4
<1>2. CASE Delete(r)
  <2> DEFINE R == Without(rows, key[r])
  <2>1. pc[r] = "delete" /\ Write(r, R) /\ key[r] \in Ids
    BY <1>2 DEF Delete, RequestsOK
  <2>2. Tables(R) /\ R[key[r]] = NULL
        /\ \A i \in Ids : R[i] = rows[i] \/ (R[i] = NULL /\ (i = key[r] \/ i \in Dependents(rows, key[r])))
    BY <1>0, <2>1 DEF Tables, Without
  <2> HIDE DEF R
  <2>3. Outcome(r, R)
    BY <2>1, <2>2 DEF Outcome, Writing
  <2>4. QED
    BY <2>1, <2>3
<1>3. CASE Update(r)
  <2> DEFINE k == key[r]
             new == IF reloaded[r] = NULL THEN entity[r]
                    ELSE IF rows[k] = NULL THEN NULL
                    ELSE Saved(rows[k], reloaded[r], entity[r])
             R == [rows EXCEPT ![k] = new]
  <2>1. pc[r] = "update" /\ Write(r, R) /\ k \in Ids /\ RowOf(k, entity[r])
    BY <1>3 DEF Update, RequestsOK, Writing
  <2>2. k \in GrantIds /\ rows[k] # NULL => rows[k].perm = entity[r].perm
    BY <2>1 DEF OfferedOK, Writing
  <2>3. rows[k] # NULL => RowOf(k, rows[k])
    BY <1>0, <2>1 DEF Tables
  <2>4. /\ new = NULL => rows[k] = NULL
        /\ new # NULL => RowOf(k, new)
        /\ new # NULL /\ k \in GrantIds =>
              /\ new.perm = entity[r].perm
              /\ \/ new.actions = entity[r].actions
                 \/ rows[k] # NULL /\ new.actions = rows[k].actions
    <3> HIDE DEF k
    <3>1. CASE reloaded[r] = NULL \/ rows[k] = NULL
      <4>1. entity[r] # NULL
        BY <2>1, RowsAssumption DEF RowOf, Ids
      <4>2. QED
        BY <2>1, <3>1, <4>1
    <3>2. CASE reloaded[r] # NULL /\ rows[k] # NULL
      BY <2>1, <2>2, <2>3, <3>2, SavedRow
    <3>3. QED
      BY <3>1, <3>2
  <2> HIDE DEF new
  <2>5. Tables(R) /\ R[k] = new /\ \A i \in Ids \ {k} : R[i] = rows[i]
    BY <1>0, <2>1, <2>4 DEF Tables
  <2> HIDE DEF R
  <2>6. Outcome(r, R)
    BY <2>1, <2>4, <2>5 DEF Outcome, Writing
  <2>7. QED
    BY <2>1, <2>6
<1>4. QED
  BY <1>1, <1>2, <1>3

(* The handler of r ends: refused, by a constraint too, or broken off.     *)
Ends(r) ==
    /\ Finish(r)
    /\ UNCHANGED <<rows, cache, restarts, born, offered, overlapped>>
    /\ behind' = behind \/ (behind' = TRUE)
    /\ pc[r] \in {"reload", "install"} => behind' = TRUE

(* r goes on to write. *)
GoesOn(r) ==
    /\ pc[r] = "idle"
    /\ \E i \in Ids : \E e, step : Proceed(r, i, e, step) /\ Checked(i, e, step)

(* The write of r is committed. *)
Commits(r, R) ==
    /\ Outcome(r, R) /\ Consistent(R)
    /\ rows' = R
    /\ pc' = [pc EXCEPT ![r] = "reload"]
    /\ born' = born \cup Present(R, Ids)
    /\ offered' = [p \in PermIds |-> IF R[p] = NULL THEN offered[p]
                                     ELSE offered[p] \cup R[p].actions]
    /\ Forget(r)
    /\ UNCHANGED <<cache, snapshot, restarts, behind, overlapped>>

(* What any step does. *)
LEMMA StepCases ==
    ASSUME TypeOK, Consistent(rows), RequestsOK, OfferedOK, [Next]_vars
    PROVE  \/ \E r \in Requests :
                \/ Ends(r) \/ GoesOn(r)
                \/ \E R : Commits(r, R)
                \/ Reselect(r) \/ ReadGrants(r) \/ InstallGrants(r)
           \/ Restart
           \/ UNCHANGED vars
<1>1. ASSUME NEW r \in Requests, Ask(r) PROVE Ends(r) \/ GoesOn(r)
  <2>1. Refuse(r) => Ends(r)
    BY DEF Refuse, Arrives, Ends
  <2>2. QED
    BY <1>1, <2>1, AskCases DEF GoesOn
<1>2. ASSUME NEW r \in Requests, Insert(r) \/ Delete(r) \/ Update(r)
      PROVE  Ends(r) \/ \E R : Commits(r, R)
  <2>1. PICK R : Write(r, R) /\ Outcome(r, R)
    BY <1>2, WriteCases
  <2>2. CASE Consistent(R)
    BY <2>1, <2>2 DEF Write, Commits
  <2>3. CASE ~Consistent(R)
    BY <2>1, <2>3 DEF Write, Ends, Outcome
  <2>4. QED
    BY <2>2, <2>3
<1>3. ASSUME NEW r \in Requests, Abort(r) PROVE Ends(r)
  BY <1>3 DEF Abort, Ends, TypeOK
<1>4. ASSUME NEW r \in Requests, Ask(r) \/ Progress(r) \/ Abort(r)
      PROVE  \/ Ends(r) \/ GoesOn(r)
             \/ \E R : Commits(r, R)
             \/ Reselect(r) \/ ReadGrants(r) \/ InstallGrants(r)
  BY <1>1, <1>2, <1>3, <1>4 DEF Progress
<1>5. QED
  BY <1>4, Zenon DEF Next, Finished

-----------------------------------------------------------------------------
(* The types. *)

(* Reading all grants of well-formed tables gives well-formed grants. *)
LEMMA CompileType ==
    ASSUME Tables(rows), Consistent(rows)
    PROVE  Compile(rows) \in SUBSET Grants
<1> SUFFICES ASSUME NEW g \in Present(rows, GrantIds)
             PROVE  [role |-> rows[rows[g].role].name, perm |-> rows[rows[g].perm].name,
                     actions |-> rows[g].actions] \in Grants
  BY DEF Compile
<1>1. rows[g] \in Grant
  BY DEF Present, Tables, RowOf, Ids
<1>2. rows[g].role \in RoleIds /\ rows[rows[g].role] \in Role
  BY <1>1 DEF Present, Consistent, Tables, RowOf, Ids, Grant
<1>3. rows[g].perm \in PermIds /\ rows[rows[g].perm] \in Perm
  BY <1>1 DEF Present, Consistent, Tables, RowOf, Ids, Grant
<1>4. QED
  BY <1>1, <1>2, <1>3 DEF Grant, Role, Perm, Grants

(* A step keeps the types and the constraints of the schema. *)
LEMMA TypeStep ==
    ASSUME TypeOK, Consistent(rows), RequestsOK, OfferedOK, [Next]_vars
    PROVE  TypeOK'
<1>0. Compile(rows) \in SUBSET Grants
  BY CompileType, TypedTables DEF TypeOK
<1> USE DEF TypeOK
<1>1. ASSUME NEW r \in Requests, Ends(r) PROVE TypeOK'
  BY <1>1 DEF Ends, Finish, Forget
<1>2. ASSUME NEW r \in Requests, GoesOn(r) PROVE TypeOK'
  BY <1>2 DEF GoesOn, Checked, Proceed
<1>3. ASSUME NEW r \in Requests, NEW R, Commits(r, R) PROVE TypeOK'
  <2>1. Tables(rows')
    BY <1>3 DEF Commits, Outcome
  <2>2. /\ DOMAIN rows' = Ids
        /\ \A i \in RoleIds : rows'[i] \in Role \cup {NULL}
        /\ \A p \in PermIds : rows'[p] \in Perm \cup {NULL}
        /\ \A g \in GrantIds : rows'[g] \in Grant \cup {NULL}
    BY <2>1, IdsAssumption DEF Tables, RowOf, Ids
  <2>3. QED
    BY <1>3, <2>2 DEF Commits, Forget
<1>4. ASSUME NEW r \in Requests, Reselect(r) PROVE TypeOK'
  BY <1>4 DEF Reselect
<1>5. ASSUME NEW r \in Requests, ReadGrants(r) PROVE TypeOK'
  BY <1>0, <1>5 DEF ReadGrants
<1>6. ASSUME NEW r \in Requests, InstallGrants(r) PROVE TypeOK'
  BY <1>6 DEF InstallGrants, Finish, Forget
<1>7. CASE Restart
  <2>1. restarts' \in 0..MaxRestarts
    BY <1>7, BoundsAssumption DEF Restart
  <2>2. pc' \in [Requests -> {"idle", "insert", "save", "update", "delete",
                             "reload", "install", "done"}]
    BY <1>7 DEF Restart
  <2>3. cache' \in SUBSET Grants
    BY <1>0, <1>7 DEF Restart
  <2>4. QED
    BY <1>7, <2>1, <2>2, <2>3 DEF Restart
<1>8. CASE UNCHANGED vars
  BY <1>8 DEF vars, reqVars
<1>9. QED
  BY <1>1, <1>2, <1>3, <1>4, <1>5, <1>6, <1>7, <1>8, StepCases

(* The database accepts no statement that breaks a constraint. *)
LEMMA ConsistentStep ==
    ASSUME TypeOK, Consistent(rows), RequestsOK, OfferedOK, [Next]_vars
    PROVE  Consistent(rows)'
<1>1. CASE UNCHANGED rows
  BY <1>1 DEF Consistent, Present
<1>2. ASSUME NEW r \in Requests, NEW R, Commits(r, R) PROVE Consistent(rows)'
  BY <1>2 DEF Commits
<1>3. QED
  BY <1>1, <1>2, StepCases DEF Ends, GoesOn, Proceed, Reselect, ReadGrants,
     InstallGrants, Restart, vars

(* Keys stay in the history, and offered actions too. *)
LEMMA HistoryStep ==
    ASSUME TypeOK, Consistent(rows), RequestsOK, BornOK, OfferedOK, [Next]_vars
    PROVE  /\ BornOK' /\ born \subseteq born'
           /\ offered' \in [PermIds -> SUBSET Actions]
           /\ \A p \in PermIds : offered[p] \subseteq offered'[p]
           /\ \A p \in Present(rows', PermIds) : rows'[p].actions \subseteq offered'[p]
<1>1. CASE UNCHANGED <<rows, born, offered>>
  BY <1>1 DEF BornOK, Present, OfferedOK
<1>2. ASSUME NEW r \in Requests, NEW R, Commits(r, R)
      PROVE  /\ BornOK' /\ born \subseteq born'
             /\ offered' \in [PermIds -> SUBSET Actions]
             /\ \A p \in PermIds : offered[p] \subseteq offered'[p]
             /\ \A p \in Present(rows', PermIds) : rows'[p].actions \subseteq offered'[p]
  <2>1. \A p \in PermIds : R[p] # NULL => R[p].actions \in SUBSET Actions
    BY <1>2, IdsAssumption DEF Commits, Outcome, Tables, RowOf, Perm, Ids
  <2>2. QED
    BY <1>2, <2>1 DEF Commits, BornOK, Present, OfferedOK
<1>3. QED
  BY <1>1, <1>2, StepCases DEF Ends, GoesOn, Proceed, Reselect, ReadGrants,
     InstallGrants, Restart, vars

-----------------------------------------------------------------------------
(* Requests and what they are about to write. *)

(* A step keeps what requests have read and are about to write. *)
LEMMA RequestsStep ==
    ASSUME TypeOK, Consistent(rows), RequestsOK, BornOK, OfferedOK, [Next]_vars
    PROVE  RequestsOK'
<1> DEFINE Fits(s) ==
              /\ pc[s] \in Writing => key[s] \in Ids /\ RowOf(key[s], entity[s])
              /\ pc[s] = "delete" => key[s] \in Ids
           New(s) == pc[s] = "insert" =>
              key[s] \notin born /\ \A t \in Requests : key[t] = key[s] => t = s
<1>1. \A s \in Requests : Fits(s) /\ New(s)
  BY DEF RequestsOK
<1>2. SUFFICES \A s \in Requests : Fits(s)' /\ New(s)'
  BY Zenon DEF RequestsOK
<1>3. NULL \notin Ids
  BY IdsAssumption
<1> USE DEF TypeOK, Writing
(* Either the handler of r has nothing to write any more; *)
<1>4. ASSUME NEW r \in Requests, key' = [key EXCEPT ![r] = NULL],
             pc'[r] \in {"done", "reload"}, born' \subseteq born \cup {key[r]},
             \A s \in Requests \ {r} : pc'[s] = pc[s] /\ entity'[s] = entity[s]
      PROVE  \A s \in Requests : Fits(s)' /\ New(s)'
  <2>1. SUFFICES ASSUME NEW s \in Requests PROVE Fits(s)' /\ New(s)'
    OBVIOUS
  <2>2. CASE s = r
    BY <1>4, <2>2
  <2>3. CASE s # r
    <3>1. pc'[s] = pc[s] /\ key'[s] = key[s] /\ entity'[s] = entity[s] /\ key'[r] = NULL
      BY <1>4, <2>3
    <3>2. Fits(s)'
      BY <1>1, <3>1
    <3>3. ASSUME pc[s] = "insert" PROVE key[s] \notin born'
      BY <1>1, <1>4, <2>3, <3>3
    <3>4. ASSUME pc[s] = "insert", NEW t \in Requests, key'[t] = key'[s] PROVE t = s
      <4>1. t # r
        BY <1>1, <1>3, <3>1, <3>4
      <4>2. QED
        BY <1>1, <1>4, <3>1, <3>4, <4>1
    <3>5. QED
      BY <3>1, <3>2, <3>3, <3>4
  <2>4. QED
    BY <2>2, <2>3
(* or it begins one; *)
<1>5. ASSUME NEW r \in Requests, GoesOn(r) PROVE \A s \in Requests : Fits(s)' /\ New(s)'
  <2>1. PICK i, e, step : i \in Ids /\ Proceed(r, i, e, step) /\ Checked(i, e, step)
    BY <1>5 DEF GoesOn
  <2>2. /\ key' = [key EXCEPT ![r] = i] /\ entity' = [entity EXCEPT ![r] = e]
        /\ pc' = [pc EXCEPT ![r] = step] /\ UNCHANGED born
    BY <2>1 DEF Proceed
  <2>3. step \in Writing => RowOf(i, e)
    BY <2>1 DEF Checked
  <2>4. step = "insert" => i \notin born /\ \A s \in Requests : key[s] # i
    BY <2>1 DEF Checked, Fresh
  <2>5. step # "insert" => i \in born
    BY <2>1 DEF Checked, BornOK, Present
  <2> HIDE DEF Writing
  <2>6. Fits(r)' /\ New(r)'
    BY <2>1, <2>2, <2>3, <2>4
  <2>7. ASSUME NEW s \in Requests \ {r} PROVE Fits(s)' /\ New(s)'
    <3>1. pc'[s] = pc[s] /\ key'[s] = key[s] /\ entity'[s] = entity[s]
      BY <2>2
    <3>2. ASSUME pc[s] = "insert" PROVE key[s] # i
      BY <1>1, <2>4, <2>5, <3>2
    <3>3. QED
      BY <1>1, <2>2, <3>1, <3>2
  <2>8. QED
    BY <2>6, <2>7
(* or the request goes on with the same write. *)
<1>6. ASSUME UNCHANGED <<key, entity, born>>,
             \A s \in Requests :
                /\ pc'[s] \in Writing => pc[s] \in Writing
                /\ pc'[s] = "delete" => pc[s] = "delete"
                /\ pc'[s] = "insert" => pc[s] = "insert"
      PROVE  \A s \in Requests : Fits(s)' /\ New(s)'
  BY <1>1, <1>6
<1>7. ASSUME NEW r \in Requests, Ends(r) \/ InstallGrants(r) \/ \E R : Commits(r, R)
      PROVE  \A s \in Requests : Fits(s)' /\ New(s)'
  <2>1. CASE Ends(r) \/ InstallGrants(r)
    BY <1>4, <2>1 DEF Ends, InstallGrants, Finish, Forget
  <2>2. ASSUME NEW R, Commits(r, R) PROVE \A s \in Requests : Fits(s)' /\ New(s)'
    <3>1. \A i \in Ids \ {key[r]} : R[i] # NULL => R[i] = rows[i]
      BY <2>2 DEF Commits, Outcome
    <3>2. Present(R, Ids) \subseteq born \cup {key[r]}
      BY <3>1 DEF Present, BornOK
    <3>3. QED
      BY <1>4, <2>2, <3>2 DEF Commits, Forget
  <2>3. QED
    BY <1>7, <2>1, <2>2
<1>8. ASSUME NEW r \in Requests, Reselect(r) \/ ReadGrants(r)
      PROVE  \A s \in Requests : Fits(s)' /\ New(s)'
  BY <1>6, <1>8 DEF Reselect, ReadGrants
<1>9. CASE Restart
  BY <1>9 DEF Restart, InFlight
<1>10. CASE UNCHANGED vars
  BY <1>6, <1>10 DEF vars, reqVars
<1>11. QED
  BY <1>5, <1>7, <1>8, <1>9, <1>10, StepCases

(* A step gives a grant only actions its permission offered at some time. *)
LEMMA OfferedStep ==
    ASSUME TypeOK, Consistent(rows), RequestsOK, BornOK, OfferedOK, [Next]_vars
    PROVE  OfferedOK'
<1> DEFINE Kept(i, e) ==
              /\ e.actions \subseteq offered[e.perm]
              /\ rows[i] # NULL => rows[i].perm = e.perm
           Fits(s) == pc[s] \in Writing /\ key[s] \in GrantIds =>
              /\ Kept(key[s], entity[s])
              /\ \A t \in Requests : pc[t] \in Writing /\ key[t] = key[s] =>
                    entity[t].perm = entity[s].perm
           InTable == \A g \in Present(rows, GrantIds) :
                        rows[g].actions \subseteq offered[rows[g].perm]
<1>0. /\ offered' \in [PermIds -> SUBSET Actions]
      /\ \A p \in PermIds : offered[p] \subseteq offered'[p]
      /\ \A p \in Present(rows', PermIds) : rows'[p].actions \subseteq offered'[p]
  BY HistoryStep
<1>1. InTable /\ \A s \in Requests : Fits(s)
  BY DEF OfferedOK
<1>2. ASSUME NEW s \in Requests, pc[s] \in Writing, key[s] \in GrantIds
      PROVE  entity[s].perm \in PermIds
  BY <1>2, IdsAssumption DEF RequestsOK, RowOf, Grant, Ids
<1>3. SUFFICES InTable' /\ \A s \in Requests : Fits(s)'
  BY <1>0 DEF OfferedOK
<1> USE DEF TypeOK, Writing
<1>4. ASSUME NEW r \in Requests, GoesOn(r) PROVE InTable' /\ \A s \in Requests : Fits(s)'
  <2>1. PICK i, e, step : i \in Ids /\ Proceed(r, i, e, step) /\ Checked(i, e, step)
    BY <1>4 DEF GoesOn
  <2>2. /\ key' = [key EXCEPT ![r] = i] /\ entity' = [entity EXCEPT ![r] = e]
        /\ pc' = [pc EXCEPT ![r] = step] /\ UNCHANGED <<rows, offered>>
    BY <2>1 DEF Proceed
  <2>3. ASSUME i \in GrantIds, step \in Writing PROVE Kept(i, e)
    <3>1. RowOf(i, e) /\ rows[e.perm] # NULL /\ e.actions \subseteq rows[e.perm].actions
      BY <2>1, <2>3 DEF Checked
    <3>2. e.perm \in PermIds
      BY <2>3, <3>1 DEF RowOf, Grant
    <3>3. e.actions \subseteq offered[e.perm]
      BY <3>1, <3>2 DEF OfferedOK, Present
    <3>4. rows[i] # NULL => rows[i].perm = e.perm
      BY <2>1, <2>3 DEF Checked, Fresh, BornOK, Present
    <3>5. QED
      BY <3>3, <3>4
  <2>4. ASSUME i \in GrantIds, step \in Writing, NEW s \in Requests \ {r},
               pc[s] \in Writing, key[s] = i
        PROVE  entity[s].perm = e.perm
    <3>1. step = "save" /\ rows[i] # NULL /\ e.perm = rows[i].perm
      BY <2>1, <2>4 DEF Checked, Fresh
    <3>2. QED
      BY <1>1, <2>4, <3>1
  <2>5. QED
    BY <1>1, <2>2, <2>3, <2>4
<1>5. ASSUME NEW r \in Requests, NEW R, Commits(r, R)
      PROVE  InTable' /\ \A s \in Requests : Fits(s)'
  <2>1. /\ pc' = [pc EXCEPT ![r] = "reload"] /\ rows' = R
        /\ key' = [key EXCEPT ![r] = NULL] /\ entity' = [entity EXCEPT ![r] = NULL]
    BY <1>5 DEF Commits, Forget
  <2>2. ASSUME NEW g \in GrantIds, R[g] # NULL
        PROVE  /\ R[g].perm \in PermIds
               /\ R[g].actions \subseteq offered'[R[g].perm]
               /\ g # key[r] => R[g] = rows[g]
               /\ g = key[r] => pc[r] \in Writing /\ R[g].perm = entity[r].perm
    <3>1. R[g].perm \in PermIds
      BY <1>5, <2>2 DEF Commits, Consistent, Present
    <3>2. CASE g # key[r]
      <4>1. R[g] = rows[g]
        BY <1>5, <2>2, <3>2 DEF Commits, Outcome, Ids
      <4>2. R[g].actions \subseteq offered[R[g].perm]
        BY <1>1, <2>2, <4>1 DEF Present
      <4>3. QED
        BY <1>0, <3>1, <3>2, <4>1, <4>2
    <3>3. CASE g = key[r]
      <4>1. /\ pc[r] \in Writing /\ R[g].perm = entity[r].perm
            /\ \/ R[g].actions = entity[r].actions
               \/ rows[g] # NULL /\ R[g].actions = rows[g].actions
        BY <1>5, <2>2, <3>3 DEF Commits, Outcome
      <4>2. Kept(g, entity[r])
        BY <1>1, <3>3, <4>1
      <4>3. rows[g] # NULL => rows[g].actions \subseteq offered[rows[g].perm]
        BY <1>1 DEF Present
      <4>4. R[g].actions \subseteq offered[R[g].perm]
        BY <4>1, <4>2, <4>3
      <4>5. QED
        BY <1>0, <3>1, <3>3, <4>1, <4>4
    <3>4. QED
      BY <3>2, <3>3
  <2>3. InTable'
    BY <2>1, <2>2 DEF Present
  <2>4. ASSUME NEW s \in Requests, pc'[s] \in Writing, key'[s] \in GrantIds
        PROVE  s # r /\ pc[s] = pc'[s] /\ key[s] = key'[s] /\ entity[s] = entity'[s]
    BY <2>1, <2>4
  <2>5. ASSUME NEW s \in Requests, pc'[s] \in Writing, key'[s] \in GrantIds
        PROVE  Kept(key[s], entity[s])'
    <3>1. entity'[s].actions \subseteq offered'[entity'[s].perm]
      BY <1>0, <1>1, <1>2, <2>4, <2>5
    <3>2. ASSUME R[key[s]] # NULL PROVE R[key[s]].perm = entity[s].perm
      BY <1>1, <2>2, <2>4, <2>5, <3>2
    <3>3. QED
      BY <2>1, <2>4, <2>5, <3>1, <3>2
  <2>6. QED
    BY <1>1, <2>3, <2>4, <2>5
<1>6. CASE /\ UNCHANGED <<rows, offered>>
           /\ \A s \in Requests : pc'[s] \in Writing =>
                 pc[s] \in Writing /\ key'[s] = key[s] /\ entity'[s] = entity[s]
  BY <1>1, <1>6 DEF Present
<1>7. ASSUME NEW r \in Requests, Ends(r) \/ Reselect(r) \/ ReadGrants(r) \/ InstallGrants(r)
      PROVE  InTable' /\ \A s \in Requests : Fits(s)'
  BY <1>6, <1>7 DEF Ends, Finish, Forget, Reselect, ReadGrants, InstallGrants
<1>8. CASE Restart
  BY <1>6, <1>8 DEF Restart, InFlight
<1>9. CASE UNCHANGED vars
  BY <1>6, <1>9 DEF vars, reqVars
<1>10. QED
  BY <1>4, <1>5, <1>7, <1>8, <1>9, StepCases

-----------------------------------------------------------------------------
(* Until two changes overlap. *)

(* That two changes have overlapped is not forgotten. *)
LEMMA OverlapStays ==
    ASSUME TypeOK, Consistent(rows), RequestsOK, OfferedOK, [Next]_vars, ~overlapped'
    PROVE  ~overlapped
BY StepCases DEF TypeOK, Ends, GoesOn, Proceed, Commits, Reselect, ReadGrants,
   InstallGrants, Restart, vars

(* Memory is behind only where a reload is due; the one change under way   *)
(* finds what it has read.                                                 *)
LEMMA AloneStep ==
    ASSUME TypeOK, Consistent(rows), RequestsOK, BornOK, OfferedOK, AloneOK, [Next]_vars
    PROVE  AloneOK'
<1> DEFINE Busy(s) == pc[s] \notin {"idle", "done"}
           One == \A s, t \in Requests : Busy(s) /\ Busy(t) => s = t
           Still(s) ==
              /\ pc[s] \in {"save", "update", "delete"} => rows[key[s]] # NULL
              /\ pc[s] = "update" => reloaded[s] # NULL
              /\ pc[s] = "delete" /\ key[s] \in RoleIds \cup PermIds =>
                    Dependents(rows, key[s]) = {}
              /\ pc[s] = "install" => snapshot[s] = Compile(rows)
           InStep == ~behind /\ (\A s \in Requests : pc[s] \notin {"reload", "install"}) =>
                        cache = Compile(rows)
<1>1. AloneOK <=> (~overlapped => One /\ (\A s \in Requests : Still(s)) /\ InStep)
  BY DEF AloneOK, InFlight
<1>2. AloneOK' <=> (~overlapped' => One' /\ (\A s \in Requests : Still(s)') /\ InStep')
  BY DEF AloneOK, InFlight
<1>3. ASSUME ~overlapped' PROVE ~overlapped
  BY <1>3, OverlapStays
<1>4. SUFFICES ASSUME ~overlapped, ~overlapped', One, \A s \in Requests : Still(s), InStep
               PROVE  One' /\ (\A s \in Requests : Still(s)') /\ InStep'
  BY <1>1, <1>2, <1>3
<1> USE DEF TypeOK
<1>5. ASSUME NEW r \in Requests, Ends(r)
      PROVE  One' /\ (\A s \in Requests : Still(s)') /\ InStep'
  <2>1. /\ UNCHANGED <<rows, cache>>
        /\ pc' = [pc EXCEPT ![r] = "done"] /\ key' = [key EXCEPT ![r] = NULL]
        /\ snapshot' = [snapshot EXCEPT ![r] = {}]
        /\ reloaded' = [reloaded EXCEPT ![r] = NULL]
    BY <1>5 DEF Ends, Finish, Forget
  <2>2. ~behind' => ~behind /\ pc[r] \notin {"reload", "install"}
    BY <1>5 DEF Ends
  <2>3. One' /\ InStep'
    BY <1>4, <2>1, <2>2
  <2>4. ASSUME NEW s \in Requests PROVE Still(s)'
    BY <1>4, <2>1
  <2>5. QED
    BY <2>3, <2>4
<1>6. ASSUME NEW r \in Requests, GoesOn(r)
      PROVE  One' /\ (\A s \in Requests : Still(s)') /\ InStep'
  <2>1. PICK i, e, step : i \in Ids /\ Proceed(r, i, e, step) /\ Checked(i, e, step)
    BY <1>6 DEF GoesOn
  <2>2. /\ UNCHANGED <<rows, cache, reloaded, snapshot, behind>>
        /\ pc' = [pc EXCEPT ![r] = step] /\ key' = [key EXCEPT ![r] = i]
        /\ \A s \in Requests : ~Busy(s)
    BY <1>4, <2>1 DEF Proceed, InFlight
  <2>3. /\ step \in {"insert", "save", "delete"}
        /\ step \in {"save", "delete"} => rows[i] # NULL
        /\ step = "delete" /\ i \in RoleIds \cup PermIds => Dependents(rows, i) = {}
    BY <2>1 DEF Checked
  <2>4. One' /\ InStep'
    BY <1>4, <2>2, <2>3
  <2>5. ASSUME NEW s \in Requests PROVE Still(s)'
    BY <2>2, <2>3
  <2>6. QED
    BY <2>4, <2>5
<1>7. ASSUME NEW r \in Requests, NEW R, Commits(r, R)
      PROVE  One' /\ (\A s \in Requests : Still(s)') /\ InStep'
  <2>1. pc' = [pc EXCEPT ![r] = "reload"] /\ Busy(r)
    BY <1>7 DEF Commits, Outcome
  <2>2. QED
    BY <1>4, <2>1
<1>8. ASSUME NEW r \in Requests, Reselect(r)
      PROVE  One' /\ (\A s \in Requests : Still(s)') /\ InStep'
  <2>1. /\ UNCHANGED <<rows, cache, key, snapshot, behind>>
        /\ pc[r] = "save" /\ pc' = [pc EXCEPT ![r] = "update"]
        /\ reloaded' = [reloaded EXCEPT ![r] = rows[key[r]]]
    BY <1>8 DEF Reselect
  <2>2. One' /\ InStep'
    BY <1>4, <2>1
  <2>3. ASSUME NEW s \in Requests PROVE Still(s)'
    BY <1>4, <2>1
  <2>4. QED
    BY <2>2, <2>3
<1>9. ASSUME NEW r \in Requests, ReadGrants(r)
      PROVE  One' /\ (\A s \in Requests : Still(s)') /\ InStep'
  <2>1. /\ UNCHANGED <<rows, cache, key, reloaded, behind>>
        /\ pc[r] = "reload" /\ pc' = [pc EXCEPT ![r] = "install"]
        /\ snapshot' = [snapshot EXCEPT ![r] = Compile(rows)]
    BY <1>9 DEF ReadGrants
  <2>2. One' /\ InStep'
    BY <1>4, <2>1
  <2>3. ASSUME NEW s \in Requests PROVE Still(s)'
    BY <1>4, <2>1
  <2>4. QED
    BY <2>2, <2>3
<1>10. ASSUME NEW r \in Requests, InstallGrants(r)
       PROVE  One' /\ (\A s \in Requests : Still(s)') /\ InStep'
  <2>1. /\ UNCHANGED rows /\ cache' = snapshot[r]
        /\ pc[r] = "install" /\ pc' = [pc EXCEPT ![r] = "done"]
    BY <1>10 DEF InstallGrants, Finish
  <2>2. One' /\ InStep'
    BY <1>4, <2>1
  <2>3. ASSUME NEW s \in Requests PROVE Still(s)'
    BY <1>4, <2>1
  <2>4. QED
    BY <2>2, <2>3
<1>11. CASE Restart
  <2>1. cache' = Compile(rows)' /\ \A s \in Requests : ~Busy(s)'
    BY <1>11 DEF Restart, InFlight, Compile, Present
  <2>2. QED
    BY <2>1
<1>12. CASE UNCHANGED vars
  <2>1. UNCHANGED <<rows, cache, pc, key, reloaded, snapshot, behind>>
    BY <1>12 DEF vars, reqVars
  <2>2. One' /\ InStep'
    BY <1>4, <2>1
  <2>3. ASSUME NEW s \in Requests PROVE Still(s)'
    BY <1>4, <2>1
  <2>4. QED
    BY <2>2, <2>3
<1>13. QED
  BY <1>5, <1>6, <1>7, <1>8, <1>9, <1>10, <1>11, <1>12, StepCases

-----------------------------------------------------------------------------
(* The invariant. *)

(* The tables as the migrations leave them. *)
LEMMA SeededTables ==
    ASSUME NEW i \in RoleIds, NEW h \in RoleIds, NEW p \in PermIds, NEW g \in GrantIds,
           NEW n \in Names, NEW o \in Names, NEW m \in Names, NEW A \in SUBSET Actions,
           i # h, n # o
    PROVE  /\ Tables(Seeded(i, h, p, g, n, o, m, A))
           /\ Consistent(Seeded(i, h, p, g, n, o, m, A))
<1> DEFINE R == Seeded(i, h, p, g, n, o, m, A)
<1>1. DOMAIN R = Ids
  BY DEF Seeded
<1>2. /\ [name |-> n] \in Role /\ [name |-> o] \in Role
      /\ [name |-> m, actions |-> A] \in Perm
      /\ [role |-> i, perm |-> p, actions |-> {}] \in Grant
  BY DEF Role, Perm, Grant
<1>3. \A j \in Ids \ {i, h, p, g} : R[j] = NULL
  BY DEF Seeded
<1>4. /\ R[i] = [name |-> n] /\ R[h] = [name |-> o]
      /\ R[p] = [name |-> m, actions |-> A]
      /\ R[g] = [role |-> i, perm |-> p, actions |-> {}]
  BY IdsAssumption DEF Seeded, Ids
<1> HIDE DEF R
<1>5. Tables(R)
  BY <1>1, <1>2, <1>3, <1>4, IdsAssumption DEF Tables, RowOf, Ids
<1>6. /\ Present(R, RoleIds) = {i, h} /\ Present(R, PermIds) = {p}
      /\ Present(R, GrantIds) = {g}
  BY <1>2, <1>3, <1>4, IdsAssumption, RowsAssumption DEF Present, Ids
<1>7. Consistent(R)
  BY <1>4, <1>6 DEF Consistent
<1>8. QED
  BY <1>5, <1>7 DEF R

(* It holds when the application starts. *)
LEMMA RbacInvariantInit == Init => RbacIInv
<1> SUFFICES ASSUME Init PROVE RbacIInv
  OBVIOUS
<1>1. Tables(rows) /\ Consistent(rows)
  BY SeededTables DEF Init
<1>2. cache \in SUBSET Grants
  BY <1>1, CompileType DEF Init
<1>3. TypeOK
  <2>1. /\ DOMAIN rows = Ids
        /\ \A i \in RoleIds : rows[i] \in Role \cup {NULL}
        /\ \A p \in PermIds : rows[p] \in Perm \cup {NULL}
        /\ \A g \in GrantIds : rows[g] \in Grant \cup {NULL}
    BY <1>1, TypedTables DEF Tables
  <2>2. /\ pc = [r \in Requests |-> "idle"] /\ key = [r \in Requests |-> NULL]
        /\ entity = [r \in Requests |-> NULL] /\ reloaded = [r \in Requests |-> NULL]
        /\ snapshot = [r \in Requests |-> {}] /\ restarts = 0
        /\ behind = FALSE /\ overlapped = FALSE
    BY DEF Init
  <2>3. restarts \in 0..MaxRestarts
    BY <2>2, BoundsAssumption
  <2>4. QED
    BY <1>2, <2>1, <2>2, <2>3 DEF TypeOK
<1>4. \A p \in Present(rows, PermIds) : offered[p] = rows[p].actions /\ rows[p] \in Perm
  BY <1>3 DEF Init, TypeOK, Present
<1>5. OfferedOK
  <2>1. \A g \in Present(rows, GrantIds) : rows[g].actions = {}
    BY IdsAssumption DEF Init, Seeded, Present, Ids
  <2>2. offered \in [PermIds -> SUBSET Actions]
    BY <1>4 DEF Init, Present, Perm
  <2>3. QED
    BY <1>4, <2>1, <2>2 DEF OfferedOK, Init, Writing
<1>6. RequestsOK /\ BornOK /\ AloneOK
  BY DEF Init, RequestsOK, BornOK, AloneOK, InFlight, Writing
<1>7. QED
  BY <1>1, <1>3, <1>5, <1>6 DEF RbacIInv

(* Every step keeps it. *)
LEMMA RbacInvariantStep == RbacIInv /\ [Next]_vars => RbacIInv'
BY TypeStep, ConsistentStep, RequestsStep, HistoryStep, OfferedStep, AloneStep DEF RbacIInv

(* Whatever overlaps, fails or restarts: the tables keep the constraints   *)
(* of the schema, no handler writes a row that does not fit its table, and *)
(* until two changes overlap what a handler has read is still so.          *)
THEOREM RbacInvariance == Spec => []RbacIInv
BY RbacInvariantInit, RbacInvariantStep, PTL DEF Spec

(* Every variable keeps its type. *)
THEOREM RbacTypes == Spec => []TypeOK
<1>1. RbacIInv => TypeOK
  BY DEF RbacIInv
<1>2. QED
  BY <1>1, RbacInvariance, PTL

(* However requests overlap, a grant names only actions its permission has *)
(* offered, and its role and permission exist.                             *)
LEMMA OfferedInState == RbacIInv => OnlyOfferedActions
BY DEF RbacIInv, OfferedOK, OnlyOfferedActions, Consistent

(* However changes overlap, a grant never names an action that its        *)
(* permission did not offer at some time.                                  *)
THEOREM GrantsOfferOnlyThat == Spec => []OnlyOfferedActions
BY RbacInvariance, OfferedInState, PTL

-----------------------------------------------------------------------------
(* What memory answers. *)

(* hasPermission() on the compiled tables is the question put to the       *)
(* tables: which role and which permission a name stands for is beyond     *)
(* doubt.                                                                  *)
LEMMA CompiledDecision ==
    ASSUME Tables(rows), Consistent(rows),
           NEW i \in Present(rows, RoleIds), NEW p \in Present(rows, PermIds), NEW a
    PROVE  HasPermission(Compile(rows), {rows[i].name}, rows[p].name, a)
              <=> \E g \in Dependents(rows, i) \cap Dependents(rows, p) :
                     rows[g].actions = {} \/ a \in rows[g].actions
<1> DEFINE Entry(g) == [role |-> rows[rows[g].role].name, perm |-> rows[rows[g].perm].name,
                        actions |-> rows[g].actions]
<1>1. ASSUME NEW g \in Present(rows, GrantIds)
      PROVE  /\ Entry(g).role = rows[i].name <=> rows[g].role = i
             /\ Entry(g).perm = rows[p].name <=> rows[g].perm = p
             /\ g \in Dependents(rows, i) <=> rows[g].role = i
             /\ g \in Dependents(rows, p) <=> rows[g].perm = p
  <2>1. rows[g].role \in Present(rows, RoleIds) /\ rows[g].perm \in Present(rows, PermIds)
    BY DEF Consistent
  <2>2. rows[g].role # p /\ rows[g].perm # i
    BY <2>1, IdsAssumption DEF Present
  <2>3. QED
    BY <2>1, <2>2 DEF Consistent, Dependents
<1>2. HasPermission(Compile(rows), {rows[i].name}, rows[p].name, a)
        <=> \E g \in Present(rows, GrantIds) :
              /\ Entry(g).role = rows[i].name /\ Entry(g).perm = rows[p].name
              /\ Entry(g).actions = {} \/ a \in Entry(g).actions
  BY DEF HasPermission, Compile
<1>3. Dependents(rows, i) \subseteq Present(rows, GrantIds)
  BY DEF Dependents
<1>4. QED
  BY <1>1, <1>2, <1>3

(* Until two changes overlap, what renames, narrowed actions, failures and *)
(* a restart leave in memory gives the decisions of the tables.            *)
LEMMA DecisionsInState == RbacIInv => DecisionsFollowTablesAlone
<1> SUFFICES ASSUME RbacIInv, ~overlapped, InFlight = {}, ~behind PROVE DecisionsFollowTables
  BY DEF DecisionsFollowTablesAlone, DecisionsFollowTables
<1>1. Tables(rows) /\ Consistent(rows)
  BY TypedTables DEF RbacIInv, TypeOK
<1>2. cache = Compile(rows)
  BY DEF RbacIInv, AloneOK, InFlight
<1>3. QED
  BY <1>1, <1>2, CompiledDecision DEF DecisionsFollowTables

(* As long as changes do not overlap, and no reload has failed since, what *)
(* the compiled copy decides is what the tables say.                       *)
THEOREM MemoryDecidesByTablesAlone == Spec => []DecisionsFollowTablesAlone
BY RbacInvariance, DecisionsInState, PTL

-----------------------------------------------------------------------------
(* What no single step does. *)

(* Until two changes overlap, no save() inserts a removed row again, and   *)
(* what a removal takes away is no grant.                                  *)
LEMMA AloneWrite ==
    ASSUME RbacIInv, [Next]_vars, ~overlapped
    PROVE  /\ \A i \in Ids : Removed(i) => rows'[i] = NULL
           /\ \A i \in RoleIds \cup PermIds :
                 rows[i] # NULL /\ rows'[i] = NULL => Dependents(rows, i) = {}
<1>1. CASE UNCHANGED rows
  BY <1>1 DEF Removed
<1>2. ASSUME NEW r \in Requests, NEW R, Commits(r, R)
      PROVE  /\ \A i \in Ids : Removed(i) => rows'[i] = NULL
             /\ \A i \in RoleIds \cup PermIds :
                   rows[i] # NULL /\ rows'[i] = NULL => Dependents(rows, i) = {}
  <2>1. rows' = R /\ Outcome(r, R)
    BY <1>2 DEF Commits
  <2>2. ASSUME NEW i \in Ids, Removed(i) PROVE R[i] = NULL
    <3>1. CASE i = key[r]
      <4>1. pc[r] # "insert"
        BY <2>2, <3>1 DEF Removed, RbacIInv, RequestsOK
      <4>2. pc[r] = "delete"
        BY <2>1, <2>2, <3>1, <4>1 DEF Outcome, Removed, RbacIInv, AloneOK
      <4>3. QED
        BY <2>1, <3>1, <4>2 DEF Outcome, Writing
    <3>2. CASE i # key[r]
      BY <2>1, <2>2, <3>2 DEF Outcome, Removed
    <3>3. QED
      BY <3>1, <3>2
  <2>3. ASSUME NEW i \in RoleIds \cup PermIds, rows[i] # NULL, R[i] = NULL
        PROVE  Dependents(rows, i) = {}
    <3>1. i = key[r]
      BY <2>1, <2>3, IdsAssumption DEF Outcome, Dependents, Present, Ids
    <3>2. pc[r] = "delete"
      BY <2>1, <2>3, <3>1 DEF Outcome
    <3>3. QED
      BY <3>1, <3>2 DEF RbacIInv, AloneOK
  <2>4. QED
    BY <2>1, <2>2, <2>3
<1>3. QED
  BY <1>1, <1>2, StepCases DEF RbacIInv, Ends, GoesOn, Proceed, Reselect, ReadGrants,
     InstallGrants, Restart, vars

(* Until two changes overlap, a row that was removed does not come back.   *)
THEOREM RemovedStaysRemoved == Spec => RemovedStaysRemovedAlone
<1>1. RbacIInv /\ [Next]_vars =>
         [~overlapped => \A i \in Ids : Removed(i) => rows'[i] = NULL]_vars
  BY AloneWrite
<1>2. QED
  BY <1>1, RbacInvariance, PTL DEF Spec, RemovedStaysRemovedAlone

(* Until two changes overlap, a role or permission that is removed has no  *)
(* grant.                                                                  *)
THEOREM RemovalDeletesNoGrant == Spec => RemovalDeletesNoGrantAlone
<1>1. RbacIInv /\ [Next]_vars =>
         [~overlapped => \A i \in RoleIds \cup PermIds :
            rows[i] # NULL /\ rows'[i] = NULL => Dependents(rows, i) = {}]_vars
  BY AloneWrite
<1>2. QED
  BY <1>1, RbacInvariance, PTL DEF Spec, RemovalDeletesNoGrantAlone
=============================================================================
