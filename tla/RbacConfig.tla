----------------------------- MODULE RbacConfig -----------------------------
(***************************************************************************)
(* Roles, permissions and grants: RolesService, PermissionsService and     *)
(* GrantsService change the tables, RbacConfigService keeps them compiled  *)
(* in the memory of the process, and every access decision is taken from   *)
(* that copy.                                                              *)
(*                                                                         *)
(* An administrator's request checks, writes, reads all grants again and   *)
(* installs what it read; it may be overtaken by another at every await.   *)
(* None of these services opens a transaction: each write is one           *)
(* statement, refused by the database if it breaks a constraint.           *)
(***************************************************************************)
EXTENDS Integers, FiniteSets, TypeOrm

CONSTANTS
    Requests,                   \* administrators' calls, each made once
    RoleIds, PermIds, GrantIds, \* primary keys
    Names,                      \* names of roles and of permissions
    Actions,                    \* actions a permission may offer
    MaxInFlight,                \* bound on overlapping requests
    MaxRestarts,                \* bound on restarts of the process
    MayFail,                    \* whether the database can fail
    NULL

Ids == RoleIds \cup PermIds \cup GrantIds

ASSUME IdsAssumption ==
    /\ RoleIds \cap PermIds = {} /\ RoleIds \cap GrantIds = {} /\ PermIds \cap GrantIds = {}
    /\ NULL \notin Ids \cup Names
ASSUME BoundsAssumption == MaxInFlight \in Nat /\ MaxRestarts \in Nat /\ MayFail \in BOOLEAN

VARIABLES
    rows,       \* committed rows by primary key, NULL where there is none
    cache,      \* grantsByRoleName
    pc,         \* where the request is suspended
    key,        \* primary key its write is about
    entity,     \* the entity it saves
    reloaded,   \* the row as save() selected it again, NULL if it was gone
    snapshot,   \* what its reload() has read
    restarts,
    born,       \* history: primary keys that were ever stored
    behind,     \* history: a write was committed whose reload() never came
    offered,    \* history: actions a permission has ever had
    overlapped  \* history: two requests were under way at the same time

reqVars == <<pc, key, entity, reloaded, snapshot>>
vars    == <<rows, cache, reqVars, restarts, born, behind, offered, overlapped>>

Role  == [name : Names]
Perm  == [name : Names, actions : SUBSET Actions]
(* actions = {} stands for null and for the empty array: every action. *)
Grant == [role : RoleIds, perm : PermIds, actions : SUBSET Actions]

ASSUME RowsAssumption == NULL \notin Role \cup Perm \cup Grant

Present(R, I) == {i \in I : R[i] # NULL}

(* What the schema enforces: unique names, one grant per role and          *)
(* permission, and no grant without both.                                  *)
Consistent(R) ==
    /\ \A i, j \in Present(R, RoleIds) : R[i].name = R[j].name => i = j
    /\ \A i, j \in Present(R, PermIds) : R[i].name = R[j].name => i = j
    /\ \A g \in Present(R, GrantIds) :
          /\ R[g].role \in Present(R, RoleIds) /\ R[g].perm \in Present(R, PermIds)
          /\ \A h \in Present(R, GrantIds) :
                R[g].role = R[h].role /\ R[g].perm = R[h].perm => g = h

(* The grants of a role or permission go with it (ON DELETE CASCADE). *)
Dependents(R, i) == {g \in Present(R, GrantIds) : R[g].role = i \/ R[g].perm = i}

Without(R, i) == [j \in Ids |-> IF j = i \/ j \in Dependents(R, i) THEN NULL ELSE R[j]]

(* What reload() builds: by role name, the permission names and actions. *)
Compile(R) ==
    {[role |-> R[R[g].role].name, perm |-> R[R[g].perm].name, actions |-> R[g].actions] :
        g \in Present(R, GrantIds)}

(* Mutant: a grant without actions gives none. *)
HasPermissionListed(c, roleNames, resource, action) ==
    \E g \in c : g.role \in roleNames /\ g.perm = resource /\ action \in g.actions

(* hasPermission(): any role of the user, any of its grants. *)
HasPermission(c, roleNames, resource, action) ==
    \E g \in c : /\ g.role \in roleNames
                 /\ g.perm = resource
                 /\ g.actions = {} \/ action \in g.actions

(* The migrations seed two roles and grant permissions, each with its own  *)
(* actions (settings: two of the four), to the first role (null actions:   *)
(* every action).                                                          *)
Seeded(i, h, p, g, n, o, m, A) ==
    [k \in Ids |-> CASE k = i -> [name |-> n]
                     [] k = h -> [name |-> o]
                     [] k = p -> [name |-> m, actions |-> A]
                     [] k = g -> [role |-> i, perm |-> p, actions |-> {}]
                     [] OTHER -> NULL]

Init ==
    /\ \E i, h \in RoleIds, p \in PermIds, g \in GrantIds, n, o, m \in Names,
          A \in (SUBSET Actions) \ {{}, Actions} :
          i # h /\ n # o /\ rows = Seeded(i, h, p, g, n, o, m, A)
    /\ cache = Compile(rows)
    /\ pc = [r \in Requests |-> "idle"]
    /\ key = [r \in Requests |-> NULL]
    /\ entity = [r \in Requests |-> NULL]
    /\ reloaded = [r \in Requests |-> NULL]
    /\ snapshot = [r \in Requests |-> {}]
    /\ restarts = 0
    /\ born = Present(rows, Ids)
    /\ behind = FALSE
    /\ offered = [p \in PermIds |-> IF rows[p] = NULL THEN {} ELSE rows[p].actions]
    /\ overlapped = FALSE

-----------------------------------------------------------------------------
InFlight == {r \in Requests : pc[r] \notin {"idle", "done"}}

Arrives(r) == pc[r] = "idle" /\ Cardinality(InFlight) < MaxInFlight

(* Once the row is written, reload() needs none of these. *)
Forget(r) == /\ key' = [key EXCEPT ![r] = NULL]
             /\ entity' = [entity EXCEPT ![r] = NULL]
             /\ reloaded' = [reloaded EXCEPT ![r] = NULL]

(* The handler returns, and its variables are gone.  No property is about  *)
(* what the administrator was told.                                        *)
Finish(r) == /\ pc' = [pc EXCEPT ![r] = "done"]
             /\ snapshot' = [snapshot EXCEPT ![r] = {}]
             /\ Forget(r)

(* The checks of the request pass: it goes on to write row i. *)
Proceed(r, i, e, step) ==
    /\ key' = [key EXCEPT ![r] = i]
    /\ entity' = [entity EXCEPT ![r] = e]
    /\ pc' = [pc EXCEPT ![r] = step]
    /\ overlapped' = (overlapped \/ InFlight # {})
    /\ UNCHANGED <<rows, cache, reloaded, snapshot, restarts, born, behind, offered>>

(* 404, 409 or 400: a row is missing, a name or pair is taken, grants are  *)
(* active, or the actions are not the permission's.                        *)
Refuse(r) ==
    /\ Arrives(r)
    /\ Finish(r)
    /\ UNCHANGED <<rows, cache, restarts, born, behind, offered, overlapped>>

(* uuid_generate_v4() does not repeat. *)
Fresh(i) == i \notin born /\ \A s \in Requests : key[s] # i

NameTaken(I, n) == \E i \in Present(rows, I) : rows[i].name = n

(* Mutant: the primary key of a removed role is given out again. *)
CreateRoleSameKey(r, i, n) ==
    /\ Arrives(r)
    /\ rows[i] = NULL
    /\ ~NameTaken(RoleIds, n)
    /\ Proceed(r, i, [name |-> n], "insert")

(* create() of a role or a permission: the name is free when it looks. *)
CreateRole(r, i, n) ==
    /\ Arrives(r)
    /\ Fresh(i)
    /\ ~NameTaken(RoleIds, n)
    /\ Proceed(r, i, [name |-> n], "insert")

CreatePermission(r, p, n, A) ==
    /\ Arrives(r)
    /\ Fresh(p)
    /\ ~NameTaken(PermIds, n)
    /\ Proceed(r, p, [name |-> n, actions |-> A], "insert")

(* update(): the entity is what was read, with the new name or actions. *)
UpdateRole(r, i, n) ==
    /\ Arrives(r)
    /\ i \in Present(rows, RoleIds)
    /\ n # rows[i].name => ~NameTaken(RoleIds, n)
    /\ Proceed(r, i, [rows[i] EXCEPT !.name = n], "save")

UpdatePermission(r, p, n, A) ==
    /\ Arrives(r)
    /\ p \in Present(rows, PermIds)
    /\ n # rows[p].name => ~NameTaken(PermIds, n)
    /\ Proceed(r, p, [rows[p] EXCEPT !.name = n, !.actions = A], "save")

(* Mutant: the grants are not counted. *)
RemoveNamedUncounted(r, i) ==
    /\ Arrives(r)
    /\ i \in Present(rows, RoleIds \cup PermIds)
    /\ Proceed(r, i, NULL, "delete")

(* remove() of a role or a permission: no grants when it counts them. *)
RemoveNamed(r, i) ==
    /\ Arrives(r)
    /\ i \in Present(rows, RoleIds \cup PermIds)
    /\ Dependents(rows, i) = {}
    /\ Proceed(r, i, NULL, "delete")

(* Mutant: the actions of a grant are not compared with the permission's. *)
ActionsUnchecked(A, p) == TRUE

(* assertActionsSubset() *)
ActionsAllowed(A, p) == A \subseteq rows[p].actions

CreateGrant(r, g, i, p, A) ==
    /\ Arrives(r)
    /\ Fresh(g)
    /\ i \in Present(rows, RoleIds) /\ p \in Present(rows, PermIds)
    /\ ActionsAllowed(A, p)
    /\ Dependents(rows, i) \cap Dependents(rows, p) = {}
    /\ Proceed(r, g, [role |-> i, perm |-> p, actions |-> A], "insert")

UpdateGrant(r, g, A) ==
    /\ Arrives(r)
    /\ g \in Present(rows, GrantIds)
    /\ ActionsAllowed(A, rows[g].perm)
    /\ Proceed(r, g, [rows[g] EXCEPT !.actions = A], "save")

RemoveGrant(r, g) ==
    /\ Arrives(r)
    /\ g \in Present(rows, GrantIds)
    /\ Proceed(r, g, NULL, "delete")

-----------------------------------------------------------------------------
(* One statement, committed at once, unless a constraint refuses it. *)
Write(r, R) ==
    /\ IF Consistent(R)
         THEN /\ rows' = R
              /\ pc' = [pc EXCEPT ![r] = "reload"]
              /\ born' = born \cup Present(R, Ids)
              /\ offered' = [p \in PermIds |-> IF R[p] = NULL THEN offered[p]
                                               ELSE offered[p] \cup R[p].actions]
              /\ Forget(r)
              /\ UNCHANGED snapshot
         ELSE Finish(r) /\ UNCHANGED <<rows, born, offered>>
    /\ UNCHANGED <<cache, restarts, behind, overlapped>>

Insert(r) == pc[r] = "insert" /\ Write(r, [rows EXCEPT ![key[r]] = entity[r]])

Delete(r) == pc[r] = "delete" /\ Write(r, Without(rows, key[r]))

(* save() selects the row again; a row that is gone is inserted anew, and  *)
(* an UPDATE that finds no row does nothing.                               *)
Reselect(r) ==
    /\ pc[r] = "save"
    /\ reloaded' = [reloaded EXCEPT ![r] = rows[key[r]]]
    /\ pc' = [pc EXCEPT ![r] = "update"]
    /\ UNCHANGED <<rows, cache, key, entity, snapshot, restarts, born, behind, offered, overlapped>>

Update(r) ==
    /\ pc[r] = "update"
    /\ LET old == rows[key[r]]
           new == IF reloaded[r] = NULL THEN entity[r]
                  ELSE IF old = NULL THEN NULL
                  ELSE Saved(old, reloaded[r], entity[r])
       IN  Write(r, [rows EXCEPT ![key[r]] = new])

(* Mutant: reload() empties the map before it queries. *)
ReadGrantsEmptying(r) ==
    /\ pc[r] = "reload"
    /\ snapshot' = [snapshot EXCEPT ![r] = Compile(rows)]
    /\ cache' = {}
    /\ pc' = [pc EXCEPT ![r] = "install"]
    /\ UNCHANGED <<rows, key, entity, reloaded, restarts, born, behind, offered, overlapped>>

(* reload(): one query over all grants, then one assignment. *)
ReadGrants(r) ==
    /\ pc[r] = "reload"
    /\ snapshot' = [snapshot EXCEPT ![r] = Compile(rows)]
    /\ pc' = [pc EXCEPT ![r] = "install"]
    /\ UNCHANGED <<rows, cache, key, entity, reloaded, restarts, born, behind, offered, overlapped>>

InstallGrants(r) ==
    /\ pc[r] = "install"
    /\ cache' = snapshot[r]
    /\ behind' = FALSE
    /\ Finish(r)
    /\ UNCHANGED <<rows, restarts, born, offered, overlapped>>

(* A database error at any of these steps answers 500; a write that was    *)
(* committed stays.                                                        *)
Abort(r) ==
    /\ MayFail
    /\ r \in InFlight
    /\ behind' = (behind \/ pc[r] \in {"reload", "install"})
    /\ Finish(r)
    /\ UNCHANGED <<rows, cache, restarts, born, offered, overlapped>>

(* The process is restarted: onModuleInit() reads the grants. *)
Restart ==
    /\ restarts < MaxRestarts
    /\ restarts' = restarts + 1
    /\ pc' = [r \in Requests |-> IF r \in InFlight THEN "done" ELSE pc[r]]
    /\ key' = [r \in Requests |-> NULL]
    /\ entity' = [r \in Requests |-> NULL]
    /\ reloaded' = [r \in Requests |-> NULL]
    /\ snapshot' = [r \in Requests |-> {}]
    /\ cache' = Compile(rows)
    /\ behind' = FALSE
    /\ UNCHANGED <<rows, born, offered, overlapped>>

Finished == (\A r \in Requests : pc[r] = "done") /\ UNCHANGED vars

Ask(r) ==
    \/ Refuse(r)
    \/ \E n \in Names :
          \/ \E i \in RoleIds : CreateRole(r, i, n) \/ UpdateRole(r, i, n)
          \/ \E p \in PermIds, A \in (SUBSET Actions) \ {{}, Actions} :
                CreatePermission(r, p, n, A) \/ UpdatePermission(r, p, n, A)
    \/ \E i \in RoleIds \cup PermIds : RemoveNamed(r, i)
    \/ \E g \in GrantIds, A \in SUBSET Actions :
          \/ \E i \in RoleIds, p \in PermIds : CreateGrant(r, g, i, p, A)
          \/ UpdateGrant(r, g, A)
    \/ \E g \in GrantIds : RemoveGrant(r, g)

Progress(r) == \/ Insert(r) \/ Delete(r) \/ Reselect(r) \/ Update(r)
               \/ ReadGrants(r) \/ InstallGrants(r)

Next == \/ \E r \in Requests : Ask(r) \/ Progress(r) \/ Abort(r)
        \/ Restart
        \/ Finished

Spec == Init /\ [][Next]_vars

-----------------------------------------------------------------------------
Grants == [role : Names, perm : Names, actions : SUBSET Actions]

TypeOK ==
    /\ DOMAIN rows = Ids
    /\ \A i \in RoleIds : rows[i] \in Role \cup {NULL}
    /\ \A p \in PermIds : rows[p] \in Perm \cup {NULL}
    /\ \A g \in GrantIds : rows[g] \in Grant \cup {NULL}
    /\ cache \in SUBSET Grants
    /\ pc \in [Requests -> {"idle", "insert", "save", "update", "delete",
                            "reload", "install", "done"}]
    /\ key \in [Requests -> Ids \cup {NULL}]
    /\ snapshot \in [Requests -> SUBSET Grants]
    /\ DOMAIN entity = Requests /\ DOMAIN reloaded = Requests
    /\ restarts \in 0..MaxRestarts /\ {behind, overlapped} \subseteq BOOLEAN

(* With no change under way and none whose reload failed, a decision taken *)
(* from memory is the one the tables call for (rbac.e2e-spec.ts:253: a     *)
(* grant change applies to the next request without a restart).            *)
DecisionsFollowTables ==
    InFlight = {} /\ ~behind =>
        \A i \in Present(rows, RoleIds), p \in Present(rows, PermIds), a \in Actions :
            HasPermission(cache, {rows[i].name}, rows[p].name, a)
               <=> \E g \in Dependents(rows, i) \cap Dependents(rows, p) :
                      rows[g].actions = {} \/ a \in rows[g].actions

(* The same as long as no two changes have overlapped: what renames,       *)
(* narrowed actions, failures and a restart leave in memory is right.      *)
DecisionsFollowTablesAlone == ~overlapped => DecisionsFollowTables

Removed(i) == i \in born /\ rows[i] = NULL

(* As long as no two changes have overlapped, a row that was removed does  *)
(* not come back: no save() inserts it again (rbac.e2e-spec.ts:311: access *)
(* is revoked once the grant is deleted).                                  *)
RemovedStaysRemovedAlone ==
    [][~overlapped => \A i \in Ids : Removed(i) => rows'[i] = NULL]_vars

(* As long as no two changes have overlapped, removing a role or a         *)
(* permission removes no grant (rbac.e2e-spec.ts:225, 232: it is refused   *)
(* while grants are active).                                               *)
RemovalDeletesNoGrantAlone ==
    [][~overlapped => \A i \in RoleIds \cup PermIds :
          rows[i] # NULL /\ rows'[i] = NULL => Dependents(rows, i) = {}]_vars

(* However requests overlap, a grant names only actions its permission has *)
(* offered (rbac.e2e-spec.ts:201), and its role and permission exist.      *)
OnlyOfferedActions ==
    \A g \in Present(rows, GrantIds) :
        /\ rows[g].role \in Present(rows, RoleIds)
        /\ rows[g].perm \in Present(rows, PermIds)
        /\ rows[g].actions \subseteq offered[rows[g].perm]

-----------------------------------------------------------------------------
(* What makes the invariants above inductive.                              *)

Writing == {"insert", "save", "update"}   \* has an entity to write

(* e is what the table of the key i may hold. *)
RowOf(i, e) == /\ i \in RoleIds  => e \in Role
               /\ i \in PermIds  => e \in Perm
               /\ i \in GrantIds => e \in Grant

(* What a suspended handler is about to write fits the table, and a new    *)
(* row has a key that nobody has used or is about to use.                  *)
RequestsOK ==
    \A r \in Requests :
        /\ pc[r] \in Writing => key[r] \in Ids /\ RowOf(key[r], entity[r])
        /\ pc[r] = "delete" => key[r] \in Ids
        /\ pc[r] = "insert" =>
              key[r] \notin born /\ \A s \in Requests : key[s] = key[r] => s = r

BornOK == Present(rows, Ids) \subseteq born

(* A grant stays with its permission, and keeps to actions that this has   *)
(* offered, in the table and in the entities about to be saved.            *)
OfferedOK ==
    /\ offered \in [PermIds -> SUBSET Actions]
    /\ \A p \in Present(rows, PermIds) : rows[p].actions \subseteq offered[p]
    /\ \A g \in Present(rows, GrantIds) : rows[g].actions \subseteq offered[rows[g].perm]
    /\ \A r \in Requests : pc[r] \in Writing /\ key[r] \in GrantIds =>
          /\ entity[r].actions \subseteq offered[entity[r].perm]
          /\ rows[key[r]] # NULL => rows[key[r]].perm = entity[r].perm
          /\ \A s \in Requests : pc[s] \in Writing /\ key[s] = key[r] =>
                entity[s].perm = entity[r].perm

(* Until two changes overlap, what a request has read is still so, and     *)
(* memory is the compiled tables unless a reload is due.                   *)
AloneOK ==
    ~overlapped =>
        /\ \A r, s \in InFlight : r = s
        /\ \A r \in Requests :
              /\ pc[r] \in {"save", "update", "delete"} => rows[key[r]] # NULL
              /\ pc[r] = "update" => reloaded[r] # NULL
              /\ pc[r] = "delete" /\ key[r] \in RoleIds \cup PermIds =>
                    Dependents(rows, key[r]) = {}
              /\ pc[r] = "install" => snapshot[r] = Compile(rows)
        /\ ~behind /\ (\A r \in Requests : pc[r] \notin {"reload", "install"}) =>
              cache = Compile(rows)

RbacIInv == /\ TypeOK /\ Consistent(rows) /\ RequestsOK /\ BornOK /\ OfferedOK
            /\ AloneOK
=============================================================================
