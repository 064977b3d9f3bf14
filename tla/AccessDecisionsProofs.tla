------------------------ MODULE AccessDecisionsProofs -----------------------
(***************************************************************************)
(* Proofs about AccessDecisions: what the guards decide, however calls     *)
(* fall between the steps of changes that do not overlap.                  *)
(***************************************************************************)
EXTENDS AccessDecisions, RbacConfigProofs

(* The administrators' side behaves as RbacConfig says: a call changes     *)
(* nothing of it.                                                          *)
LEMMA AccessStepAdministers == [AccessNext]_accessVars => [Next]_vars
BY DEF AccessNext, Validate, Decide, Administer, accessVars

(* So every theorem about RbacConfig holds here too.                       *)
THEOREM AccessAdministers == AccessSpec => Spec
<1>1. AccessInit => Init
  BY DEF AccessInit
<1>2. QED
  BY <1>1, AccessStepAdministers, PTL DEF AccessSpec, Spec

(* What the administration of roles and grants keeps, it keeps while users *)
(* call: memory decides by the tables, a grant names only actions that are *)
(* offered, what was removed stays so, and no removal takes a grant along. *)
THEOREM CallsLeaveAdministrationSafe ==
    AccessSpec => /\ []DecisionsFollowTablesAlone /\ []OnlyOfferedActions
                  /\ RemovedStaysRemovedAlone /\ RemovalDeletesNoGrantAlone
BY AccessAdministers, MemoryDecidesByTablesAlone, GrantsOfferOnlyThat, RemovedStaysRemoved,
   RemovalDeletesNoGrant, PTL

(* A step leaves memory as it is, or installs what the tables hold: until  *)
(* two changes overlap nobody installs what is no longer so.               *)
LEMMA MemoryStep ==
    ASSUME RbacIInv, [Next]_vars, ~overlapped'
    PROVE  cache' = cache \/ cache' = Compile(rows')
<1>1. ~overlapped
  BY OverlapStays DEF RbacIInv
<1>2. ASSUME NEW r \in Requests, InstallGrants(r) PROVE cache' = Compile(rows')
  <2>1. pc[r] = "install" /\ cache' = snapshot[r] /\ rows' = rows
    BY <1>2 DEF InstallGrants
  <2>2. snapshot[r] = Compile(rows)
    BY <1>1, <2>1 DEF RbacIInv, AloneOK
  <2>3. QED
    BY <2>1, <2>2
<1>3. CASE Restart
  BY <1>3 DEF Restart
<1>4. QED
  BY <1>2, <1>3, StepCases DEF RbacIInv, Ends, GoesOn, Proceed, Commits, Reselect,
     ReadGrants, vars

-----------------------------------------------------------------------------
(* What the compiled tables allow is what the tables give to the user, or  *)
(* goes by the name of somebody else's role; and all they give is there.   *)
LEMMA CompiledEntitles ==
    ASSUME NEW R, Tables(R), Consistent(R), NEW M \in SUBSET RoleIds
    PROVE  /\ \A c \in Compile(R), a \in Actions : c.actions = {} \/ a \in c.actions =>
                 \/ c.role \in NamesOf(R, RoleIds \ M)
                 \/ <<c.role, c.perm, a>> \in Entitled(R, M)
           /\ \A t \in Entitled(R, M) :
                 /\ HasPermission(Compile(R), {t[1]}, t[2], t[3])
                 /\ t[1] \in NamesOf(R, M)
<1>1. ASSUME NEW g \in Present(R, GrantIds)
      PROVE  /\ R[g].role \in Present(R, RoleIds) /\ R[R[g].role].name \in Names
             /\ R[g].perm \in Present(R, PermIds) /\ R[R[g].perm].name \in Names
  <2>1. R[g].role \in Present(R, RoleIds) /\ R[g].perm \in Present(R, PermIds)
    BY DEF Consistent
  <2>2. QED
    BY <2>1 DEF Tables, RowOf, Role, Perm, Present, Ids
<1>2. ASSUME NEW c \in Compile(R), NEW a \in Actions, c.actions = {} \/ a \in c.actions
      PROVE  \/ c.role \in NamesOf(R, RoleIds \ M)
             \/ <<c.role, c.perm, a>> \in Entitled(R, M)
  <2>1. PICK g \in Present(R, GrantIds) :
           c = [role |-> R[R[g].role].name, perm |-> R[R[g].perm].name,
                actions |-> R[g].actions]
    BY DEF Compile
  <2>2. /\ c.role = R[R[g].role].name /\ c.perm = R[R[g].perm].name
        /\ c.actions = R[g].actions
    BY <2>1
  <2>3. CASE R[g].role \in M
    BY <1>1, <1>2, <2>2, <2>3 DEF Entitled
  <2>4. CASE R[g].role \notin M
    BY <1>1, <2>2, <2>4 DEF NamesOf, Present
  <2>5. QED
    BY <2>3, <2>4
<1>3. ASSUME NEW t \in Entitled(R, M)
      PROVE  /\ HasPermission(Compile(R), {t[1]}, t[2], t[3])
             /\ t[1] \in NamesOf(R, M)
  <2>1. PICK g \in Present(R, GrantIds) :
           /\ R[g].role \in M
           /\ t[1] = R[R[g].role].name /\ t[2] = R[R[g].perm].name
           /\ R[g].actions = {} \/ t[3] \in R[g].actions
    BY DEF Entitled
  <2>2. t[1] \in NamesOf(R, M)
    BY <1>1, <2>1 DEF NamesOf
  <2> DEFINE c == [role |-> R[R[g].role].name, perm |-> R[R[g].perm].name,
                   actions |-> R[g].actions]
  <2>3. c \in Compile(R)
    BY DEF Compile
  <2>4. c.role = t[1] /\ c.perm = t[2] /\ c.actions = R[g].actions
    BY <2>1
  <2> HIDE DEF c
  <2>5. QED
    BY <2>1, <2>2, <2>3, <2>4 DEF HasPermission
<1>4. QED
  BY <1>2, <1>3

(* The history of a step in which no two changes have overlapped. *)
LEMMA WatchCases ==
    ASSUME Watch, ~overlapped'
    PROVE  \/ /\ InFlight' = {} /\ ~behind' /\ call' = NULL
              /\ recent' = Entitled(rows', member')
              /\ steady' = Entitled(rows', member')
              /\ foreign' = NamesOf(rows', RoleIds \ member')
           \/ /\ recent' = recent \cup Entitled(rows', member')
              /\ steady' = steady \cap Entitled(rows', member')
              /\ foreign' = foreign \cup NamesOf(rows', RoleIds \ member')
BY DEF Watch

-----------------------------------------------------------------------------
(* The invariant. *)

(* It holds when the application starts. *)
LEMMA AccessInvariantInit == AccessInit => AccessIInv
<1> SUFFICES ASSUME AccessInit PROVE AccessIInv
  OBVIOUS
<1>1. RbacIInv
  BY RbacInvariantInit DEF AccessInit
<1>2. Tables(rows) /\ Consistent(rows)
  BY <1>1, TypedTables DEF RbacIInv, TypeOK
<1>3. member \in SUBSET Present(rows, RoleIds) /\ member \in SUBSET RoleIds
  BY DEF AccessInit, Present
<1>4. /\ cache = Compile(rows) /\ call = NULL
      /\ recent = Entitled(rows, member) /\ steady = Entitled(rows, member)
      /\ foreign = NamesOf(rows, RoleIds \ member)
  BY DEF AccessInit, Init
<1>5. Entitled(rows, member) \in Triples /\ NamesOf(rows, RoleIds \ member) \in SUBSET Names
  BY <1>2 DEF Entitled, Triples, NamesOf, Present, Tables, RowOf, Role, Ids
<1>6. AccessTypeOK
  BY <1>1, <1>3, <1>4, <1>5 DEF AccessTypeOK, RbacIInv
<1>7. CoveredOK /\ SteadyOK
  BY <1>2, <1>3, <1>4, CompiledEntitles DEF CoveredOK, SteadyOK
<1>8. QED
  BY <1>1, <1>6, <1>7 DEF AccessIInv

(* Every step of an administrator, of a call or of the process keeps it. *)
LEMMA AccessInvariantStep == AccessIInv /\ [AccessNext]_accessVars => AccessIInv'
<1> SUFFICES ASSUME AccessIInv, [AccessNext]_accessVars PROVE AccessIInv'
  OBVIOUS
<1>1. RbacIInv' /\ [Next]_vars
  BY AccessStepAdministers, RbacInvariantStep DEF AccessIInv
<1>2. CASE UNCHANGED accessVars
  <2>1. AccessTypeOK'
    BY <1>1, <1>2 DEF accessVars, windowVars, vars, AccessIInv, AccessTypeOK, RbacIInv, Present
  <2>2. CoveredOK' /\ SteadyOK'
    BY <1>2 DEF accessVars, windowVars, vars, AccessIInv, CoveredOK, SteadyOK, Entitled, Present
  <2>3. QED
    BY <1>1, <2>1, <2>2 DEF AccessIInv
<1>3. CASE AccessNext
  <2>1. Watch
    BY <1>3 DEF AccessNext, Validate, Decide, Administer
  <2>2. Tables(rows) /\ Consistent(rows) /\ Tables(rows)' /\ Consistent(rows)'
    BY <1>1, TypedTables DEF AccessIInv, RbacIInv, TypeOK
  <2>3. member' \in SUBSET Present(rows', RoleIds) /\ member' \in SUBSET RoleIds
    BY <1>3 DEF AccessNext, Validate, Decide, Administer, AccessIInv, AccessTypeOK,
                Present, vars
  <2>4. \/ call' = NULL
        \/ call' = call
        \/ call' = NamesOf(rows', member')
    BY <1>3 DEF AccessNext, Validate, Decide, Administer, NamesOf, Present, vars
  <2>5. \A I \in SUBSET RoleIds : NamesOf(rows', I) \in SUBSET Names
    BY <2>2 DEF NamesOf, Present, Tables, RowOf, Role, Ids
  <2>6. call' \in (SUBSET Names) \cup {NULL}
    BY <2>3, <2>4, <2>5 DEF AccessIInv, AccessTypeOK
  <2> DEFINE given == Entitled(rows', member')
             names == NamesOf(rows', RoleIds \ member')
  <2>7. given \in Triples /\ names \in SUBSET Names
    BY <2>3, <2>5 DEF Entitled, Triples
  <2>8. CASE overlapped'
    <3>1. recent' = {} /\ steady' = {} /\ foreign' = {}
      BY <2>1, <2>8 DEF Watch
    <3>2. AccessTypeOK' /\ CoveredOK' /\ SteadyOK'
      BY <1>1, <2>3, <2>6, <2>8, <3>1 DEF RbacIInv, AccessTypeOK, CoveredOK, SteadyOK, Triples
    <3>3. QED
      BY <1>1, <3>2 DEF AccessIInv
  <2>9. CASE ~overlapped'
    <3>1. ~overlapped
      BY <1>1, <2>9, OverlapStays DEF AccessIInv, RbacIInv
    <3>2. cache' = cache \/ cache' = Compile(rows')
      BY <1>1, <2>9, MemoryStep DEF AccessIInv
    <3>3. /\ \A c \in Compile(rows'), a \in Actions : c.actions = {} \/ a \in c.actions =>
                \/ c.role \in names
                \/ <<c.role, c.perm, a>> \in given
          /\ \A t \in given : /\ HasPermission(Compile(rows'), {t[1]}, t[2], t[3])
                              /\ t[1] \in NamesOf(rows', member')
      BY <2>2, <2>3, CompiledEntitles
    <3>4. /\ recent \in Triples /\ steady \in Triples /\ foreign \in SUBSET Names
          /\ steady \subseteq recent
          /\ \A c \in cache, a \in Actions : c.actions = {} \/ a \in c.actions =>
                c.role \in foreign \/ <<c.role, c.perm, a>> \in recent
          /\ \A t \in steady : /\ HasPermission(cache, {t[1]}, t[2], t[3])
                               /\ call # NULL => t[1] \in call
      BY <3>1 DEF AccessIInv, AccessTypeOK, CoveredOK, SteadyOK
    <3> HIDE DEF given, names
    <3>5. CASE /\ InFlight' = {} /\ ~behind' /\ call' = NULL
               /\ recent' = given /\ steady' = given /\ foreign' = names
      <4>1. cache' = Compile(rows')
        BY <1>1, <2>9, <3>5 DEF RbacIInv, AloneOK, InFlight
      <4>2. AccessTypeOK'
        BY <1>1, <2>3, <2>7, <3>5 DEF RbacIInv, AccessTypeOK
      <4>3. CoveredOK'
        BY <3>3, <3>5, <4>1 DEF CoveredOK
      <4>4. SteadyOK'
        BY <3>3, <3>5, <4>1 DEF SteadyOK, given
      <4>5. QED
        BY <1>1, <4>2, <4>3, <4>4 DEF AccessIInv
    <3>6. CASE /\ recent' = recent \cup given /\ steady' = steady \cap given
               /\ foreign' = foreign \cup names
      <4>1. AccessTypeOK'
        BY <1>1, <2>3, <2>6, <2>7, <3>4, <3>6 DEF RbacIInv, AccessTypeOK, Triples
      <4>2. CoveredOK'
        BY <3>2, <3>3, <3>4, <3>6 DEF CoveredOK
      <4>3. ASSUME NEW t \in steady' PROVE HasPermission(cache', {t[1]}, t[2], t[3])
        BY <3>2, <3>3, <3>4, <3>6, <4>3
      <4>4. ASSUME NEW t \in steady', call' # NULL PROVE t[1] \in call'
        BY <2>4, <3>3, <3>4, <3>6, <4>4
      <4>5. steady' \subseteq Entitled(rows', member')
        BY <3>6 DEF given
      <4>6. SteadyOK'
        BY <4>3, <4>4, <4>5 DEF SteadyOK
      <4>7. QED
        BY <1>1, <4>1, <4>2, <4>6 DEF AccessIInv
    <3>7. QED
      BY <2>1, <2>9, <3>5, <3>6, WatchCases DEF given, names
  <2>10. QED
    BY <1>1, <2>8, <2>9 DEF RbacIInv, TypeOK
<1>4. QED
  BY <1>2, <1>3

(* Whatever falls between the reading of the user's roles and the guard's  *)
(* decision: until two changes overlap, memory gives only what the tables  *)
(* gave in the window, and all they gave throughout it.                    *)
THEOREM AccessInvariance == AccessSpec => []AccessIInv
BY AccessInvariantInit, AccessInvariantStep, PTL DEF AccessSpec

-----------------------------------------------------------------------------
(* What the guards decide. *)

(* A decision taken inside one window is allowed only by what the tables   *)
(* gave in it.                                                             *)
LEMMA NothingNewInState == AccessIInv => NothingNewAlone
<1> SUFFICES ASSUME AccessIInv, ~overlapped, call # NULL,
                    NEW q \in Requirements,
                    call \cap foreign = {}, Access(q, FALSE, call) # "denied"
             PROVE  \E n \in call : <<n, q.resource, q.action>> \in recent
  BY DEF NothingNewAlone
<1>1. Granted(q, call)
  BY DEF Access, Mine
<1>2. PICK g \in cache : /\ g.role \in call /\ g.perm = q.resource
                         /\ g.actions = {} \/ q.action \in g.actions
  BY <1>1 DEF Granted, HasPermission
<1>3. q.action \in Actions
  BY DEF Requirements
<1>4. g.role \in foreign \/ <<g.role, g.perm, q.action>> \in recent
  BY <1>2, <1>3 DEF AccessIInv, CoveredOK
<1>5. QED
  BY <1>2, <1>4

(* As long as changes do not overlap, whatever one of them fails at: the   *)
(* guards open somebody else's data only with a permission that one of the *)
(* user's roles gave in the window, names that changed hands apart.        *)
THEOREM NothingNew == AccessSpec => []NothingNewAlone
BY AccessInvariance, NothingNewInState, PTL

(* And whatever the tables gave all through the window is allowed. *)
LEMMA NothingMissingInState == AccessIInv => NothingMissingAlone
<1> SUFFICES ASSUME AccessIInv, ~overlapped, call # NULL,
                    NEW q \in Requirements, NEW n \in Names,
                    q.guard # "selfOnly", <<n, q.resource, q.action>> \in steady
             PROVE  Access(q, FALSE, call) = "permission"
  BY DEF NothingMissingAlone
<1>1. HasPermission(cache, {n}, q.resource, q.action) /\ n \in call
  BY DEF AccessIInv, SteadyOK
<1>2. q.guard \in {"permission", "selfOrPermission"}
  BY DEF Requirements
<1>3. Granted(q, call)
  BY <1>1, <1>2 DEF Granted, HasPermission
<1>4. QED
  BY <1>3 DEF Access, Mine

(* Nor do they refuse, for the moment of a reload, what the tables give    *)
(* before, during and after it.                                            *)
THEOREM NothingMissing == AccessSpec => []NothingMissingAlone
BY AccessInvariance, NothingMissingInState, PTL

(* The roles of a user add up: somebody else's data is refused to all of   *)
(* them together only if each of them alone is refused it, and a           *)
(* @SelfOnly route of somebody else is refused whatever the roles.         *)
THEOREM RolesAddUp ==
    ASSUME NEW q \in Requirements, NEW M, NEW N
    PROVE  /\ Access(q, FALSE, M \cup N) = "denied"
                <=> Access(q, FALSE, M) = "denied" /\ Access(q, FALSE, N) = "denied"
           /\ q.guard = "selfOnly" => Access(q, FALSE, M) = "denied"
<1>1. Granted(q, M \cup N) <=> Granted(q, M) \/ Granted(q, N)
  BY DEF Granted, HasPermission
<1>2. \A I : Access(q, FALSE, I) = "denied" <=> ~Granted(q, I)
  BY DEF Access, Mine
<1>3. q.guard = "selfOnly" => ~Granted(q, M)
  BY DEF Granted
<1>4. QED
  BY <1>1, <1>2, <1>3
=============================================================================
