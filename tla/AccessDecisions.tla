--------------------------- MODULE AccessDecisions --------------------------
(***************************************************************************)
(* Calls of one signed-in user while administrators change roles,          *)
(* permissions and grants (RbacConfig).  JwtStrategy reads the names of    *)
(* the user's roles from the tables; the guards, later, look these names   *)
(* up in the compiled copy, which may have been installed before or after. *)
(*                                                                         *)
(* Nothing ties the two together but the role name, and role and           *)
(* permission names change hands.                                          *)
(***************************************************************************)
EXTENDS RbacConfig

VARIABLES
    member,   \* rows of user_roles for this user
    call,     \* role names its call was validated with, NULL without a call
    recent,   \* history: what the tables gave the user since the window opened
    steady,   \* history: what they gave all that time
    foreign   \* history: names that roles of others had in that time

windowVars == <<recent, steady, foreign>>
accessVars == <<vars, member, call, windowVars>>

(* What the tables give to the members of M: role name, resource, action.  *)
Entitled(R, M) ==
    {t \in Names \X Names \X Actions :
        \E g \in Present(R, GrantIds) :
            /\ R[g].role \in M
            /\ t[1] = R[R[g].role].name /\ t[2] = R[R[g].perm].name
            /\ R[g].actions = {} \/ t[3] \in R[g].actions}

NamesOf(R, I) == {R[i].name : i \in I \cap Present(R, RoleIds)}

(* The window opens when memory agrees with the tables and neither a       *)
(* change nor a call is under way.  Nothing is remembered of overlapping   *)
(* changes, about which nothing is said.                                   *)
Watch ==
    LET quiet == InFlight' = {} /\ ~behind' /\ call' = NULL
        given == Entitled(rows', member')
        names == NamesOf(rows', RoleIds \ member')
        since(old, now) == IF overlapped' THEN {} ELSE IF quiet THEN now ELSE old \cup now
    IN  /\ recent' = since(recent, given)
        /\ foreign' = since(foreign, names)
        /\ steady' = IF quiet \/ overlapped' THEN since({}, given) ELSE steady \cap given

(* register() gives a new user the default role; the user may be of any.   *)
AccessInit ==
    /\ Init
    /\ member \in {{i} : i \in Present(rows, RoleIds)}
    /\ call = NULL
    /\ recent = Entitled(rows, member)
    /\ steady = Entitled(rows, member)
    /\ foreign = NamesOf(rows, RoleIds \ member)

-----------------------------------------------------------------------------
(* validate(): the token is good; the user is read with its roles.         *)
Validate ==
    /\ call = NULL
    /\ call' = NamesOf(rows, member)
    /\ UNCHANGED <<vars, member>>
    /\ Watch

(* What a route asks for: @RequirePermission, @SelfOrPermission or         *)
(* @SelfOnly; each of the three guards lets the others' routes pass.       *)
Requirements ==
    [guard : {"permission", "selfOrPermission", "selfOnly"},
     resource : Names, action : Actions]

Mine(q, self) == q.guard \in {"selfOnly", "selfOrPermission"} /\ self

(* Mutant: a grant counts whatever role it belongs to. *)
GrantedToAnyRole(q, names) ==
    /\ q.guard \in {"permission", "selfOrPermission"}
    /\ \E g \in cache : g.perm = q.resource /\ (g.actions = {} \/ q.action \in g.actions)

(* What the roles' grants in memory allow; nothing opens a @SelfOnly route *)
(* of somebody else.                                                       *)
Granted(q, names) ==
    /\ q.guard \in {"permission", "selfOrPermission"}
    /\ HasPermission(cache, names, q.resource, q.action)

(* canActivate() of SelfOnlyGuard, SelfOrPermissionGuard, PermissionsGuard *)
Access(q, self, names) ==
    CASE Mine(q, self)     -> "self"
      [] ~Mine(q, self) /\ Granted(q, names) -> "permission"
      [] OTHER             -> "denied"

(* The guards decide and the handler goes its way. *)
Decide ==
    /\ call # NULL
    /\ call' = NULL
    /\ UNCHANGED <<vars, member>>
    /\ Watch

(* Mutant: user_roles without the cascade. *)
AdministerKeepingRoles ==
    /\ Next
    /\ UNCHANGED <<member, call>>
    /\ Watch

(* A removed role takes its user_roles rows with it (ON DELETE CASCADE). *)
Administer ==
    /\ Next
    /\ member' = {i \in member : rows'[i] # NULL}
    /\ UNCHANGED call
    /\ Watch

AccessNext == Validate \/ Decide \/ Administer

AccessSpec == AccessInit /\ [][AccessNext]_accessVars

-----------------------------------------------------------------------------
Triples == SUBSET (Names \X Names \X Actions)

AccessTypeOK ==
    /\ TypeOK
    /\ member \in SUBSET Present(rows, RoleIds)
    /\ call \in (SUBSET Names) \cup {NULL}
    /\ recent \in Triples /\ steady \in Triples /\ foreign \in SUBSET Names
    /\ ~overlapped => steady \subseteq recent

(* Changes of roles and grants that do not overlap, even one that failed   *)
(* half-way, never let a user at somebody else's data with a permission    *)
(* the tables did not give it: the guards allow only what one of its roles *)
(* gave since memory and tables last agreed.  The exception are names that *)
(* pass from one role to another while the call is under way.              *)
NothingNewAlone ==
    ~overlapped /\ call # NULL =>
        \A q \in Requirements :
            call \cap foreign = {} /\ Access(q, FALSE, call) # "denied" =>
                \E n \in call : <<n, q.resource, q.action>> \in recent

(* Nor do they ever take away, for the moment of a reload, what the tables *)
(* give before, during and after: the copy is replaced in one assignment   *)
(* (rbac-config.service.ts:41).                                            *)
NothingMissingAlone ==
    ~overlapped /\ call # NULL =>
        \A q \in Requirements, n \in Names :
            q.guard # "selfOnly" /\ <<n, q.resource, q.action>> \in steady =>
                Access(q, FALSE, call) = "permission"

-----------------------------------------------------------------------------
(* What makes these inductive.  Until two changes overlap: every grant in  *)
(* memory was given to the user, or to a name of others, in the window;    *)
CoveredOK ==
    ~overlapped => \A c \in cache, a \in Actions :
        c.actions = {} \/ a \in c.actions =>
            c.role \in foreign \/ <<c.role, c.perm, a>> \in recent

(* what the user was given all the time is in the tables, in memory and,   *)
(* by its role, in the token of the call.                                  *)
SteadyOK ==
    ~overlapped =>
        /\ steady \subseteq Entitled(rows, member)
        /\ \A t \in steady :
              /\ HasPermission(cache, {t[1]}, t[2], t[3])
              /\ call # NULL => t[1] \in call

AccessIInv == RbacIInv /\ AccessTypeOK /\ CoveredOK /\ SteadyOK
=============================================================================
