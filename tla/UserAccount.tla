----------------------------- MODULE UserAccount ----------------------------
(***************************************************************************)
(* The users row of one account: AuthService.login, confirmLoginOtp,       *)
(* confirmOtp (and the magic links), and UsersService.updateUser,          *)
(* initiateEmailChange, confirmEmailChange, confirmDelete,                 *)
(* deleteUserByPermission and recordFailedLoginAttempt.                    *)
(*                                                                         *)
(* Every handler runs in a transaction, reads the row into an entity at    *)
(* its start and saves the whole entity at its end (TypeOrm), so what it   *)
(* writes may be as old as its first read.  Of the code rows this module   *)
(* has the locks, and of an email change the mailbox it was sent to; when  *)
(* a code is right, EmailVerification says.  A code row is taken to exist  *)
(* when it is issued.  Requests that only issue a code, or submit a wrong  *)
(* one, wait for a row while they hold none and are left out.              *)
(***************************************************************************)
EXTENDS Integers, FiniteSets, TypeOrm

CONSTANTS
    Requests,      \* HTTP calls, each made once
    Emails,        \* addresses people use
    Anonymous,     \* deleted-<id>@deleted.local
    MaxAttempts,   \* AUTH_LOGIN_MAX_FAILED_ATTEMPTS
    Lockout,       \* AUTH_LOGIN_LOCKOUT_MINUTES, in ticks
    MaxTime,       \* bound on the clock
    MaxInFlight,   \* bound on overlapping requests
    NULL

ASSUME BoundsAssumption ==
    /\ MaxAttempts \in Nat \ {0} /\ Lockout \in Nat \ {0}
    /\ MaxTime \in Nat /\ MaxInFlight \in Nat
ASSUME AddressAssumption == Anonymous \notin Emails /\ NULL \notin Emails \cup {Anonymous}

VARIABLES
    user,        \* the committed row
    others,      \* addresses of the other accounts
    changeCode,  \* mailbox the pending EMAIL_CHANGE code was sent to, or NULL
    now,         \* the clock
    pc,          \* where the request is suspended
    op,          \* what it is about
    purpose,     \* purpose of the code it issues or confirms, or NULL
    entity,      \* the row as it read and changed it
    reloaded,    \* the row as save() selected it again
    mailbox,     \* mailbox its confirmation code came from
    outcome,     \* what the client was told
    streak,      \* history: wrong passwords since the last right one
    examined,    \* history: when the wrong password of a request was looked at
    overlapped   \* history: two requests were under way at the same time

reqVars  == <<pc, op, purpose, entity, reloaded, mailbox, outcome>>
histVars == <<streak, examined, overlapped>>
vars     == <<user, others, changeCode, now, reqVars, histVars>>

(* lockedUntil is 0 for null.  The password hash and the photo go the way  *)
(* of the email in anonymizeUser() and decide nothing here.                *)
User == [email : Emails \cup {Anonymous}, verified : BOOLEAN,
         pendingEmail : Emails \cup {NULL}, failed : Nat,
         lockedUntil : 0..(MaxTime + Lockout), tokenVersion : Nat,
         deleted : BOOLEAN]

ASSUME RowsAssumption == NULL \notin User

Registered(e) ==
    [email |-> e, verified |-> FALSE, pendingEmail |-> NULL, failed |-> 0,
     lockedUntil |-> 0, tokenVersion |-> 0, deleted |-> FALSE]

(* register() has created the account. *)
Init ==
    /\ user \in {Registered(e) : e \in Emails}
    /\ others = {}
    /\ changeCode = NULL
    /\ now = 0
    /\ pc = [r \in Requests |-> "idle"]
    /\ op = [r \in Requests |-> "none"]
    /\ purpose = [r \in Requests |-> NULL]
    /\ entity = [r \in Requests |-> NULL]
    /\ reloaded = [r \in Requests |-> NULL]
    /\ mailbox = [r \in Requests |-> NULL]
    /\ outcome = [r \in Requests |-> "none"]
    /\ streak = 0 /\ overlapped = FALSE
    /\ examined = [r \in Requests |-> 0]

-----------------------------------------------------------------------------
InFlight == {r \in Requests : pc[r] \notin {"idle", "done"}}

Arrives(r) == pc[r] = "idle" /\ Cardinality(InFlight) < MaxInFlight

Finish(r, o) == /\ pc' = [pc EXCEPT ![r] = "done"]
                /\ purpose' = [purpose EXCEPT ![r] = NULL]
                /\ outcome' = [outcome EXCEPT ![r] = o]

Writes(r) == ChangedColumns(reloaded[r], entity[r]) # {}

(* save(): what the UPDATE leaves of the row. *)
Result(r) == Saved(user, reloaded[r], entity[r])

(* Who issues a code has written the row before it; who confirms one       *)
(* writes the row, or inserts a session, after it.                         *)
Issuing == {"login", "initiate"}

(* The rows a transaction has written stay locked until it ends.           *)
HoldsUser(r) == pc[r] \in {"written", "issued"} /\ Writes(r)

HoldsCode(r) ==
    /\ purpose[r] # NULL
    /\ pc[r] \in IF op[r] \in Issuing THEN {"issued"}
                 ELSE {"save", "update", "written", "insert"}

(* users.email is unique: an UPDATE that changes it locks the row against  *)
(* the foreign key of a session too, any other UPDATE does not.            *)
HoldsKey(r) == HoldsUser(r) /\ Result(r).email # user.email

WantsUser(r) == pc[r] = "update" /\ Writes(r)

WantsKey(r) == pc[r] = "insert"

WantsCode(r) ==
    /\ purpose[r] # NULL
    /\ pc[r] = IF op[r] \in Issuing THEN "written" ELSE "consume"

Waits(r, s) ==
    /\ r # s
    /\ \/ WantsUser(r) /\ HoldsUser(s)
       \/ WantsKey(r) /\ HoldsKey(s)
       \/ WantsCode(r) /\ HoldsCode(s) /\ purpose[r] = purpose[s]

Free(r) == \A s \in Requests : ~Waits(r, s)

(* Two transactions that wait for each other: PostgreSQL ends one. *)
Victim(r) == \E s \in Requests : Waits(r, s) /\ Waits(s, r)

(* The request goes on with the entity e. *)
GoOn(r, o, p, e, step) ==
    /\ op' = [op EXCEPT ![r] = o]
    /\ purpose' = [purpose EXCEPT ![r] = p]
    /\ entity' = [entity EXCEPT ![r] = e]
    /\ pc' = [pc EXCEPT ![r] = step]
    /\ overlapped' = (overlapped \/ InFlight \ {r} # {})
    /\ UNCHANGED <<user, others, changeCode, now, reloaded, mailbox, outcome, streak>>

Begin(r, o, p, e, step) == GoOn(r, o, p, e, step) /\ UNCHANGED examined

Refuse(r) ==
    /\ Finish(r, "refused")
    /\ UNCHANGED <<user, others, changeCode, now, op, entity, reloaded, mailbox, histVars>>

(* login(): deleted and locked accounts are turned away; then argon2 runs. *)
LockedOut(row) == row.lockedUntil > now

RefuseLogin(r) == Arrives(r) /\ (user.deleted \/ LockedOut(user)) /\ Refuse(r)

ReadForLogin(r) ==
    /\ Arrives(r)
    /\ ~user.deleted /\ ~LockedOut(user)
    /\ Begin(r, "login", NULL, user, "verify")

RightPassword(r) ==
    /\ pc[r] = "verify"
    /\ Begin(r, "login", NULL, [entity[r] EXCEPT !.failed = 0, !.lockedUntil = 0], "save")

(* Mutants: one attempt too few or too many. *)
PunishedEarly(row) ==
    [row EXCEPT !.failed = @ + 1,
                !.lockedUntil = IF row.failed + 2 >= MaxAttempts THEN now + Lockout ELSE @]

PunishedLate(row) ==
    [row EXCEPT !.failed = @ + 1,
                !.lockedUntil = IF row.failed >= MaxAttempts THEN now + Lockout ELSE @]

(* recordFailedLoginAttempt() *)
Punished(row) ==
    [row EXCEPT !.failed = @ + 1,
                !.lockedUntil = IF row.failed + 1 >= MaxAttempts THEN now + Lockout ELSE @]

WrongPassword(r) ==
    /\ pc[r] = "verify"
    /\ GoOn(r, "fail", NULL, Punished(entity[r]), "save")
    /\ examined' = [examined EXCEPT ![r] = now]

(* confirmOtp(), confirmLoginOtp() and their magic links: the code was     *)
(* right.  Nothing here asks whether the account is deleted.               *)
ConfirmRegistration(r) == Arrives(r) /\ Begin(r, "verified", "REGISTER", user, "consume")

ConfirmLogin(r) == Arrives(r) /\ Begin(r, "session", "LOGIN", user, "consume")

(* Mutant: the owner may write every field. *)
UpdateFieldsAll(access) == {"photo", "email"}

(* UserUpdateFieldsPolicy: what the owner of the account may write in it,  *)
(* and what somebody with the permission users/update.                     *)
UpdateFields(access) == IF access = "self" THEN {"photo"} ELSE {"photo", "email"}

(* updateUser(): with the present address, only the photo changes. *)
UpdateUser(r, access, e) ==
    /\ Arrives(r)
    /\ e # user.email => "email" \in UpdateFields(access)
    /\ ~user.deleted
    /\ e \notin others
    /\ Begin(r, IF access = "self" THEN "photo" ELSE "profile", NULL,
             [user EXCEPT !.email = e,
                          !.pendingEmail = IF e = user.email THEN @ ELSE NULL], "save")

(* A field is not theirs to write, the account is deleted, the address is  *)
(* reserved or taken, the code is wrong.                                   *)
RefuseUpdate(r) == Arrives(r) /\ Refuse(r)

(* Mutants: the address set to null, the token version forgotten, the      *)
(* address to be confirmed left in the row.                                *)
AnonymizedNull(row) ==
    [row EXCEPT !.email = NULL, !.pendingEmail = NULL, !.verified = FALSE,
                !.deleted = TRUE, !.tokenVersion = @ + 1]

AnonymizedSameVersion(row) ==
    [row EXCEPT !.email = Anonymous, !.pendingEmail = NULL, !.verified = FALSE,
                !.deleted = TRUE]

AnonymizedPending(row) ==
    [row EXCEPT !.email = Anonymous, !.verified = FALSE,
                !.deleted = TRUE, !.tokenVersion = @ + 1]

(* anonymizeUser() *)
Anonymized(row) ==
    [row EXCEPT !.email = Anonymous, !.pendingEmail = NULL, !.verified = FALSE,
                !.deleted = TRUE, !.tokenVersion = @ + 1]

(* deleteUserByPermission() *)
DeleteUser(r) ==
    /\ Arrives(r)
    /\ ~user.deleted
    /\ Begin(r, "delete", NULL, Anonymized(user), "save")

(* confirmDelete(): the code was right. *)
ConfirmDelete(r) ==
    /\ Arrives(r)
    /\ ~user.deleted
    /\ Begin(r, "delete", "DELETE_ACCOUNT", user, "consume")

(* JwtStrategy.validate() looks at the account before the handler does.    *)
(* Only the handlers of the email change do not look at deletedAt again.   *)
Authenticate(r, o) ==
    /\ Arrives(r)
    /\ ~user.deleted
    /\ Begin(r, o, NULL, NULL, "authenticated")

RefuseChange(r) ==
    /\ pc[r] = "authenticated"
    /\ op[r] = "change" => user.pendingEmail \in {NULL} \cup others
    /\ Refuse(r)

InitiateEmailChange(r, e) ==
    /\ pc[r] = "authenticated"
    /\ op[r] = "initiate"
    /\ e # user.email /\ e \notin others
    /\ Begin(r, "initiate", "EMAIL_CHANGE", [user EXCEPT !.pendingEmail = e], "save")

ConfirmEmailChange(r) ==
    /\ pc[r] = "authenticated"
    /\ op[r] = "change"
    /\ user.pendingEmail \notin {NULL} \cup others
    /\ Begin(r, "change", "EMAIL_CHANGE", user, "confirm")

(* confirm() of the code: what came from the mailbox matches the row. *)
AcceptCode(r) ==
    /\ pc[r] = "confirm"
    /\ changeCode # NULL
    /\ mailbox' = [mailbox EXCEPT ![r] = changeCode]
    /\ pc' = [pc EXCEPT ![r] = "consume"]
    /\ UNCHANGED <<user, others, changeCode, now, op, purpose, entity, reloaded, outcome,
                   histVars>>

RefuseCode(r) == pc[r] = "confirm" /\ Refuse(r)

(* What the right code is for. *)
Confirmed(o, row) ==
    CASE o = "verified" -> [row EXCEPT !.verified = TRUE]
      [] o = "session"  -> row
      [] o = "delete"   -> Anonymized(row)
      [] o = "change"   -> [row EXCEPT !.email = row.pendingEmail, !.pendingEmail = NULL]

(* consumedAt is written, in the transaction of the request. *)
ConsumeCode(r) ==
    /\ pc[r] = "consume"
    /\ Free(r)
    /\ Begin(r, op[r], purpose[r], Confirmed(op[r], entity[r]),
             IF op[r] = "session" THEN "insert" ELSE "save")

(* startSession() of a confirmed login: an INSERT, and the row is as before. *)
StartSession(r) ==
    /\ pc[r] = "insert"
    /\ Free(r)
    /\ Finish(r, "session")
    /\ UNCHANGED <<user, others, changeCode, now, op, entity, reloaded, mailbox, histVars>>

-----------------------------------------------------------------------------
(* save(): the row is selected again ... *)
Reload(r) ==
    /\ pc[r] = "save"
    /\ reloaded' = [reloaded EXCEPT ![r] = user]
    /\ pc' = [pc EXCEPT ![r] = "update"]
    /\ UNCHANGED <<user, others, changeCode, now, op, purpose, entity, mailbox, outcome, histVars>>

(* ... and the columns that differ are updated, unless the address has     *)
(* been taken in the meantime.                                             *)
UpdateReady(r) == pc[r] = "update" /\ Free(r)

UniqueViolation(r) == UpdateReady(r) /\ Result(r).email \in others /\ Refuse(r)

(* The code login() issues then, as the settings of this moment ask for    *)
(* one or not; of an account that is verified not the one of register().   *)
CodesOfLogin(row) == {NULL, "LOGIN"} \cup IF row.verified THEN {} ELSE {"REGISTER"}

Update(r) ==
    /\ UpdateReady(r)
    /\ op[r] # "fail"
    /\ Result(r).email \notin others
    /\ pc' = [pc EXCEPT ![r] = "written"]
    /\ \E p \in IF op[r] = "login" THEN CodesOfLogin(entity[r]) ELSE {purpose[r]} :
          purpose' = [purpose EXCEPT ![r] = p]
    /\ UNCHANGED <<user, others, changeCode, now, op, entity, reloaded, mailbox, outcome,
                   histVars>>

(* Mutant: recordFailedLoginAttempt() waits until its UPDATE affects a row. *)
RecordFailedLoginAttemptAffected(r) ==
    /\ UpdateReady(r) /\ Writes(r)
    /\ op[r] = "fail"
    /\ Result(r).email \notin others
    /\ user' = Result(r)
    /\ streak' = streak + 1
    /\ Finish(r, "wrong")
    /\ UNCHANGED <<others, changeCode, now, op, entity, reloaded, mailbox, examined, overlapped>>

(* The failed attempt is committed in a transaction of its own. *)
RecordFailedLoginAttempt(r) ==
    /\ UpdateReady(r)
    /\ op[r] = "fail"
    /\ Result(r).email \notin others
    /\ user' = Result(r)
    /\ streak' = streak + 1
    /\ Finish(r, "wrong")
    /\ UNCHANGED <<others, changeCode, now, op, entity, reloaded, mailbox, examined, overlapped>>

(* login() and initiateEmailChange() issue their code after the row. *)
IssueCode(r) ==
    /\ pc[r] = "written"
    /\ op[r] \in Issuing /\ purpose[r] # NULL
    /\ Free(r)
    /\ pc' = [pc EXCEPT ![r] = "issued"]
    /\ UNCHANGED <<user, others, changeCode, now, op, purpose, entity, reloaded, mailbox,
                   outcome, histVars>>

(* What the transaction leaves of the code of an email change. *)
CodeAfter(r) == CASE op[r] = "initiate" -> entity[r].pendingEmail
                  [] op[r] = "change"   -> NULL
                  [] OTHER              -> changeCode

Commit(r) ==
    /\ pc[r] = IF op[r] \in Issuing /\ purpose[r] # NULL THEN "issued" ELSE "written"
    /\ user' = Result(r)
    /\ changeCode' = CodeAfter(r)
    /\ streak' = IF op[r] = "login" THEN 0 ELSE streak
    /\ Finish(r, op[r])
    /\ UNCHANGED <<others, now, op, entity, reloaded, mailbox, examined, overlapped>>

(* Another account takes an address; an uncommitted one is refused it. *)
RegisterElsewhere(e) ==
    /\ e \notin others
    /\ e # user.email
    /\ \A r \in Requests : HoldsUser(r) => Result(r).email # e
    /\ others' = others \cup {e}
    /\ UNCHANGED <<user, changeCode, now, reqVars, histVars>>

BreakDeadlock(r) ==
    /\ Victim(r)
    /\ Finish(r, "failed")
    /\ UNCHANGED <<user, others, changeCode, now, op, entity, reloaded, mailbox, histVars>>

(* The process dies or the database fails: the transaction leaves nothing. *)
Abort(r) ==
    /\ r \in InFlight
    /\ Finish(r, "failed")
    /\ UNCHANGED <<user, others, changeCode, now, op, entity, reloaded, mailbox, histVars>>

Tick == /\ now < MaxTime
        /\ now' = now + 1
        /\ UNCHANGED <<user, others, changeCode, reqVars, histVars>>

Finished == (\A r \in Requests : pc[r] = "done") /\ UNCHANGED vars

Ask(r) ==
    \/ RefuseLogin(r) \/ ReadForLogin(r)
    \/ ConfirmRegistration(r) \/ ConfirmLogin(r)
    \/ \E access \in {"self", "permission"}, e \in Emails : UpdateUser(r, access, e)
    \/ RefuseUpdate(r)
    \/ DeleteUser(r) \/ ConfirmDelete(r)
    \/ \E o \in {"initiate", "change"} : Authenticate(r, o)

Progress(r) ==
    \/ RightPassword(r) \/ WrongPassword(r)
    \/ RefuseChange(r) \/ ConfirmEmailChange(r)
    \/ \E e \in Emails : InitiateEmailChange(r, e)
    \/ AcceptCode(r) \/ RefuseCode(r)
    \/ ConsumeCode(r) \/ StartSession(r)
    \/ Reload(r) \/ UniqueViolation(r) \/ Update(r) \/ RecordFailedLoginAttempt(r)
    \/ IssueCode(r) \/ Commit(r)
    \/ BreakDeadlock(r)

Next ==
    \/ \E r \in Requests : Ask(r) \/ Progress(r) \/ Abort(r)
    \/ \E e \in Emails : RegisterElsewhere(e)
    \/ Tick
    \/ Finished

Spec == Init /\ [][Next]_vars

-----------------------------------------------------------------------------
TypeOK ==
    /\ user \in User
    /\ others \in SUBSET Emails
    /\ changeCode \in Emails \cup {NULL}
    /\ now \in 0..MaxTime
    /\ pc \in [Requests -> {"idle", "verify", "authenticated", "confirm", "consume", "insert",
                            "save", "update", "written", "issued", "done"}]
    /\ op \in [Requests -> {"none", "login", "fail", "verified", "session", "photo",
                            "profile", "delete", "initiate", "change"}]
    /\ purpose \in [Requests -> {"REGISTER", "LOGIN", "EMAIL_CHANGE", "DELETE_ACCOUNT", NULL}]
    /\ entity \in [Requests -> User \cup {NULL}]
    /\ reloaded \in [Requests -> User \cup {NULL}]
    /\ mailbox \in [Requests -> Emails \cup {NULL}]
    /\ outcome \in [Requests -> {"none", "login", "wrong", "verified", "session",
                                 "photo", "profile", "delete", "initiate", "change", "refused",
                                 "failed"}]
    /\ streak \in Nat
    /\ examined \in [Requests -> 0..MaxTime] /\ overlapped \in BOOLEAN

(* However requests overlap, deletedAt and tokenVersion change together:   *)
(* a save() writes back both or neither, so the tokens a deletion cut off  *)
(* are valid exactly when the account is not deleted.                      *)
DeletionMovesVersion == user.tokenVersion = IF user.deleted THEN 1 ELSE 0

(* However requests overlap, nobody is locked out of an account before     *)
(* MaxAttempts wrong passwords were answered.                              *)
NoFalseLockout ==
    user.lockedUntil > 0 =>
        Cardinality({r \in Requests : outcome[r] = "wrong"}) >= MaxAttempts

(* A deletion is final (users.service.ts:56: deletedAt blocks access).     *)
DeletionIsFinal == [][user.deleted => user'.deleted]_vars

(* As long as no two requests have overlapped, a deletion is final and     *)
(* leaves no address of the person in the row (anonymizeUser).             *)
DeletionIsFinalAlone ==
    [][~overlapped /\ user.deleted =>
          user'.deleted /\ {user'.email, user'.pendingEmail} \cap Emails = {}]_vars

(* As long as no two requests have overlapped, the address of an account   *)
(* becomes another one only in three ways: with a code that was sent to    *)
(* that address (users.e2e-spec.ts:335), by an administrator, or because   *)
(* the account is deleted.  Failures and requests in between change        *)
(* nothing about it, and the owner alone cannot write it.                  *)
AddressIsProvedAlone ==
    [][~overlapped /\ user'.email # user.email =>
          \E r \in Requests :
              /\ outcome[r] = "none"
              /\ \/ outcome'[r] = "change" /\ mailbox[r] = user'.email
                 \/ outcome'[r] = "profile"
                 \/ outcome'[r] = "delete" /\ user'.email = Anonymous]_vars

(* As long as no two requests have overlapped, MaxAttempts wrong passwords *)
(* in a row keep everybody out for Lockout ticks after the last of them    *)
(* (users.service.ts:427-431).                                             *)
LockoutHoldsAlone ==
    [][\A r \in Requests :
          /\ ~overlapped /\ streak >= MaxAttempts
          /\ pc[r] = "idle" /\ pc'[r] = "verify"
          => \A s \in Requests : outcome[s] = "wrong" => now >= examined[s] + Lockout]_vars

(* A request that waits for no row, or that PostgreSQL ends. *)
Ready(r) == Free(r) \/ Victim(r)

SomeoneIsReady == InFlight # {} => \E r \in InFlight : Ready(r)

(* The handlers that take the users row and a code in both orders.         *)
OnlyKnownCircles ==
    \A r, s \in Requests :
        Waits(r, s) /\ Waits(s, r) =>
            {op[r], op[s]} \in {{"login", "verified"}, {"login", "session"},
                               {"initiate", "change"}}

ReadyCanMove == \A r \in InFlight : Ready(r) => ENABLED Progress(r)

(* Requests never all wait for each other.  A login and the confirmation   *)
(* of its registration, a login and the confirmation of another one, and   *)
(* the two halves of an email change lock the users row and a code in both *)
(* orders; these waits end only with BreakDeadlock, and there are no other *)
(* and no longer ones.  And who waits for nobody can go on:                *)
(* recordFailedLoginAttempt never waits for its own UPDATE to hit a row.   *)
SomeoneCanMove == SomeoneIsReady /\ OnlyKnownCircles /\ ReadyCanMove

-----------------------------------------------------------------------------
(* An inductive invariant: what a suspended handler holds is a row, of the *)
(* handler it belongs to;                                                  *)
Wrong == {r \in Requests : outcome[r] = "wrong"}

Confirming == {"confirm", "consume"}
Writing    == {"update", "written", "issued"}
Saving     == {"save"} \cup Writing

Purposes(o) ==
    CASE o = "login"                   -> {"REGISTER", "LOGIN"}
      [] o = "verified"                -> {"REGISTER"}
      [] o = "session"                 -> {"LOGIN"}
      [] o \in {"initiate", "change"}  -> {"EMAIL_CHANGE"}
      [] o = "delete"                  -> {"DELETE_ACCOUNT"}
      [] OTHER                         -> {}

RequestsOK ==
    \A r \in Requests :
        /\ outcome[r] = "none" <=> pc[r] # "done"
        /\ purpose[r] \in {NULL} \cup Purposes(op[r])
        /\ pc[r] \in {"verify", "insert"} \cup Confirming \cup Saving => entity[r] \in User
        /\ pc[r] = "verify" => op[r] = "login"
        /\ pc[r] = "insert" => op[r] = "session"
        /\ pc[r] = "confirm" => op[r] = "change"
        /\ pc[r] = "consume" => op[r] \in {"verified", "session", "delete", "change"}
        /\ pc[r] \in Confirming /\ op[r] = "change" => entity[r].pendingEmail # NULL
        /\ pc[r] = "consume" /\ op[r] = "delete" => ~entity[r].deleted
        /\ pc[r] \in Saving => op[r] \notin {"none", "session"}
        /\ pc[r] \in Writing => reloaded[r] \in User
        /\ pc[r] \in {"written", "issued"} => op[r] # "fail"
        /\ examined[r] <= now

(* no two requests have the users row locked;                              *)
LocksOK == \A r, s \in Requests : HoldsUser(r) /\ HoldsUser(s) => r = s

(* every version of the row, wherever it is held, has moved its token      *)
(* version with its deletion and counts no more than the wrong passwords;  *)
Whole(row) == row.tokenVersion = IF row.deleted THEN 1 ELSE 0

Earned(row, n) == row.failed <= n /\ (row.lockedUntil > 0 => n >= MaxAttempts)

Holds(r, n) ==
    /\ entity[r] \in User =>
          Whole(entity[r]) /\ Earned(entity[r], IF op[r] = "fail" THEN n + 1 ELSE n)
    /\ pc[r] \in Writing => Whole(reloaded[r])

RowsOK ==
    /\ IsFiniteSet(Wrong)
    /\ Whole(user) /\ Earned(user, Cardinality(Wrong))
    /\ \A r \in InFlight : Holds(r, Cardinality(Wrong))

(* and a request nobody overlaps saves what it has read, but for what is   *)
(* its own to change.                                                      *)
Blank(row) == row.email = Anonymous /\ row.pendingEmail = NULL

Intends(o, row, box, time) ==
    /\ user.deleted => row.deleted
    /\ row.deleted => Blank(row)
    /\ row.email # user.email => \/ o = "change" /\ row.email = box
                                 \/ o = "profile"
                                 \/ o = "delete" /\ row.email = Anonymous
    /\ o # "initiate" => row.pendingEmail \in {NULL, user.pendingEmail}
    /\ o = "change" => row.pendingEmail = NULL
    /\ row.failed = IF o = "login" THEN 0 ELSE user.failed + (IF o = "fail" THEN 1 ELSE 0)
    /\ o = "fail" => \A s \in Wrong : examined[s] <= time
    /\ row.failed >= MaxAttempts =>
          row.lockedUntil = IF o = "fail" THEN time + Lockout ELSE user.lockedUntil

Sees(r) ==
    /\ \/ pc[r] \in {"verify", "authenticated", "confirm"}
       \/ pc[r] = "consume" /\ op[r] \in {"delete", "change"}
       => ~user.deleted
    /\ pc[r] \in {"verify"} \cup Confirming => entity[r] = user
    /\ pc[r] = "consume" /\ op[r] = "change" => mailbox[r] = user.pendingEmail
    /\ pc[r] \in Saving => Intends(op[r], entity[r], mailbox[r], examined[r])
    /\ pc[r] \in Writing => reloaded[r] = user

AloneOK ==
    /\ \A r, s \in InFlight : r = s
    /\ streak = user.failed
    /\ user.deleted => Blank(user)
    /\ user.pendingEmail # NULL => changeCode = user.pendingEmail
    /\ user.failed >= MaxAttempts =>
          \A s \in Wrong : examined[s] + Lockout <= user.lockedUntil
    /\ \A r \in InFlight : Sees(r)

AccountIInv == TypeOK /\ RequestsOK /\ LocksOK /\ RowsOK /\ (~overlapped => AloneOK)
=============================================================================
