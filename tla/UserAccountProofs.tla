-------------------------- MODULE UserAccountProofs -------------------------
(***************************************************************************)
(* Proofs about UserAccount: what the users row keeps however requests     *)
(* overlap, and what it keeps as long as none have.                        *)
(***************************************************************************)
EXTENDS UserAccount, FiniteSetTheorems, TLAPS

(* The handler of r has an entity to go on with. *)
Prepares(r) ==
    \/ ReadForLogin(r) \/ RightPassword(r) \/ WrongPassword(r)
    \/ ConfirmRegistration(r) \/ ConfirmLogin(r)
    \/ \E access \in {"self", "permission"}, e \in Emails : UpdateUser(r, access, e)
    \/ DeleteUser(r) \/ ConfirmDelete(r)
    \/ \E o \in {"initiate", "change"} : Authenticate(r, o)
    \/ \E e \in Emails : InitiateEmailChange(r, e)
    \/ ConfirmEmailChange(r) \/ ConsumeCode(r)

(* The handler of r ends and writes nothing in the row. *)
Ends(r, o) == /\ pc[r] # "done" /\ o \in {"refused", "failed", "session"}
              /\ Finish(r, o)
              /\ UNCHANGED <<user, others, changeCode, now, op, entity, reloaded, mailbox,
                             histVars>>

(* r goes on to its next step; an UPDATE has the row to itself. *)
Moves(r, p, box, step) ==
    /\ \/ /\ pc[r] = "confirm" /\ step = "consume" /\ changeCode # NULL /\ box = changeCode
          /\ p = purpose[r]
       \/ /\ pc[r] = "update" /\ op[r] # "fail" /\ step = "written" /\ box = mailbox[r]
          /\ p \in IF op[r] = "login" THEN {NULL, "LOGIN", "REGISTER"} ELSE {purpose[r]}
          /\ Writes(r) => \A s \in Requests \ {r} : ~HoldsUser(s)
       \/ pc[r] = "written" /\ step = "issued" /\ box = mailbox[r] /\ p = purpose[r]
    /\ pc' = [pc EXCEPT ![r] = step]
    /\ purpose' = [purpose EXCEPT ![r] = p]
    /\ mailbox' = [mailbox EXCEPT ![r] = box]
    /\ UNCHANGED <<user, others, changeCode, now, op, entity, reloaded, outcome, histVars>>

(* What any step does. *)
LEMMA StepCases ==
    ASSUME TypeOK, [Next]_vars
    PROVE  \/ \E r \in Requests :
                \/ Prepares(r)
                \/ \E o : Ends(r, o)
                \/ \E p, box, step : Moves(r, p, box, step)
                \/ Reload(r)
                \/ RecordFailedLoginAttempt(r)
                \/ Commit(r)
           \/ \E e \in Emails : RegisterElsewhere(e)
           \/ Tick
           \/ UNCHANGED vars
<1>1. ASSUME NEW r \in Requests, Ask(r) \/ Progress(r) \/ Abort(r)
      PROVE  \/ Prepares(r)
             \/ \E o : Ends(r, o)
             \/ \E p, box, step : Moves(r, p, box, step)
             \/ Reload(r)
             \/ RecordFailedLoginAttempt(r)
             \/ Commit(r)
  <2>1. ASSUME RefuseLogin(r) \/ RefuseUpdate(r) PROVE Ends(r, "refused")
    BY <2>1 DEF RefuseLogin, RefuseUpdate, Arrives, Refuse, Ends
  <2>2. ASSUME RefuseChange(r) \/ RefuseCode(r) \/ UniqueViolation(r) PROVE Ends(r, "refused")
    BY <2>2 DEF RefuseChange, RefuseCode, UniqueViolation, UpdateReady, Refuse, Ends
  <2>3. ASSUME BreakDeadlock(r) PROVE Ends(r, "failed")
    BY <2>3 DEF BreakDeadlock, Victim, Waits, WantsUser, WantsKey, WantsCode, Ends
  <2>4. ASSUME Abort(r) PROVE Ends(r, "failed")
    BY <2>4 DEF Abort, InFlight, Ends
  <2>5. ASSUME AcceptCode(r) PROVE Moves(r, purpose[r], changeCode, "consume")
    BY <2>5 DEF AcceptCode, Moves, TypeOK
  <2>6. ASSUME Update(r) PROVE \E p : Moves(r, p, mailbox[r], "written")
    <3>1. PICK p : /\ p \in IF op[r] = "login" THEN CodesOfLogin(entity[r]) ELSE {purpose[r]}
                   /\ purpose' = [purpose EXCEPT ![r] = p]
      BY <2>6 DEF Update
    <3>2. Writes(r) => \A s \in Requests \ {r} : ~HoldsUser(s)
      BY <2>6 DEF Update, UpdateReady, Free, Waits, WantsUser
    <3>3. Moves(r, p, mailbox[r], "written")
      BY <2>6, <3>1, <3>2 DEF Update, UpdateReady, Moves, TypeOK, CodesOfLogin
    <3>4. QED
      BY <3>3
  <2>7. ASSUME IssueCode(r) PROVE Moves(r, purpose[r], mailbox[r], "issued")
    BY <2>7 DEF IssueCode, Moves, TypeOK
  <2>8. ASSUME StartSession(r) PROVE Ends(r, "session")
    BY <2>8 DEF StartSession, Ends
  <2>9. ASSUME \/ ReadForLogin(r) \/ ConfirmRegistration(r) \/ ConfirmLogin(r)
               \/ \E access \in {"self", "permission"}, e \in Emails : UpdateUser(r, access, e)
               \/ DeleteUser(r) \/ ConfirmDelete(r)
               \/ \E o \in {"initiate", "change"} : Authenticate(r, o)
               \/ RightPassword(r) \/ WrongPassword(r) \/ ConfirmEmailChange(r)
               \/ \E e \in Emails : InitiateEmailChange(r, e)
               \/ ConsumeCode(r)
        PROVE  Prepares(r)
    BY <2>9 DEF Prepares
  <2>10. QED
    BY <1>1, <2>1, <2>2, <2>3, <2>4, <2>5, <2>6, <2>7, <2>8, <2>9, Zenon DEF Ask, Progress
<1>2. QED
  BY <1>1, Zenon DEF Next, Finished

-----------------------------------------------------------------------------
(* What a handler prepares. *)

(* save() of rows gives a row: each column the entity's where that differs *)
(* from what was selected again, and the row's where it does not.          *)
LEMMA SavedRow ==
    ASSUME NEW row \in User, NEW old \in User, NEW e \in User
    PROVE  /\ Saved(row, old, e) \in User
           /\ Saved(row, old, e).deleted =
                 IF e.deleted # old.deleted THEN e.deleted ELSE row.deleted
           /\ Saved(row, old, e).tokenVersion =
                 IF e.tokenVersion # old.tokenVersion THEN e.tokenVersion ELSE row.tokenVersion
           /\ Saved(row, old, e).failed \in {e.failed, row.failed}
           /\ Saved(row, old, e).lockedUntil \in {e.lockedUntil, row.lockedUntil}
BY DEF Saved, ChangedColumns, User

(* If nobody has written in between, the row becomes the entity. *)
LEMMA SavedAlone ==
    ASSUME NEW row \in User, NEW e \in User
    PROVE  Saved(row, row, e) = e
BY DEF Saved, ChangedColumns, User

(* anonymizeUser() of a row that is not deleted gives a deleted row. *)
LEMMA AnonymizedRow ==
    ASSUME NEW row \in User
    PROVE  /\ Anonymized(row) \in User
           /\ Anonymized(row).failed = row.failed
           /\ Anonymized(row).lockedUntil = row.lockedUntil
           /\ Anonymized(row).email = Anonymous /\ Anonymized(row).pendingEmail = NULL
           /\ Anonymized(row).deleted
           /\ Anonymized(row).tokenVersion = row.tokenVersion + 1
<1>1. row.tokenVersion + 1 \in Nat
  BY DEF User
<1>2. QED
  BY <1>1 DEF User, Anonymized

(* What the request holds fits the step it goes on to. *)
Fits(o, p, e, step) ==
    /\ o \in {"login", "fail", "verified", "session", "photo", "profile", "delete",
              "initiate", "change"}
    /\ p \in {NULL} \cup Purposes(o)
    /\ step \in {"verify", "authenticated", "confirm", "consume", "insert", "save"}
    /\ e \in User \cup {NULL}
    /\ step # "authenticated" => e \in User
    /\ step \in Confirming /\ o = "change" => e.pendingEmail # NULL
    /\ step = "confirm" => o = "change"
    /\ step = "consume" => o \in {"verified", "session", "delete"}
    /\ step = "consume" /\ o = "delete" => ~e.deleted
    /\ step = "verify" => o = "login"
    /\ step = "insert" => o = "session"
    /\ step = "save" => o # "session"

Counts(o, n) == IF o = "fail" THEN n + 1 ELSE n

SeesAlone(o, e, step, box, time) ==
    /\ \/ step \in {"verify", "authenticated", "confirm"}
       \/ step = "consume" /\ o = "delete"
       => ~user.deleted
    /\ step \in {"verify", "confirm", "consume"} => e = user
    /\ step = "save" => Intends(o, e, box, time)

Prepared(r, o, p, e, step, time) ==
    /\ pc[r] # "done"
    /\ step = "verify" => ~LockedOut(user)
    /\ GoOn(r, o, p, e, step)
    /\ examined' = [examined EXCEPT ![r] = time]
    /\ time \in 0..now
    /\ Fits(o, p, e, step)
    /\ RowsOK /\ e \in User => Whole(e) /\ Earned(e, Counts(o, Cardinality(Wrong)))
    /\ AloneOK => SeesAlone(o, e, step, mailbox[r], time)

(* Each handler prepares, from the row it has read, an entity that fits.   *)
LEMMA Preparations ==
    ASSUME TypeOK, RequestsOK, NEW r \in Requests, Prepares(r)
    PROVE  \E o, p, e, step, time : Prepared(r, o, p, e, step, time)
<1> USE BoundsAssumption, RowsAssumption, AddressAssumption
<1>0. /\ user \in User /\ now \in 0..MaxTime /\ MaxTime \in Nat /\ Lockout \in Nat
      /\ examined \in [Requests -> 0..MaxTime] /\ examined[r] \in 0..now
      /\ examined = [examined EXCEPT ![r] = examined[r]]
      /\ outcome \in [Requests -> {"none", "login", "wrong", "verified", "session", "photo",
                                   "profile", "delete", "initiate", "change", "refused", "failed"}]
  BY DEF TypeOK, RequestsOK
<1>a. ASSUME RowsOK PROVE /\ Cardinality(Wrong) \in Nat
                          /\ Whole(user) /\ Earned(user, Cardinality(Wrong))
                          /\ r \in InFlight /\ entity[r] \in User /\ op[r] # "fail" =>
                                Whole(entity[r]) /\ Earned(entity[r], Cardinality(Wrong))
  BY <1>a, FS_CardinalityType DEF RowsOK, Holds
<1>b. ASSUME AloneOK PROVE /\ user.deleted => Blank(user)
                           /\ user.pendingEmail # NULL => changeCode = user.pendingEmail
                           /\ r \in InFlight => Sees(r)
  BY <1>b DEF AloneOK
<1>1. CASE ReadForLogin(r)
  <2>1. Prepared(r, "login", NULL, user, "verify", examined[r])
    BY <1>0, <1>1, <1>a, <1>b DEF ReadForLogin, Arrives, Begin, Prepared, Fits, Purposes, Confirming, Counts, SeesAlone
  <2>2. QED BY <2>1
<1>2. CASE RightPassword(r)
  <2> DEFINE e == [entity[r] EXCEPT !.failed = 0, !.lockedUntil = 0]
  <2>1. entity[r] \in User /\ r \in InFlight
    BY <1>2 DEF RequestsOK, RightPassword, InFlight
  <2>2. /\ e \in User
        /\ e.email = entity[r].email /\ e.verified = entity[r].verified
        /\ e.pendingEmail = entity[r].pendingEmail /\ e.tokenVersion = entity[r].tokenVersion
        /\ e.deleted = entity[r].deleted
        /\ e.failed = 0 /\ e.lockedUntil = 0
    <3>1. 0 \in Nat /\ 0 \in 0..(MaxTime + Lockout)
      OBVIOUS
    <3>2. QED
      BY <2>1, <3>1 DEF User
  <2>3. RowsOK => Whole(e) /\ Earned(e, Cardinality(Wrong))
    BY <1>0, <1>a, <1>2, <2>1, <2>2 DEF Whole, Earned, User, RightPassword, RequestsOK
  <2>4. AloneOK => Intends("login", e, mailbox[r], examined[r])
    BY <1>0, <1>b, <1>2, <2>1, <2>2 DEF Intends, Blank, User, Sees, RightPassword
  <2>5. Prepared(r, "login", NULL, e, "save", examined[r])
    BY <1>0, <1>2, <2>2, <2>3, <2>4
    DEF RightPassword, Begin, Prepared, Fits, Purposes, Confirming, Counts, SeesAlone
  <2>6. QED BY <2>5
<1>3. CASE WrongPassword(r)
  <2> DEFINE e == Punished(entity[r])
  <2>1. entity[r] \in User /\ r \in InFlight
    BY <1>3 DEF RequestsOK, WrongPassword, InFlight
  <2>2. /\ e \in User
        /\ e.email = entity[r].email /\ e.verified = entity[r].verified
        /\ e.pendingEmail = entity[r].pendingEmail /\ e.tokenVersion = entity[r].tokenVersion
        /\ e.deleted = entity[r].deleted
        /\ e.failed = entity[r].failed + 1
        /\ e.lockedUntil = IF e.failed >= MaxAttempts THEN now + Lockout
                           ELSE entity[r].lockedUntil
    <3>1. /\ entity[r].failed + 1 \in Nat /\ now + Lockout \in 0..(MaxTime + Lockout)
          /\ entity[r].lockedUntil \in 0..(MaxTime + Lockout)
      BY <1>0, <2>1 DEF User
    <3>2. QED
      BY <2>1, <3>1 DEF User, Punished
  <2>3. RowsOK => Whole(e) /\ Earned(e, Cardinality(Wrong) + 1)
    BY <1>0, <1>a, <1>3, <2>1, <2>2 DEF Whole, Earned, User, WrongPassword, RequestsOK
  <2>4. AloneOK => Intends("fail", e, mailbox[r], now)
    BY <1>0, <1>b, <1>3, <2>1, <2>2 DEF Intends, Blank, User, Sees, WrongPassword, Wrong, RequestsOK
  <2>5. Prepared(r, "fail", NULL, e, "save", now)
    BY <1>0, <1>3, <2>2, <2>3, <2>4
    DEF WrongPassword, Prepared, Fits, Purposes, Confirming, Counts, SeesAlone
  <2>6. QED BY <2>5
<1>4. CASE ConfirmRegistration(r) \/ ConfirmLogin(r)
  <2>1. CASE ConfirmRegistration(r)
    <3>1. Prepared(r, "verified", "REGISTER", user, "consume", examined[r])
      BY <1>0, <1>a, <2>1
      DEF ConfirmRegistration, Arrives, Begin, Prepared, Fits, Purposes, Confirming, Counts,
          SeesAlone
    <3>2. QED BY <3>1
  <2>2. CASE ConfirmLogin(r)
    <3>1. Prepared(r, "session", "LOGIN", user, "consume", examined[r])
      BY <1>0, <1>a, <2>2
      DEF ConfirmLogin, Arrives, Begin, Prepared, Fits, Purposes, Confirming, Counts, SeesAlone
    <3>2. QED BY <3>1
  <2>3. QED BY <1>4, <2>1, <2>2
<1>5. ASSUME NEW access \in {"self", "permission"}, NEW a \in Emails, UpdateUser(r, access, a)
      PROVE  \E o, p, e, step, time : Prepared(r, o, p, e, step, time)
  <2> DEFINE o == IF access = "self" THEN "photo" ELSE "profile"
             e == [user EXCEPT !.email = a,
                               !.pendingEmail = IF a = user.email THEN @ ELSE NULL]
  <2>2. /\ e \in User
        /\ e.failed = user.failed /\ e.lockedUntil = user.lockedUntil
        /\ e.tokenVersion = user.tokenVersion /\ e.deleted = user.deleted
        /\ e.email = a /\ e.pendingEmail \in {NULL, user.pendingEmail}
        /\ ~user.deleted
        /\ e.email # user.email => o = "profile"
    BY <1>0, <1>5 DEF User, UpdateUser, UpdateFields
  <2>3. RowsOK => Whole(e) /\ Earned(e, Cardinality(Wrong))
    BY <1>0, <1>a, <2>2 DEF Whole, Earned, User
  <2>4. AloneOK => Intends(o, e, mailbox[r], examined[r])
    BY <1>0, <1>b, <2>2 DEF Intends, Blank, User
  <2>5. Prepared(r, o, NULL, e, "save", examined[r])
    BY <1>0, <1>5, <2>2, <2>3, <2>4
    DEF UpdateUser, Arrives, Begin, Prepared, Fits, Purposes, Confirming, Counts, SeesAlone
  <2>6. QED BY <2>5
<1>6. CASE DeleteUser(r) \/ ConfirmDelete(r)
  <2>1. CASE DeleteUser(r)
    <3> DEFINE e == Anonymized(user)
    <3>1. /\ e \in User
          /\ e.failed = user.failed /\ e.lockedUntil = user.lockedUntil
          /\ e.email = Anonymous /\ e.pendingEmail = NULL
          /\ ~user.deleted /\ e.deleted /\ e.tokenVersion = user.tokenVersion + 1
      BY <1>0, <2>1, AnonymizedRow DEF DeleteUser
    <3>2. RowsOK => Whole(e) /\ Earned(e, Cardinality(Wrong))
      BY <1>0, <1>a, <3>1 DEF Whole, Earned, User
    <3>3. AloneOK => Intends("delete", e, mailbox[r], examined[r])
      BY <1>0, <1>b, <3>1 DEF Intends, Blank, User
    <3>4. Prepared(r, "delete", NULL, e, "save", examined[r])
      BY <1>0, <2>1, <3>1, <3>2, <3>3
      DEF DeleteUser, Arrives, Begin, Prepared, Fits, Purposes, Confirming, Counts, SeesAlone
    <3>5. QED BY <3>4
  <2>2. CASE ConfirmDelete(r)
    <3>1. Prepared(r, "delete", "DELETE_ACCOUNT", user, "consume", examined[r])
      BY <1>0, <1>a, <2>2
      DEF ConfirmDelete, Arrives, Begin, Prepared, Fits, Purposes, Confirming, Counts, SeesAlone
    <3>2. QED BY <3>1
  <2>3. QED BY <1>6, <2>1, <2>2
<1>7. ASSUME NEW o \in {"initiate", "change"}, Authenticate(r, o)
      PROVE  \E p, e, step, time : Prepared(r, o, p, e, step, time)
  <2>1. Prepared(r, o, NULL, NULL, "authenticated", examined[r])
    BY <1>0, <1>7 DEF Authenticate, Arrives, Begin, Prepared, Fits, Purposes, Confirming, SeesAlone
  <2>2. QED BY <2>1
<1>8. ASSUME NEW a \in Emails, InitiateEmailChange(r, a)
      PROVE  \E p, e, step, time : Prepared(r, "initiate", p, e, step, time)
  <2> DEFINE e == [user EXCEPT !.pendingEmail = a]
  <2>1. r \in InFlight /\ pc[r] = "authenticated"
    BY <1>8 DEF InitiateEmailChange, InFlight
  <2>2. /\ e \in User
        /\ e.email = user.email /\ e.failed = user.failed
        /\ e.lockedUntil = user.lockedUntil /\ e.tokenVersion = user.tokenVersion
        /\ e.deleted = user.deleted
    BY <1>0 DEF User
  <2>3. RowsOK => Whole(e) /\ Earned(e, Cardinality(Wrong))
    BY <1>0, <1>a, <2>2 DEF Whole, Earned, User
  <2>4. AloneOK => Intends("initiate", e, mailbox[r], examined[r])
    BY <1>0, <1>b, <2>1, <2>2 DEF Intends, Blank, User, Sees
  <2>5. Prepared(r, "initiate", "EMAIL_CHANGE", e, "save", examined[r])
    BY <1>0, <1>8, <2>1, <2>2, <2>3, <2>4
    DEF InitiateEmailChange, Begin, Prepared, Fits, Purposes, Confirming, Counts, SeesAlone
  <2>6. QED BY <2>5
<1>9. CASE ConfirmEmailChange(r)
  <2>1. r \in InFlight /\ pc[r] = "authenticated" /\ user.pendingEmail # NULL
    BY <1>9 DEF ConfirmEmailChange, InFlight
  <2>2. AloneOK => ~user.deleted
    BY <1>b, <2>1 DEF Sees
  <2>3. Prepared(r, "change", "EMAIL_CHANGE", user, "confirm", examined[r])
    BY <1>0, <1>9, <1>a, <2>1, <2>2
    DEF ConfirmEmailChange, Begin, Prepared, Fits, Purposes, Confirming, Counts, SeesAlone
  <2>4. QED BY <2>3
<1>10. CASE ConsumeCode(r)
  <2> DEFINE e == Confirmed(op[r], entity[r])
  <2>1. /\ entity[r] \in User /\ r \in InFlight /\ pc[r] = "consume"
        /\ op[r] \in {"verified", "session", "delete", "change"}
        /\ op[r] = "change" => entity[r].pendingEmail # NULL
        /\ op[r] = "delete" => ~entity[r].deleted
        /\ purpose[r] \in {NULL} \cup Purposes(op[r])
    BY <1>10 DEF RequestsOK, ConsumeCode, InFlight, Confirming
  <2>a. ASSUME AloneOK
        PROVE  /\ entity[r] = user
               /\ op[r] \in {"delete", "change"} => ~user.deleted
               /\ op[r] = "change" => mailbox[r] = user.pendingEmail
    BY <1>b, <2>1, <2>a DEF Sees, Confirming
  <2>2. CASE op[r] = "change"
    <3>1. /\ e \in User
          /\ e.failed = entity[r].failed /\ e.lockedUntil = entity[r].lockedUntil
          /\ e.tokenVersion = entity[r].tokenVersion /\ e.deleted = entity[r].deleted
          /\ e.email = entity[r].pendingEmail /\ e.pendingEmail = NULL
      BY <2>1, <2>2 DEF User, Confirmed
    <3>2. RowsOK => Whole(e) /\ Earned(e, Cardinality(Wrong))
      BY <1>0, <1>a, <2>1, <2>2, <3>1 DEF Whole, Earned, User
    <3>3. AloneOK => Intends("change", e, mailbox[r], examined[r])
      BY <1>0, <2>a, <2>1, <2>2, <3>1 DEF Intends, Blank, User
    <3>4. Prepared(r, "change", purpose[r], e, "save", examined[r])
      BY <1>0, <1>10, <2>1, <2>2, <3>1, <3>2, <3>3
      DEF ConsumeCode, Begin, Prepared, Fits, Confirming, Counts, SeesAlone
    <3>5. QED BY <3>4
  <2>3. CASE op[r] = "verified"
    <3>1. /\ e \in User
          /\ e.email = entity[r].email /\ e.pendingEmail = entity[r].pendingEmail
          /\ e.failed = entity[r].failed /\ e.lockedUntil = entity[r].lockedUntil
          /\ e.tokenVersion = entity[r].tokenVersion /\ e.deleted = entity[r].deleted
      BY <2>1, <2>3 DEF User, Confirmed
    <3>2. RowsOK => Whole(e) /\ Earned(e, Cardinality(Wrong))
      BY <1>0, <1>a, <2>1, <2>3, <3>1 DEF Whole, Earned, User
    <3>3. AloneOK => Intends("verified", e, mailbox[r], examined[r])
      BY <1>0, <1>b, <2>a, <2>3, <3>1 DEF Intends, Blank, User
    <3>4. Prepared(r, "verified", purpose[r], e, "save", examined[r])
      BY <1>0, <1>10, <2>1, <2>3, <3>1, <3>2, <3>3
      DEF ConsumeCode, Begin, Prepared, Fits, Confirming, Counts, SeesAlone
    <3>5. QED BY <3>4
  <2>4. CASE op[r] = "delete"
    <3>1. e = Anonymized(entity[r])
      BY <2>4 DEF Confirmed
    <3>2. /\ e \in User
          /\ e.failed = entity[r].failed /\ e.lockedUntil = entity[r].lockedUntil
          /\ e.email = Anonymous /\ e.pendingEmail = NULL
          /\ e.deleted /\ e.tokenVersion = entity[r].tokenVersion + 1
      BY <2>1, <2>4, <3>1, AnonymizedRow
    <3>3. RowsOK => Whole(e) /\ Earned(e, Cardinality(Wrong))
      BY <1>0, <1>a, <2>1, <2>4, <3>2 DEF Whole, Earned, User
    <3>4. AloneOK => Intends("delete", e, mailbox[r], examined[r])
      BY <1>0, <2>a, <2>4, <3>2 DEF Intends, Blank, User
    <3>5. Prepared(r, "delete", purpose[r], e, "save", examined[r])
      BY <1>0, <1>10, <2>1, <2>4, <3>2, <3>3, <3>4
      DEF ConsumeCode, Begin, Prepared, Fits, Confirming, Counts, SeesAlone
    <3>6. QED BY <3>5
  <2>5. CASE op[r] = "session"
    <3>1. e = entity[r]
      BY <2>5 DEF Confirmed
    <3>2. RowsOK => Whole(e) /\ Earned(e, Cardinality(Wrong))
      BY <1>a, <2>1, <2>5, <3>1
    <3>3. Prepared(r, "session", purpose[r], e, "insert", examined[r])
      BY <1>0, <1>10, <2>1, <2>5, <3>1, <3>2
      DEF ConsumeCode, Begin, Prepared, Fits, Confirming, Counts, SeesAlone
    <3>4. QED BY <3>3
  <2>6. QED
    BY <2>1, <2>2, <2>3, <2>4, <2>5
<1>11. QED
  BY <1>1, <1>2, <1>3, <1>4, <1>5, <1>6, <1>7, <1>8, <1>9, <1>10, Zenon DEF Prepares

-----------------------------------------------------------------------------
(* What a write leaves: a row, in which every column is the entity's or    *)
(* that of the row as it was; and who wrote a failed attempt is told so.   *)
Stores(r) ==
    /\ pc[r] \in Writing
    /\ user' = Result(r)
    /\ \/ op[r] = "fail" /\ Finish(r, "wrong") /\ streak' = streak + 1
          /\ UNCHANGED changeCode
       \/ op[r] \notin {"none", "fail", "session"} /\ Finish(r, op[r]) /\ changeCode' = CodeAfter(r)
          /\ streak' = IF op[r] = "login" THEN 0 ELSE streak
    /\ UNCHANGED <<others, now, op, entity, reloaded, mailbox, examined, overlapped>>

(* Every save() writes in one of these ways. *)
LEMMA WriteCases ==
    ASSUME RequestsOK, NEW r \in Requests, RecordFailedLoginAttempt(r) \/ Commit(r)
    PROVE  Stores(r) /\ entity[r] \in User /\ reloaded[r] \in User
<1>1. ASSUME RecordFailedLoginAttempt(r) PROVE Stores(r)
  BY <1>1 DEF RecordFailedLoginAttempt, UpdateReady, Writing, Stores
<1>2. ASSUME Commit(r) PROVE Stores(r)
  <2>1. pc[r] \in {"written", "issued"}
    BY <1>2 DEF Commit
  <2>2. op[r] \notin {"none", "fail", "session"}
    BY <2>1 DEF RequestsOK, Writing, Saving
  <2>3. QED
    BY <1>2, <2>1, <2>2 DEF Commit, Writing, Stores
<1>3. Stores(r)
  BY <1>1, <1>2
<1>4. QED
  BY <1>3 DEF Stores, RequestsOK, Writing, Saving

(* Types and what the handlers hold. *)
LEMMA TypeStep ==
    ASSUME TypeOK, RequestsOK, [Next]_vars
    PROVE  TypeOK'
<1> USE BoundsAssumption, AddressAssumption DEF TypeOK
<1>1. ASSUME NEW r \in Requests, Prepares(r) PROVE TypeOK'
  <2>1. PICK o, p, e, step, time : Prepared(r, o, p, e, step, time)
    BY <1>1, Preparations
  <2>2. /\ op' = [op EXCEPT ![r] = o] /\ entity' = [entity EXCEPT ![r] = e]
        /\ purpose' = [purpose EXCEPT ![r] = p]
        /\ pc' = [pc EXCEPT ![r] = step] /\ examined' = [examined EXCEPT ![r] = time]
        /\ overlapped' \in BOOLEAN
        /\ UNCHANGED <<user, others, changeCode, now, reloaded, mailbox, outcome, streak>>
        /\ time \in 0..MaxTime
    BY <2>1 DEF Prepared, GoOn
  <2>3. Fits(o, p, e, step)
    BY <2>1 DEF Prepared
  <2>4. QED
    BY <2>2, <2>3 DEF Fits, Purposes
<1>2. ASSUME NEW r \in Requests, NEW o, Ends(r, o) PROVE TypeOK'
  BY <1>2 DEF Ends, Finish, histVars
<1>3. ASSUME NEW r \in Requests, NEW p, NEW box, NEW step, Moves(r, p, box, step) PROVE TypeOK'
  BY <1>3 DEF Moves, histVars
<1>4. ASSUME NEW r \in Requests, Reload(r) PROVE TypeOK'
  BY <1>4 DEF Reload, histVars
<1>5. ASSUME NEW r \in Requests, RecordFailedLoginAttempt(r) \/ Commit(r) PROVE TypeOK'
  <2>1. Stores(r) /\ entity[r] \in User /\ reloaded[r] \in User
    BY <1>5, WriteCases
  <2>2. user' \in User
    BY <2>1, SavedRow DEF Stores, Result
  <2>3. entity[r].pendingEmail \in Emails \cup {NULL}
    BY <2>1 DEF User
  <2>4. changeCode' \in Emails \cup {NULL} /\ streak' \in Nat
    BY <2>1, <2>3 DEF Stores, CodeAfter
  <2>5. /\ pc' = [pc EXCEPT ![r] = "done"]
        /\ purpose' = [purpose EXCEPT ![r] = NULL]
        /\ \E o \in {"login", "wrong", "verified", "photo", "profile", "delete", "initiate",
                     "change"} : outcome' = [outcome EXCEPT ![r] = o]
    BY <2>1 DEF Stores, Finish
  <2>6. QED
    BY <2>1, <2>2, <2>4, <2>5 DEF Stores
<1>6. ASSUME NEW e \in Emails, RegisterElsewhere(e) PROVE TypeOK'
  BY <1>6 DEF RegisterElsewhere, reqVars, histVars
<1>7. ASSUME Tick PROVE TypeOK'
  BY <1>7 DEF Tick, reqVars, histVars
<1>8. ASSUME UNCHANGED vars PROVE TypeOK'
  BY <1>8 DEF vars, reqVars, histVars
<1>9. QED
  BY <1>1, <1>2, <1>3, <1>4, <1>5, <1>6, <1>7, <1>8, StepCases

(* What one request holds. *)
RequestOK(r) ==
    /\ outcome[r] = "none" <=> pc[r] # "done"
    /\ purpose[r] \in {NULL} \cup Purposes(op[r])
    /\ pc[r] \in {"verify", "insert"} \cup Confirming \cup Saving => entity[r] \in User
    /\ pc[r] = "verify" => op[r] = "login"
    /\ pc[r] = "insert" => op[r] = "session"
    /\ pc[r] = "confirm" => op[r] = "change"
    /\ pc[r] = "consume" => op[r] \in {"verified", "session", "delete", "change"}
    /\ pc[r] \in Confirming /\ op[r] = "change" => entity[r].pendingEmail # NULL
    /\ pc[r] = "consume" /\ op[r] = "delete" => ~entity[r].deleted
    /\ pc[r] \in Saving => op[r] \notin {"none", "session"}
    /\ pc[r] \in Writing => reloaded[r] \in User
    /\ pc[r] \in {"written", "issued"} => op[r] # "fail"
    /\ examined[r] <= now

(* A step keeps what requests have read of the account. *)
LEMMA RequestsStep ==
    ASSUME TypeOK, RequestsOK, [Next]_vars
    PROVE  RequestsOK'
<1>0. \A s \in Requests : RequestOK(s)
  BY DEF RequestsOK, RequestOK
<1>a. SUFFICES ASSUME NEW s \in Requests PROVE RequestOK(s)'
  BY DEF RequestsOK, RequestOK
<1> USE DEF TypeOK
<1>1. ASSUME NEW r \in Requests, Prepares(r) PROVE RequestOK(s)'
  <2>1. PICK o, p, e, step, time : Prepared(r, o, p, e, step, time)
    BY <1>1, Preparations
  <2>2. /\ op' = [op EXCEPT ![r] = o] /\ entity' = [entity EXCEPT ![r] = e]
        /\ purpose' = [purpose EXCEPT ![r] = p]
        /\ pc' = [pc EXCEPT ![r] = step] /\ examined' = [examined EXCEPT ![r] = time]
        /\ UNCHANGED <<user, now, reloaded, outcome>>
        /\ time \in 0..now /\ pc[r] # "done"
    BY <2>1 DEF Prepared, GoOn
  <2>3. Fits(o, p, e, step)
    BY <2>1 DEF Prepared
  <2>4. CASE s = r
    BY <1>0, <2>2, <2>3, <2>4 DEF RequestOK, Fits, Confirming, Writing, Saving
  <2>5. CASE s # r
    BY <1>0, <2>2, <2>5 DEF RequestOK
  <2>6. QED
    BY <2>4, <2>5
<1>2. ASSUME NEW r \in Requests, NEW o, Ends(r, o) PROVE RequestOK(s)'
  BY <1>0, <1>2 DEF Ends, Finish, histVars, RequestOK, Confirming, Writing, Saving
<1>3. ASSUME NEW r \in Requests, NEW p, NEW box, NEW step, Moves(r, p, box, step) PROVE RequestOK(s)'
  <2>1. p \in {NULL} \cup Purposes(op[r])
    BY <1>0, <1>3 DEF Moves, RequestOK, Purposes
  <2>2. CASE s = r
    BY <1>0, <1>3, <2>1, <2>2 DEF Moves, histVars, RequestOK, Confirming, Writing, Saving
  <2>3. CASE s # r
    BY <1>0, <1>3, <2>3 DEF Moves, histVars, RequestOK
  <2>4. QED
    BY <2>2, <2>3
<1>4. ASSUME NEW r \in Requests, Reload(r) PROVE RequestOK(s)'
  BY <1>0, <1>4 DEF Reload, histVars, RequestOK, Confirming, Writing, Saving
<1>5. ASSUME NEW r \in Requests, RecordFailedLoginAttempt(r) \/ Commit(r) PROVE RequestOK(s)'
  <2>1. Stores(r)
    BY <1>5, WriteCases
  <2>2. QED
    BY <1>0, <2>1 DEF Stores, Finish, RequestOK, Confirming, Writing, Saving
<1>6. ASSUME NEW e \in Emails, RegisterElsewhere(e) PROVE RequestOK(s)'
  BY <1>0, <1>6 DEF RegisterElsewhere, reqVars, histVars, RequestOK
<1>7. ASSUME Tick PROVE RequestOK(s)'
  BY <1>0, <1>7 DEF Tick, reqVars, histVars, RequestOK
<1>8. ASSUME UNCHANGED vars PROVE RequestOK(s)'
  BY <1>0, <1>8 DEF vars, reqVars, histVars, RequestOK
<1>9. QED
  BY <1>1, <1>2, <1>3, <1>4, <1>5, <1>6, <1>7, <1>8, StepCases

(* An UPDATE waits until nobody else has the row locked.                   *)
LEMMA LocksStep ==
    ASSUME TypeOK, RequestsOK, LocksOK, [Next]_vars
    PROVE  LocksOK'
<1> USE DEF TypeOK
<1>a. ASSUME NEW r \in Requests, Writes(r) => \A s \in Requests \ {r} : ~HoldsUser(s),
             \A s \in Requests \ {r} : HoldsUser(s)' => HoldsUser(s),
             HoldsUser(r)' => Writes(r)
      PROVE  LocksOK'
  BY <1>a DEF LocksOK
<1>b. ASSUME \A s \in Requests : HoldsUser(s)' => HoldsUser(s) PROVE LocksOK'
  BY <1>b DEF LocksOK
<1>1. ASSUME NEW r \in Requests, Prepares(r) PROVE LocksOK'
  <2>1. PICK o, p, e, step, time : Prepared(r, o, p, e, step, time)
    BY <1>1, Preparations
  <2>2. /\ entity' = [entity EXCEPT ![r] = e]
        /\ pc' = [pc EXCEPT ![r] = step] /\ reloaded' = reloaded
        /\ step \notin {"written", "issued"}
    BY <2>1 DEF Prepared, GoOn, Fits
  <2>3. QED
    BY <1>b, <2>2 DEF HoldsUser, Writes
<1>2. ASSUME NEW r \in Requests, NEW o, Ends(r, o) PROVE LocksOK'
  BY <1>2, <1>b DEF Ends, Finish, HoldsUser, Writes
<1>3. ASSUME NEW r \in Requests, NEW p, NEW box, NEW step, Moves(r, p, box, step)
      PROVE  LocksOK'
  <2>1. /\ pc' = [pc EXCEPT ![r] = step] /\ UNCHANGED <<entity, reloaded>>
        /\ \A s \in Requests : Writes(s)' = Writes(s)
    BY <1>3 DEF Moves, Writes
  <2>2. CASE pc[r] = "update"
    BY <1>3, <1>a, <2>1, <2>2 DEF Moves, HoldsUser
  <2>3. CASE pc[r] # "update"
    BY <1>3, <1>b, <2>1, <2>3 DEF Moves, HoldsUser
  <2>4. QED
    BY <2>2, <2>3
<1>4. ASSUME NEW r \in Requests, Reload(r) PROVE LocksOK'
  BY <1>4, <1>b DEF Reload, HoldsUser, Writes
<1>5. ASSUME NEW r \in Requests, RecordFailedLoginAttempt(r) \/ Commit(r) PROVE LocksOK'
  BY <1>5, <1>b, WriteCases DEF Stores, Finish, HoldsUser, Writes
<1>6. ASSUME NEW e \in Emails, RegisterElsewhere(e) PROVE LocksOK'
  BY <1>6, <1>b DEF RegisterElsewhere, reqVars, HoldsUser, Writes
<1>7. ASSUME Tick PROVE LocksOK'
  BY <1>7, <1>b DEF Tick, reqVars, HoldsUser, Writes
<1>8. ASSUME UNCHANGED vars PROVE LocksOK'
  BY <1>8, <1>b DEF vars, reqVars, HoldsUser, Writes
<1>9. QED
  BY <1>1, <1>2, <1>3, <1>4, <1>5, <1>6, <1>7, <1>8, StepCases

-----------------------------------------------------------------------------
(* The columns of the row, however requests overlap. *)

(* More wrong passwords earn no less. *)
LEMMA HoldsMore ==
    ASSUME NEW r \in Requests, NEW n \in Nat, NEW m \in Nat, n <= m, Holds(r, n),
           MaxAttempts \in Nat
    PROVE  Holds(r, m)
BY DEF Holds, Earned, User

(* Who ends without a wrong password leaves their number alone. *)
LEMMA WrongSame ==
    ASSUME TypeOK, RequestsOK, NEW r \in Requests,
           \/ UNCHANGED outcome
           \/ pc[r] # "done" /\ \E o : o # "wrong" /\ outcome' = [outcome EXCEPT ![r] = o]
    PROVE  Wrong' = Wrong
BY DEF TypeOK, RequestsOK, Wrong

(* A step keeps every version of the account whole and its lockout earned. *)
LEMMA RowsStep ==
    ASSUME TypeOK, RequestsOK, RowsOK, [Next]_vars
    PROVE  RowsOK'
<1>n. PICK n : n = Cardinality(Wrong)
  OBVIOUS
<1>0. /\ n \in Nat /\ MaxAttempts \in Nat
      /\ \A s \in InFlight : Holds(s, n)
      /\ IsFiniteSet(Wrong) /\ Whole(user) /\ Earned(user, n)
  BY <1>n, BoundsAssumption, FS_CardinalityType DEF RowsOK
<1>a. ASSUME Wrong' = Wrong, user' = user, \A s \in InFlight' : Holds(s, n)'
      PROVE  RowsOK'
  <2>1. n = Cardinality(Wrong')
    BY <1>n, <1>a
  <2>2. \A s \in InFlight' : Holds(s, Cardinality(Wrong))'
    BY <1>a, <2>1 DEF Holds
  <2>3. QED
    BY <1>0, <1>a, <2>1, <2>2 DEF RowsOK, Whole, Earned
<1>b. ASSUME NEW s \in Requests, s \in InFlight,
             entity'[s] = entity[s], op'[s] = op[s],
             pc'[s] \in Writing => \/ pc[s] \in Writing /\ reloaded'[s] = reloaded[s]
                                   \/ reloaded'[s] = user
      PROVE  Holds(s, n)'
  <2>1. Holds(s, n)
    BY <1>0, <1>b
  <2>2. QED
    BY <1>0, <1>b, <2>1 DEF Holds
<1>1. ASSUME NEW r \in Requests, Prepares(r) PROVE RowsOK'
  <2>1. PICK o, p, e, step, time : Prepared(r, o, p, e, step, time)
    BY <1>1, Preparations
  <2>2. /\ op' = [op EXCEPT ![r] = o] /\ entity' = [entity EXCEPT ![r] = e]
        /\ pc' = [pc EXCEPT ![r] = step]
        /\ UNCHANGED <<user, reloaded, outcome>>
    BY <2>1 DEF Prepared, GoOn
  <2>3. e \in User => Whole(e) /\ Earned(e, Counts(o, n))
    BY <1>n, <2>1 DEF Prepared
  <2>4. Wrong' = Wrong
    BY <2>2 DEF Wrong
  <2>5. ASSUME NEW s \in InFlight' PROVE Holds(s, n)'
    <3>1. CASE s # r
      <4>1. s \in InFlight /\ s \in Requests
        BY <2>2, <2>5, <3>1 DEF InFlight, TypeOK
      <4>2. QED
        BY <1>b, <2>2, <3>1, <4>1 DEF TypeOK
    <3>2. CASE s = r
      <4>1. step \notin Writing
        BY <2>1 DEF Prepared, Fits, Writing
      <4>2. QED
        BY <2>1, <2>2, <2>3, <3>2, <4>1 DEF Prepared, TypeOK, Holds, Counts
    <3>3. QED
      BY <3>1, <3>2
  <2>6. QED
    BY <1>a, <2>2, <2>4, <2>5
<1>2. ASSUME NEW r \in Requests, NEW o, Ends(r, o) PROVE RowsOK'
  <2>1. Wrong' = Wrong
    BY <1>2, WrongSame DEF Ends, Finish
  <2>2. InFlight' \subseteq InFlight
    BY <1>2 DEF Ends, Finish, InFlight, TypeOK
  <2>3. QED
    BY <1>2, <1>a, <1>b, <2>1, <2>2 DEF Ends, Finish, InFlight, Writing, TypeOK
<1>3. ASSUME NEW r \in Requests, NEW p, NEW box, NEW step, Moves(r, p, box, step) PROVE RowsOK'
  <2>1. Wrong' = Wrong /\ InFlight' \subseteq InFlight
    BY <1>3 DEF Moves, Wrong, InFlight, TypeOK
  <2>2. QED
    BY <1>3, <1>a, <1>b, <2>1 DEF Moves, InFlight, Writing, TypeOK
<1>4. ASSUME NEW r \in Requests, Reload(r) PROVE RowsOK'
  <2>1. Wrong' = Wrong /\ InFlight' \subseteq InFlight
    BY <1>4 DEF Reload, Wrong, InFlight, TypeOK
  <2>2. \A s \in Requests : pc'[s] \in Writing =>
            (pc[s] \in Writing /\ reloaded'[s] = reloaded[s]) \/ reloaded'[s] = user
    BY <1>4 DEF Reload, TypeOK
  <2>3. QED
    BY <1>4, <1>a, <1>b, <2>1, <2>2 DEF Reload, InFlight
<1>5. ASSUME NEW r \in Requests, RecordFailedLoginAttempt(r) \/ Commit(r) PROVE RowsOK'
  <2>m. PICK m : m = Cardinality(Wrong')
    OBVIOUS
  <2>1. /\ Stores(r) /\ entity[r] \in User /\ reloaded[r] \in User /\ user \in User
        /\ r \in InFlight
    BY <1>5, WriteCases DEF TypeOK, Stores, InFlight, Writing
  <2>2. Whole(entity[r]) /\ Earned(entity[r], Counts(op[r], n)) /\ Whole(reloaded[r])
    BY <1>0, <2>1 DEF Holds, Counts, Stores
  <2>3. IsFiniteSet(Wrong') /\ m \in Nat /\ n <= m /\ Counts(op[r], n) <= m
    <3>1. CASE op[r] = "fail"
      <4>1. Wrong' = Wrong \cup {r} /\ r \notin Wrong
        BY <2>1, <3>1 DEF Stores, Finish, Wrong, TypeOK, RequestsOK, InFlight
      <4>2. QED
        BY <1>n, <1>0, <2>m, <3>1, <4>1, FS_AddElement DEF Counts
    <3>2. CASE op[r] # "fail"
      <4>1. op[r] # "wrong" /\ pc[r] # "done"
        BY <2>1 DEF TypeOK, InFlight
      <4>2. Wrong' = Wrong
        BY <2>1, <3>2, <4>1, WrongSame DEF Stores, Finish
      <4>3. QED
        BY <1>n, <1>0, <2>m, <3>2, <4>2 DEF Counts
    <3>3. QED
      BY <3>1, <3>2
  <2>4. /\ user' = Saved(user, reloaded[r], entity[r])
        /\ user'.deleted =
              IF entity[r].deleted # reloaded[r].deleted THEN entity[r].deleted ELSE user.deleted
        /\ user'.tokenVersion =
              IF entity[r].tokenVersion # reloaded[r].tokenVersion THEN entity[r].tokenVersion
              ELSE user.tokenVersion
        /\ user'.failed \in {entity[r].failed, user.failed}
        /\ user'.lockedUntil \in {entity[r].lockedUntil, user.lockedUntil}
    BY <2>1, SavedRow DEF Stores, Result
  <2>5. Whole(user')
    BY <1>0, <2>1, <2>2, <2>4 DEF Whole, User
  <2>6. Earned(user', m)
    BY <1>0, <2>1, <2>2, <2>3, <2>4 DEF Earned, User, Counts
  <2>7. ASSUME NEW s \in InFlight' PROVE Holds(s, m)'
    <3>1. s \in InFlight /\ s \in Requests
      BY <2>1, <2>7 DEF Stores, Finish, InFlight, TypeOK
    <3>2. Holds(s, m)
      BY <1>0, <2>3, <3>1, HoldsMore
    <3>3. QED
      BY <2>1, <2>7, <3>1, <3>2 DEF Stores, Finish, Holds, InFlight, TypeOK
  <2>8. \A s \in InFlight' : Holds(s, Cardinality(Wrong))'
    BY <2>m, <2>7 DEF Holds
  <2>9. QED
    BY <2>m, <2>3, <2>5, <2>6, <2>8 DEF RowsOK, Whole, Earned
<1>6. ASSUME NEW e \in Emails, RegisterElsewhere(e) PROVE RowsOK'
  BY <1>6, <1>a, <1>b DEF RegisterElsewhere, reqVars, histVars, InFlight, Wrong
<1>7. ASSUME Tick PROVE RowsOK'
  BY <1>7, <1>a, <1>b DEF Tick, reqVars, histVars, InFlight, Wrong
<1>8. ASSUME UNCHANGED vars PROVE RowsOK'
  BY <1>8, <1>a, <1>b DEF vars, reqVars, histVars, InFlight, Wrong
<1>9. QED
  BY <1>1, <1>2, <1>3, <1>4, <1>5, <1>6, <1>7, <1>8, StepCases

-----------------------------------------------------------------------------
(* As long as no two requests have overlapped. *)

(* While only r is under way, the rest of AloneOK is about r alone. *)
LEMMA AloneSame ==
    ASSUME TypeOK, AloneOK, NEW r \in Requests,
           InFlight \subseteq {r}, InFlight' \subseteq {r},
           UNCHANGED <<user, changeCode, streak>>,
           Wrong' = Wrong, \A s \in Wrong : examined'[s] = examined[s],
           r \in InFlight' => Sees(r)'
    PROVE  AloneOK'
BY DEF AloneOK, Blank

(* A step of a request nobody overlaps keeps what it read current. *)
LEMMA AloneStep ==
    ASSUME TypeOK, RequestsOK, ~overlapped => AloneOK, [Next]_vars, ~overlapped'
    PROVE  AloneOK'
<1>0. ~overlapped => AloneOK
  OBVIOUS
<1>a. ASSUME NEW r \in InFlight, AloneOK PROVE InFlight = {r} /\ Sees(r)
  BY <1>a DEF AloneOK
<1>1. ASSUME NEW r \in Requests, Prepares(r) PROVE AloneOK'
  <2>1. PICK o, p, e, step, time : Prepared(r, o, p, e, step, time)
    BY <1>1, Preparations
  <2>2. /\ op' = [op EXCEPT ![r] = o] /\ entity' = [entity EXCEPT ![r] = e]
        /\ pc' = [pc EXCEPT ![r] = step] /\ examined' = [examined EXCEPT ![r] = time]
        /\ overlapped' = (overlapped \/ InFlight \ {r} # {})
        /\ UNCHANGED <<user, changeCode, mailbox, outcome, streak>>
        /\ step \in {"verify", "authenticated", "confirm", "consume", "insert", "save"}
        /\ step = "consume" => o # "change"
        /\ pc[r] # "done"
    BY <2>1 DEF Prepared, GoOn, Fits
  <2>3. ~overlapped /\ AloneOK /\ InFlight \subseteq {r}
    BY <1>0, <2>2
  <2>4. InFlight' \subseteq {r} /\ Wrong' = Wrong /\ r \notin Wrong
    BY <2>2, <2>3 DEF InFlight, TypeOK, Wrong, RequestsOK
  <2>5. \A s \in Wrong : s \in Requests /\ examined'[s] = examined[s]
    BY <2>2, <2>4 DEF Wrong, TypeOK
  <2>6. SeesAlone(o, e, step, mailbox[r], time)
    BY <2>1, <2>3 DEF Prepared
  <2>7. Intends(o, e, mailbox[r], time) => Intends(o, e, mailbox[r], time)'
    BY <2>2, <2>4, <2>5 DEF Intends
  <2>8. Sees(r)'
    BY <2>2, <2>6, <2>7 DEF Sees, SeesAlone, Confirming, Saving, Writing, TypeOK
  <2>9. QED
    BY <2>2, <2>3, <2>4, <2>5, <2>8, AloneSame
<1>2. ASSUME NEW r \in Requests, NEW o, Ends(r, o) PROVE AloneOK'
  <2>1. Wrong' = Wrong /\ InFlight' = InFlight \ {r} /\ ~overlapped
        /\ UNCHANGED <<user, changeCode, streak, examined, op, entity, reloaded, mailbox>>
        /\ AloneOK /\ \A s \in InFlight' : pc'[s] = pc[s]
    BY <1>0, <1>2, WrongSame DEF Ends, Finish, InFlight, TypeOK, histVars
  <2>2. CASE InFlight \ {r} = {}
    BY <2>1, <2>2, AloneSame
  <2>3. CASE InFlight \ {r} # {}
    <3>1. PICK s : s \in InFlight \ {r}
      BY <2>3
    <3>2. InFlight \subseteq {s} /\ s \in Requests /\ Sees(s)
      BY <1>a, <2>1, <3>1 DEF InFlight
    <3>3. Sees(s)'
      BY <2>1, <3>1, <3>2 DEF Sees, Intends, Blank
    <3>4. QED
      BY <2>1, <3>2, <3>3, AloneSame
  <2>4. QED
    BY <2>2, <2>3
<1>3. ASSUME NEW r \in Requests, NEW p, NEW box, NEW step, Moves(r, p, box, step) PROVE AloneOK'
  <2>1. /\ r \in InFlight /\ Wrong' = Wrong /\ InFlight' = InFlight /\ ~overlapped
        /\ UNCHANGED <<user, changeCode, streak, examined, op, entity, reloaded>>
        /\ pc' = [pc EXCEPT ![r] = step] /\ mailbox' = [mailbox EXCEPT ![r] = box]
    BY <1>3 DEF Moves, Wrong, InFlight, TypeOK, histVars
  <2>2. AloneOK /\ InFlight = {r} /\ Sees(r)
    BY <1>0, <1>a, <2>1
  <2>3. CASE pc[r] = "confirm"
    <3>1. step = "consume" /\ box = changeCode /\ entity[r].pendingEmail # NULL
      BY <1>3, <2>3 DEF Moves, RequestsOK, Confirming
    <3>2. entity[r] = user /\ ~user.deleted /\ box = user.pendingEmail
      BY <2>2, <2>3, <3>1 DEF Sees, Confirming, AloneOK
    <3>3. Sees(r)'
      BY <2>1, <3>1, <3>2 DEF Sees, Confirming, Saving, Writing, TypeOK
    <3>4. QED
      BY <2>1, <2>2, <3>3, AloneSame
  <2>4. CASE pc[r] # "confirm"
    <3>1. pc[r] \in Writing /\ step \in Writing /\ box = mailbox[r] /\ r \notin Wrong
      BY <1>3, <2>4 DEF Moves, Writing, Wrong, RequestsOK
    <3>2. PICK e : e = entity[r]
      OBVIOUS
    <3>3. Intends(op[r], e, mailbox[r], examined[r]) /\ reloaded[r] = user
      BY <2>2, <3>1, <3>2 DEF Sees, Saving
    <3>4. Intends(op[r], entity[r], mailbox[r], examined[r])'
      BY <2>1, <3>1, <3>2, <3>3 DEF Intends, TypeOK, Blank
    <3>5. Sees(r)'
      BY <2>1, <3>1, <3>3, <3>4 DEF Sees, Confirming, Saving, Writing, TypeOK
    <3>6. QED
      BY <2>1, <2>2, <3>5, AloneSame
  <2>5. QED
    BY <2>3, <2>4
<1>4. ASSUME NEW r \in Requests, Reload(r) PROVE AloneOK'
  <2>1. /\ r \in InFlight /\ Wrong' = Wrong /\ InFlight' = InFlight /\ ~overlapped
        /\ UNCHANGED <<user, changeCode, streak, examined, op, entity, mailbox>>
        /\ pc' = [pc EXCEPT ![r] = "update"] /\ reloaded' = [reloaded EXCEPT ![r] = user]
        /\ pc[r] = "save"
    BY <1>4 DEF Reload, Wrong, InFlight, TypeOK, histVars
  <2>2. AloneOK /\ InFlight = {r} /\ Sees(r)
    BY <1>0, <1>a, <2>1
  <2>3. Intends(op[r], entity[r], mailbox[r], examined[r])
    BY <2>1, <2>2 DEF Sees, Saving
  <2>4. Intends(op[r], entity[r], mailbox[r], examined[r])'
    BY <2>1, <2>3 DEF Intends, TypeOK, Blank
  <2>5. Sees(r)'
    BY <2>1, <2>4 DEF Sees, Confirming, Saving, Writing, TypeOK
  <2>6. QED
    BY <2>1, <2>2, <2>5, AloneSame
<1>5. ASSUME NEW r \in Requests, RecordFailedLoginAttempt(r) \/ Commit(r) PROVE AloneOK'
  <2>1. /\ Stores(r) /\ entity[r] \in User /\ user \in User /\ r \in InFlight
        /\ ~overlapped /\ outcome[r] = "none" /\ pc[r] \in Saving
    BY <1>5, WriteCases DEF TypeOK, RequestsOK, Stores, InFlight, Writing, Saving
  <2>2. AloneOK /\ InFlight = {r} /\ reloaded[r] = user
    BY <1>0, <1>a, <2>1 DEF Sees, Stores
  <2>3. Intends(op[r], entity[r], mailbox[r], examined[r])
    BY <1>a, <2>1, <2>2 DEF Sees
  <2>4. PICK e \in User : e = entity[r]
    BY <2>1
  <2>5. user' = e
    BY <2>1, <2>2, <2>4, SavedAlone DEF Stores, Result
  <2>6. InFlight' = {}
    BY <2>1, <2>2 DEF Stores, Finish, InFlight, TypeOK
  <2>7. streak' = e.failed
    BY <2>1, <2>2, <2>3, <2>4 DEF Stores, AloneOK, Intends, User
  <2>8. e.deleted => Blank(e)
    BY <2>3, <2>4 DEF Intends
  <2>9. e.pendingEmail # NULL => changeCode' = e.pendingEmail
    BY <2>1, <2>2, <2>3, <2>4 DEF Stores, AloneOK, Intends, CodeAfter
  <2>10. e.failed >= MaxAttempts =>
            \A s \in Wrong' : examined'[s] + Lockout <= e.lockedUntil
    <3> USE BoundsAssumption
    <3>1. CASE op[r] = "fail"
      <4>1. Wrong' = Wrong \cup {r} /\ examined' = examined
        BY <2>1, <3>1 DEF Stores, Finish, Wrong, TypeOK
      <4>2. \A s \in Wrong : examined[s] <= examined[r] /\ s \in Requests
        BY <2>3, <3>1 DEF Intends, Wrong
      <4>3. e.failed >= MaxAttempts => e.lockedUntil = examined[r] + Lockout
        BY <2>3, <2>4, <3>1 DEF Intends
      <4>4. QED
        BY <4>1, <4>2, <4>3 DEF TypeOK
    <3>2. CASE op[r] # "fail"
      <4>1. Wrong' = Wrong /\ examined' = examined
        BY <2>1, <3>2 DEF Stores, Finish, Wrong, TypeOK
      <4>2. CASE op[r] = "login"
        BY <2>3, <2>4, <4>2 DEF Intends
      <4>3. CASE op[r] # "login"
        <5>1. e.failed = user.failed /\ (e.failed >= MaxAttempts => e.lockedUntil = user.lockedUntil)
          BY <2>1, <2>3, <2>4, <3>2, <4>3 DEF Intends, User
        <5>2. QED
          BY <2>2, <4>1, <5>1 DEF AloneOK
      <4>4. QED
        BY <4>2, <4>3
    <3>3. QED
      BY <3>1, <3>2
  <2>11. QED
    BY <2>5, <2>6, <2>7, <2>8, <2>9, <2>10 DEF AloneOK, Blank
<1>6. ASSUME NEW e \in Emails, RegisterElsewhere(e) PROVE AloneOK'
  BY <1>0, <1>6 DEF RegisterElsewhere, reqVars, histVars, AloneOK, InFlight, Wrong, Sees, Intends, Blank
<1>7. ASSUME Tick PROVE AloneOK'
  BY <1>0, <1>7 DEF Tick, reqVars, histVars, AloneOK, InFlight, Wrong, Sees, Intends, Blank
<1>8. ASSUME UNCHANGED vars PROVE AloneOK'
  BY <1>0, <1>8 DEF vars, reqVars, histVars, AloneOK, InFlight, Wrong, Sees, Intends, Blank
<1>9. QED
  BY <1>1, <1>2, <1>3, <1>4, <1>5, <1>6, <1>7, <1>8, StepCases

-----------------------------------------------------------------------------
(* The theorems. *)

(* It holds of an account just registered. *)
LEMMA InitOK == Init => AccountIInv
<1> SUFFICES ASSUME Init PROVE AccountIInv
  OBVIOUS
<1> USE BoundsAssumption DEF Init
<1>1. PICK e \in Emails : user = Registered(e)
  OBVIOUS
<1>2. /\ user \in User
      /\ user.failed = 0 /\ user.lockedUntil = 0 /\ user.tokenVersion = 0
      /\ ~user.deleted /\ user.pendingEmail = NULL
  BY <1>1 DEF Registered, User
<1>3. TypeOK
  <2>1. overlapped \in BOOLEAN
    BY Zenon
  <2>2. now \in 0..MaxTime /\ examined \in [Requests -> 0..MaxTime] /\ streak \in Nat
    OBVIOUS
  <2>3. /\ changeCode \in Emails \cup {NULL} /\ others \in SUBSET Emails
        /\ entity \in [Requests -> User \cup {NULL}]
        /\ reloaded \in [Requests -> User \cup {NULL}]
        /\ mailbox \in [Requests -> Emails \cup {NULL}]
        /\ purpose \in [Requests -> {"REGISTER", "LOGIN", "EMAIL_CHANGE", "DELETE_ACCOUNT",
                                     NULL}]
    OBVIOUS
  <2>4. QED
    BY <1>2, <2>1, <2>2, <2>3 DEF TypeOK
<1>4. RequestsOK
  <2>1. \A r \in Requests : /\ pc[r] = "idle" /\ outcome[r] = "none"
                            /\ purpose[r] = NULL /\ examined[r] <= now
    OBVIOUS
  <2>2. QED
    BY ONLY <2>1 DEF RequestsOK, Confirming, Writing, Saving
<1>5. InFlight = {} /\ Wrong = {}
  BY DEF InFlight, Wrong
<1>6. RowsOK
  BY <1>2, <1>5, FS_EmptySet DEF RowsOK, Whole, Earned
<1>7. AloneOK
  BY <1>2, <1>5 DEF AloneOK
<1>8. LocksOK
  BY DEF LocksOK, HoldsUser
<1>9. QED
  BY <1>3, <1>4, <1>6, <1>7, <1>8 DEF AccountIInv

(* Types, what suspended handlers hold, what every version of the row has  *)
(* in common, and what a request nobody overlaps has seen: all of it stays *)
(* so in every step of login(), the confirmations, updateUser(), the email *)
(* change and the deletion.                                                *)
THEOREM AccountInvariance == Spec => []AccountIInv
<1>1. AccountIInv /\ [Next]_vars => AccountIInv'
  <2> SUFFICES ASSUME AccountIInv, [Next]_vars PROVE AccountIInv'
    OBVIOUS
  <2>1. TypeOK /\ RequestsOK /\ LocksOK /\ RowsOK /\ (~overlapped => AloneOK)
    BY DEF AccountIInv
  <2>2. TypeOK' /\ RequestsOK' /\ LocksOK' /\ RowsOK'
    BY <2>1, TypeStep, RequestsStep, LocksStep, RowsStep
  <2>3. ~overlapped' => AloneOK'
    BY <2>1, AloneStep
  <2>4. QED
    BY <2>2, <2>3 DEF AccountIInv
<1>2. QED
  BY <1>1, InitOK, PTL DEF Spec

(* deletedAt and tokenVersion change together however saves overlap.       *)
THEOREM DeletionAndVersion == Spec => []DeletionMovesVersion
<1>1. AccountIInv => DeletionMovesVersion
  BY DEF AccountIInv, RowsOK, Whole, DeletionMovesVersion
<1>2. QED
  BY <1>1, AccountInvariance, PTL

(* The lockout of login() comes after MaxAttempts wrong passwords at the   *)
(* earliest, however attempts overlap.                                     *)
THEOREM LockoutIsEarned == Spec => []NoFalseLockout
<1>1. AccountIInv => NoFalseLockout
  BY DEF AccountIInv, RowsOK, Earned, Wrong, NoFalseLockout
<1>2. QED
  BY <1>1, AccountInvariance, PTL

(* A step that changes the row is the end of a handler nobody overlapped,  *)
(* whose entity the row becomes.                                           *)
LEMMA ChangedAlone ==
    ASSUME AccountIInv, [Next]_vars, ~overlapped, user' # user
    PROVE  \E r \in Requests :
              /\ Stores(r) /\ outcome[r] = "none"
              /\ user' = entity[r]
              /\ Intends(op[r], entity[r], mailbox[r], examined[r])
<1>0. TypeOK /\ RequestsOK /\ AloneOK
  BY DEF AccountIInv
<1>1. PICK r \in Requests : RecordFailedLoginAttempt(r) \/ Commit(r)
  <2>1. ASSUME NEW r \in Requests, Prepares(r) PROVE user' = user
    <3>1. PICK o, p, e, step, time : Prepared(r, o, p, e, step, time)
      BY <1>0, <2>1, Preparations
    <3>2. QED
      BY <3>1 DEF Prepared, GoOn
  <2>2. QED
    BY <1>0, <2>1, StepCases
    DEF Ends, Moves, Reload, RegisterElsewhere, Tick, vars
<1>2. Stores(r) /\ entity[r] \in User /\ user \in User
  BY <1>0, <1>1, WriteCases DEF TypeOK
<1>3. r \in InFlight /\ pc[r] \in Saving /\ outcome[r] = "none"
  BY <1>0, <1>2 DEF Stores, InFlight, Writing, Saving, RequestsOK
<1>4. Intends(op[r], entity[r], mailbox[r], examined[r]) /\ reloaded[r] = user
  BY <1>0, <1>2, <1>3 DEF AloneOK, Sees, Stores
<1>5. user' = entity[r]
  BY <1>2, <1>4, SavedAlone DEF Stores, Result
<1>6. QED
  BY <1>2, <1>3, <1>4, <1>5

(* Without overlap a deletion is final and leaves no address.              *)
THEOREM DeletionsAreFinal == Spec => DeletionIsFinalAlone
<1>1. AccountIInv /\ [Next]_vars => 
        [~overlapped /\ user.deleted =>
            user'.deleted /\ {user'.email, user'.pendingEmail} \cap Emails = {}]_vars
  <2> SUFFICES ASSUME AccountIInv, [Next]_vars, ~overlapped, user.deleted
               PROVE  user'.deleted /\ {user'.email, user'.pendingEmail} \cap Emails = {}
    OBVIOUS
  <2>1. user.deleted /\ Blank(user)
    BY DEF AccountIInv, AloneOK
  <2>2. user'.deleted /\ user'.email = Anonymous /\ user'.pendingEmail = NULL
    <3>1. CASE user' = user
      BY <2>1, <3>1 DEF Blank
    <3>2. CASE user' # user
      BY <3>2, ChangedAlone DEF Intends, Blank
    <3>3. QED
      BY <3>1, <3>2
  <2>3. QED
    BY <2>2, AddressAssumption
<1>2. QED
  BY <1>1, AccountInvariance, PTL DEF Spec, DeletionIsFinalAlone

(* Without overlap MaxAttempts wrong passwords in a row keep everybody out *)
(* for Lockout ticks.                                                      *)
THEOREM LockoutsHold == Spec => LockoutHoldsAlone
<1>1. AccountIInv /\ [Next]_vars =>
        [\A r \in Requests :
          /\ ~overlapped /\ streak >= MaxAttempts
          /\ pc[r] = "idle" /\ pc'[r] = "verify"
          => \A s \in Requests : outcome[s] = "wrong" => now >= examined[s] + Lockout]_vars
  <2> SUFFICES ASSUME AccountIInv, [Next]_vars, NEW r \in Requests,
                      ~overlapped, streak >= MaxAttempts,
                      pc[r] = "idle", pc'[r] = "verify",
                      NEW s \in Requests, outcome[s] = "wrong"
               PROVE  now >= examined[s] + Lockout
    OBVIOUS
  <2>0. TypeOK /\ RequestsOK
    BY DEF AccountIInv
  <2>1. ~LockedOut(user)
    <3>1. ASSUME NEW q \in Requests, Prepares(q) PROVE ~LockedOut(user)
      <4>1. PICK o, p, e, step, time : Prepared(q, o, p, e, step, time)
        BY <2>0, <3>1, Preparations
      <4>2. pc' = [pc EXCEPT ![q] = step]
        BY <4>1 DEF Prepared, GoOn
      <4>3. step = "verify"
        BY <2>0, <4>2 DEF TypeOK
      <4>4. QED
        BY <4>1, <4>3 DEF Prepared
    <3>2. ASSUME NEW q \in Requests,
                 \/ \E o : Ends(q, o)
                 \/ \E p, box, step : Moves(q, p, box, step)
                 \/ Reload(q) \/ RecordFailedLoginAttempt(q) \/ Commit(q)
          PROVE  FALSE
      <4>1. \E step \in {"done", "update", "consume", "written", "issued"} :
                pc' = [pc EXCEPT ![q] = step]
        BY <3>2 DEF Ends, Moves, Reload, RecordFailedLoginAttempt, Commit, Finish
      <4>2. QED
        BY <2>0, <4>1 DEF TypeOK
    <3>3. pc' # pc
      OBVIOUS
    <3>4. QED
      BY <2>0, <3>1, <3>2, <3>3, StepCases DEF RegisterElsewhere, Tick, vars, reqVars
  <2>2. examined[s] + Lockout <= user.lockedUntil
    BY DEF AccountIInv, AloneOK, Wrong
  <2>3. QED
    BY <2>1, <2>2, BoundsAssumption DEF AccountIInv, TypeOK, User, LockedOut
<1>2. QED
  BY <1>1, AccountInvariance, PTL DEF Spec, LockoutHoldsAlone

(* Without overlap an address is changed only with the code sent to it, by *)
(* an administrator or by the deletion.                                    *)
THEOREM AddressesAreProved == Spec => AddressIsProvedAlone
<1>1. AccountIInv /\ [Next]_vars =>
        [~overlapped /\ user'.email # user.email =>
          \E r \in Requests :
              /\ outcome[r] = "none"
              /\ \/ outcome'[r] = "change" /\ mailbox[r] = user'.email
                 \/ outcome'[r] = "profile"
                 \/ outcome'[r] = "delete" /\ user'.email = Anonymous]_vars
  <2> SUFFICES ASSUME AccountIInv, [Next]_vars, ~overlapped, user'.email # user.email
               PROVE  \E r \in Requests :
                        /\ outcome[r] = "none"
                        /\ \/ outcome'[r] = "change" /\ mailbox[r] = user'.email
                           \/ outcome'[r] = "profile"
                           \/ outcome'[r] = "delete" /\ user'.email = Anonymous
    OBVIOUS
  <2>1. PICK r \in Requests : /\ Stores(r) /\ outcome[r] = "none"
                              /\ user' = entity[r]
                              /\ Intends(op[r], entity[r], mailbox[r], examined[r])
    BY ChangedAlone
  <2>2. op[r] \in {"change", "profile", "delete"}
    BY <2>1 DEF Intends
  <2>3. outcome'[r] = op[r]
    BY <2>1, <2>2 DEF Stores, Finish, AccountIInv, TypeOK
  <2>4. QED
    BY <2>1, <2>2, <2>3 DEF Intends
<1>2. QED
  BY <1>1, AccountInvariance, PTL DEF Spec, AddressIsProvedAlone

(* Two transactions that wait for each other: one has written the users    *)
(* row and issues a code that the other has consumed and goes on from.     *)
LEMMA CircleShape ==
    ASSUME AccountIInv, NEW r \in Requests, NEW s \in Requests,
           Waits(r, s), Waits(s, r)
    PROVE  \E h, c \in {r, s} :
              /\ {h, c} = {r, s}
              /\ HoldsUser(h) /\ WantsCode(h) /\ HoldsCode(c) /\ purpose[h] = purpose[c]
              /\ WantsUser(c) \/ WantsKey(c)
<1>1. CASE WantsCode(r)
  <2>1. ~WantsUser(r) /\ ~WantsKey(r)
    BY <1>1 DEF WantsCode, WantsUser, WantsKey
  <2>2. ~HoldsCode(r)
    BY <1>1 DEF WantsCode, HoldsCode
  <2>3. QED
    BY <2>1, <2>2 DEF Waits, HoldsKey
<1>2. CASE ~WantsCode(r)
  <2>1. WantsUser(r) \/ WantsKey(r)
    BY <1>2 DEF Waits
  <2>2. ~HoldsUser(r)
    BY <2>1 DEF WantsUser, WantsKey, HoldsUser
  <2>3. QED
    BY <1>2, <2>1, <2>2 DEF Waits, HoldsKey
<1>3. QED
  BY <1>1, <1>2

(* However requests overlap, they never wait for each other but in one of  *)
(* three circles of two: a login with the confirmation of the registration *)
(* or of another login, and the initiation of an email change with its     *)
(* confirmation.  The users row has one holder, which waits for at most    *)
(* one code; who holds that one waits for nobody, or for the holder of the *)
(* row, and then PostgreSQL ends one of the two.                           *)
THEOREM OnlyKnownCirclesWait == Spec => [](SomeoneIsReady /\ OnlyKnownCircles)
<1>1. AccountIInv => SomeoneIsReady
  <2> SUFFICES ASSUME AccountIInv, NEW r \in InFlight PROVE \E s \in InFlight : Ready(s)
    BY DEF SomeoneIsReady
  <2>1. LocksOK /\ r \in Requests
    BY DEF AccountIInv, InFlight
  <2>2. ASSUME NEW s \in Requests, HoldsUser(s) \/ HoldsCode(s) PROVE s \in InFlight
    BY <2>2 DEF HoldsUser, HoldsCode, InFlight
  <2>3. ASSUME NEW h \in Requests, HoldsUser(h) PROVE \E s \in InFlight : Ready(s)
    <3>1. h \in InFlight
      BY <2>2, <2>3
    <3>2. CASE ~Free(h)
      <4>1. PICK c \in Requests : Waits(h, c)
        BY <3>2 DEF Free
      <4>2. HoldsCode(c)
        BY <2>3, <4>1 DEF Waits, WantsUser, WantsKey, HoldsUser
      <4>3. CASE Free(c)
        BY <2>2, <4>2, <4>3 DEF Ready
      <4>4. CASE ~Free(c)
        <5>1. PICK t \in Requests : Waits(c, t)
          BY <4>4 DEF Free
        <5>2. ~WantsCode(c)
          BY <4>2 DEF HoldsCode, WantsCode
        <5>3. HoldsUser(t)
          BY <5>1, <5>2 DEF Waits, HoldsKey
        <5>4. t = h
          BY <2>1, <2>3, <5>3 DEF LocksOK
        <5>5. Victim(h)
          BY <4>1, <5>1, <5>4 DEF Victim
        <5>6. QED
          BY <3>1, <5>5 DEF Ready
      <4>5. QED
        BY <4>3, <4>4
    <3>3. QED
      BY <3>1, <3>2 DEF Ready
  <2>4. ASSUME NEW c \in Requests, HoldsCode(c) PROVE \E s \in InFlight : Ready(s)
    <3>1. CASE ~Free(c)
      <4>1. PICK t \in Requests : Waits(c, t)
        BY <3>1 DEF Free
      <4>2. HoldsUser(t)
        BY <2>4, <4>1 DEF Waits, HoldsKey, HoldsCode, WantsCode
      <4>3. QED
        BY <2>3, <4>2
    <3>2. QED
      BY <2>2, <2>4, <3>1 DEF Ready
  <2>5. CASE ~Free(r)
    <3>1. PICK s \in Requests : Waits(r, s)
      BY <2>1, <2>5 DEF Free
    <3>2. HoldsUser(s) \/ HoldsCode(s)
      BY <3>1 DEF Waits, HoldsKey
    <3>3. QED
      BY <2>3, <2>4, <3>2
  <2>6. QED
    BY <2>5 DEF Ready
<1>2. AccountIInv => OnlyKnownCircles
  <2> SUFFICES ASSUME AccountIInv, NEW r \in Requests, NEW s \in Requests,
                      Waits(r, s), Waits(s, r)
               PROVE  {op[r], op[s]} \in {{"login", "verified"}, {"login", "session"},
                                         {"initiate", "change"}}
    BY DEF OnlyKnownCircles
  <2>1. PICK h, c \in {r, s} :
              /\ {h, c} = {r, s}
              /\ HoldsUser(h) /\ WantsCode(h) /\ HoldsCode(c) /\ purpose[h] = purpose[c]
              /\ WantsUser(c) \/ WantsKey(c)
    BY CircleShape
  <2>2. h \in Requests /\ c \in Requests
    OBVIOUS
  <2>3. /\ op[h] \in Issuing /\ purpose[h] # NULL
        /\ purpose[h] \in Purposes(op[h])
    BY <2>1, <2>2 DEF HoldsUser, WantsCode, AccountIInv, RequestsOK
  <2>4. /\ op[c] \notin Issuing
        /\ purpose[c] \in Purposes(op[c])
    BY <2>1, <2>2 DEF HoldsCode, WantsUser, WantsKey, AccountIInv, RequestsOK
  <2>5. \/ op[h] = "login" /\ op[c] \in {"verified", "session"}
        \/ op[h] = "initiate" /\ op[c] = "change"
    BY <2>1, <2>3, <2>4 DEF Issuing, Purposes
  <2>6. {op[h], op[c]} = {op[r], op[s]}
    BY <2>1
  <2>7. QED
    BY <2>5, <2>6
<1>3. QED
  BY <1>1, <1>2, AccountInvariance, PTL
=============================================================================
