-------------------------- MODULE EmailVerification -------------------------
(***************************************************************************)
(* EmailVerificationService: the confirmation codes of one account for one *)
(* purpose, as used by AuthService and UsersService.                       *)
(*                                                                         *)
(* A request issues a code (register, login, email change, deletion),      *)
(* asks for it again, or submits one.  The service works on the row by     *)
(* reading it into an entity, changing the entity and saving it whole      *)
(* (TypeOrm); `issue' and a correct `confirm' run in the transaction of    *)
(* the request, a wrong submission is recorded in a transaction of its     *)
(* own, on a second connection.  A transaction keeps its connection until  *)
(* it ends, and whoever finds the pool empty waits without a timeout.      *)
(* Nothing in the database makes (userId, purpose) unique.                 *)
(***************************************************************************)
EXTENDS Integers, FiniteSets, TypeOrm

CONSTANTS
    Requests,      \* HTTP calls, each made once
    Codes,         \* generated codes; a code is not drawn twice
    RowIds,        \* primary keys
    MaxAttempts,   \* EMAIL_VERIFICATION_MAX_ATTEMPTS
    TTL,           \* EMAIL_VERIFICATION_TTL_MINUTES, in ticks
    Interval,      \* EMAIL_VERIFICATION_RESEND_INTERVAL_SECONDS, in ticks
    MaxTime,       \* bound on the clock
    PoolSize,      \* connections in the pool of the process
    MaxInFlight,   \* bound on overlapping requests for this slot
    NULL

ASSUME BoundsAssumption ==
    MaxAttempts \in Nat /\ TTL \in Nat /\ Interval \in Nat /\ MaxTime \in Nat
    /\ PoolSize \in Nat \ {0} /\ MaxInFlight \in Nat
ASSUME NullAssumption == NULL \notin Codes /\ NULL \notin RowIds

VARIABLES
    rows,        \* committed email_verifications rows of the slot
    now,         \* the clock
    pc,          \* where the request is suspended
    op,          \* what its save does: issue, resend, confirm or fail
    code,        \* code it draws, or reads from the row it confirms
    target,      \* primary key of the row it read, NULL if it found none
    entity,      \* the entity it is about to save
    reloaded,    \* the row as save() selected it again
    at,          \* when the request looked at the row
    outcome,     \* what the client was told
    issued,      \* history: codes of committed issues
    replaced,    \* history: codes older than a committed issue
    late         \* history: confirms that presented a replaced code

reqVars  == <<pc, op, code, target, entity, reloaded, at, outcome>>
histVars == <<issued, replaced, late>>
vars     == <<rows, now, reqVars, histVars>>

(* method, userId, purpose and createdAt never decide anything here, and   *)
(* expiresAt and lastSentAt are always written together from one instant.  *)
Row == [codeHash : Codes, sentAt : 0..MaxTime,
        attemptsUsed : 0..MaxAttempts, consumed : BOOLEAN]

ASSUME RowsAssumption == NULL \notin Row

Existing == {i \in RowIds : rows[i] # NULL}

Init ==
    /\ rows = [i \in RowIds |-> NULL]
    /\ now = 0
    /\ pc = [r \in Requests |-> "idle"]
    /\ op = [r \in Requests |-> "none"]
    /\ code = [r \in Requests |-> NULL]
    /\ target = [r \in Requests |-> NULL]
    /\ entity = [r \in Requests |-> NULL]
    /\ reloaded = [r \in Requests |-> NULL]
    /\ at = [r \in Requests |-> 0]
    /\ outcome = [r \in Requests |-> "none"]
    /\ issued = {} /\ replaced = {} /\ late = {}

Finish(r, o) == /\ pc' = [pc EXCEPT ![r] = "done"]
                /\ outcome' = [outcome EXCEPT ![r] = o]

InFlight == {r \in Requests : pc[r] \notin {"idle", "done"}}

(* Every transaction of a request holds a connection, and so does the      *)
(* second transaction of a wrong submission.                               *)
Recording == {r \in InFlight : op[r] = "fail" /\ pc[r] # "waiting"}
FreeConnections == PoolSize - Cardinality(InFlight) - Cardinality(Recording)

Arrives(r) ==
    /\ pc[r] = "idle"
    /\ Cardinality(InFlight) < MaxInFlight
    /\ FreeConnections > 0

(* Mutant: issue() always creates a row. *)
FoundNothing == {NULL}

(* findOneBy({ userId, purpose }): any of the rows, NULL if there is none. *)
Found == IF Existing = {} THEN {NULL} ELSE Existing

(* An open transaction that has updated the row keeps it locked. *)
Locked(i) ==
    \E r \in Requests : pc[r] = "written" /\ target[r] = i

-----------------------------------------------------------------------------
Issuing == {"issue", "resend"}

(* No two calls draw the same code, nor the same millisecond, except where *)
(* the clock is at its bound and nothing expires any more.                 *)
Fresh(c) == \A s \in Requests :
               /\ code[s] # c
               /\ op[s] \in Issuing /\ now < MaxTime => at[s] # now

(* issue(): a new code is drawn and the row, if any, is read. *)
FindForIssue(r, o, c, i) ==
    /\ Fresh(c)
    /\ i \in Found
    /\ op' = [op EXCEPT ![r] = o]
    /\ code' = [code EXCEPT ![r] = c]
    /\ target' = [target EXCEPT ![r] = i]
    /\ entity' = [entity EXCEPT ![r] =
                    [codeHash |-> c, sentAt |-> now, attemptsUsed |-> 0, consumed |-> FALSE]]
    /\ at' = [at EXCEPT ![r] = now]
    /\ pc' = [pc EXCEPT ![r] = IF i = NULL THEN "insert" ELSE "save"]
    /\ UNCHANGED <<rows, now, reloaded, outcome, histVars>>

Issue(r, c, i) == Arrives(r) /\ FindForIssue(r, "issue", c, i)

(* Mutant: the interval is over one tick early. *)
MayResendEarly(row) == now - row.sentAt >= Interval - 1

(* canResend(): what a consumed or missing code, or a recent one, answers. *)
MayResend(row) == now - row.sentAt >= Interval

RefuseResend(r) ==
    /\ Arrives(r)
    /\ \/ Existing = {}
       \/ \E i \in Existing : rows[i].consumed \/ ~MayResend(rows[i])
    /\ Finish(r, "refused")
    /\ UNCHANGED <<rows, now, op, code, target, entity, reloaded, at, histVars>>

AllowResend(r) ==
    /\ Arrives(r)
    /\ \E i \in Existing : ~rows[i].consumed /\ MayResend(rows[i])
    /\ pc' = [pc EXCEPT ![r] = "resend"]
    /\ UNCHANGED <<rows, now, op, code, target, entity, reloaded, at, outcome,
                   histVars>>

Resend(r, c, i) == pc[r] = "resend" /\ FindForIssue(r, "resend", c, i)

(* Mutants: a consumed row is looked at again; one attempt or one tick too *)
(* many.                                                                   *)
PendingAlways(row)    == TRUE
ExhaustedLate(row)    == row.attemptsUsed > MaxAttempts
ExpiredLate(row)      == row.sentAt + TTL + 1 < now

(* confirm(): the row is read and its checks are made on what was read. *)
Pending(row)   == ~row.consumed
Exhausted(row) == row.attemptsUsed >= MaxAttempts
Expired(row)   == row.sentAt + TTL < now

RefuseConfirm(r) ==
    /\ Arrives(r)
    /\ \/ Existing = {}
       \/ \E i \in Existing :
             ~Pending(rows[i]) \/ Exhausted(rows[i]) \/ Expired(rows[i])
    /\ Finish(r, "refused")
    /\ UNCHANGED <<rows, now, op, code, target, entity, reloaded, at, histVars>>

(* The checks pass; o says whether the submitted code is the row's. *)
Examine(r, i, o, e) ==
    /\ Arrives(r)
    /\ i \in Existing
    /\ Pending(rows[i]) /\ ~Exhausted(rows[i]) /\ ~Expired(rows[i])
    /\ op' = [op EXCEPT ![r] = o]
    /\ code' = [code EXCEPT ![r] = rows[i].codeHash]
    /\ target' = [target EXCEPT ![r] = i]
    /\ entity' = [entity EXCEPT ![r] = e]
    /\ at' = [at EXCEPT ![r] = now]
    /\ pc' = [pc EXCEPT ![r] = IF o = "fail" THEN "waiting" ELSE "save"]
    /\ UNCHANGED <<rows, now, reloaded, outcome, issued, replaced>>

(* Mutant: consumedAt is not set. *)
SubmitRightUnconsumed(r, i) ==
    /\ Examine(r, i, "confirm", rows[i])
    /\ late' = IF rows[i].codeHash \in replaced THEN late \cup {r} ELSE late

SubmitRight(r, i) ==
    /\ Examine(r, i, "confirm", [rows[i] EXCEPT !.consumed = TRUE])
    /\ late' = IF rows[i].codeHash \in replaced THEN late \cup {r} ELSE late

SubmitWrong(r, i) ==
    /\ Examine(r, i, "fail", [rows[i] EXCEPT !.attemptsUsed = @ + 1])
    /\ UNCHANGED late

(* REQUIRES_NEW: recordFailedAttempt() begins on a second connection while *)
(* the transaction of the request keeps the first.                         *)
BeginRecording(r) ==
    /\ pc[r] = "waiting"
    /\ FreeConnections > 0
    /\ pc' = [pc EXCEPT ![r] = "save"]
    /\ UNCHANGED <<rows, now, op, code, target, entity, reloaded, at, outcome,
                   histVars>>

-----------------------------------------------------------------------------
(* save() of an existing row, first statement. *)
Reload(r) ==
    /\ pc[r] = "save"
    /\ reloaded' = [reloaded EXCEPT ![r] = rows[target[r]]]
    /\ pc' = [pc EXCEPT ![r] = "update"]
    /\ UNCHANGED <<rows, now, op, code, target, entity, at, outcome, histVars>>

(* save(), second statement: it waits for the row if it has anything to    *)
(* set.                                                                    *)
Writes(r) == ChangedColumns(reloaded[r], entity[r]) # {}

UpdateReady(r) == pc[r] = "update" /\ (Writes(r) => ~Locked(target[r]))

(* Inside the transaction of the request, the row stays locked until that  *)
(* transaction ends.                                                       *)
Update(r) ==
    /\ UpdateReady(r)
    /\ op[r] # "fail"
    /\ pc' = [pc EXCEPT ![r] = IF Writes(r) THEN "written" ELSE "unchanged"]
    /\ UNCHANGED <<rows, now, op, code, target, entity, reloaded, at, outcome,
                   histVars>>

(* The code is mailed, whether or not the mail goes out, and the request   *)
(* commits.                                                                *)
CommitIssue(r) ==
    /\ issued' = issued \cup {code[r]}
    /\ replaced' = replaced \cup issued
    /\ Finish(r, "sent")

CommitUpdate(r) ==
    /\ pc[r] \in {"written", "unchanged"}
    /\ rows' = [rows EXCEPT ![target[r]] = Saved(@, reloaded[r], entity[r])]
    /\ \/ op[r] # "confirm" /\ CommitIssue(r)
       \/ op[r] = "confirm" /\ Finish(r, "accepted") /\ UNCHANGED <<issued, replaced>>
    /\ UNCHANGED <<now, op, code, target, entity, reloaded, at, late>>

(* save() of an entity without a primary key. *)
CommitInsert(r, i) ==
    /\ pc[r] = "insert"
    /\ rows[i] = NULL
    /\ rows' = [rows EXCEPT ![i] = entity[r]]
    /\ CommitIssue(r)
    /\ UNCHANGED <<now, op, code, target, entity, reloaded, at, late>>

(* Mutant: confirm() has already updated the row in its own transaction,   *)
(* so that recordFailedAttempt() waits for the row lock of its caller.     *)
RecordFailedAttemptBehindCaller(r) ==
    /\ UpdateReady(r) /\ ~Writes(r)
    /\ op[r] = "fail"
    /\ rows' = [rows EXCEPT ![target[r]] = Saved(@, reloaded[r], entity[r])]
    /\ Finish(r, "wrong")
    /\ UNCHANGED <<now, op, code, target, entity, reloaded, at, histVars>>

(* recordFailedAttempt(): the update and its commit, in a transaction of   *)
(* its own; then confirm() throws.                                         *)
RecordFailedAttempt(r) ==
    /\ UpdateReady(r)
    /\ op[r] = "fail"
    /\ rows' = [rows EXCEPT ![target[r]] = Saved(@, reloaded[r], entity[r])]
    /\ Finish(r, "wrong")
    /\ UNCHANGED <<now, op, code, target, entity, reloaded, at, histVars>>

(* The process dies, the database fails, or a later step of the caller     *)
(* throws: the open transaction is rolled back.                            *)
Abort(r) ==
    /\ r \in InFlight
    /\ Finish(r, "failed")
    /\ UNCHANGED <<rows, now, op, code, target, entity, reloaded, at, histVars>>

Tick == /\ now < MaxTime
        /\ now' = now + 1
        /\ UNCHANGED <<rows, reqVars, histVars>>

Finished == (\A r \in Requests : pc[r] = "done") /\ UNCHANGED vars

Progress(r) ==
    \/ \E c \in Codes, i \in RowIds \cup {NULL} : Resend(r, c, i)
    \/ BeginRecording(r) \/ Reload(r) \/ Update(r) \/ CommitUpdate(r)
    \/ \E i \in RowIds : CommitInsert(r, i)
    \/ RecordFailedAttempt(r)

Next ==
    \/ \E r \in Requests :
          \/ \E c \in Codes, i \in RowIds \cup {NULL} : Issue(r, c, i)
          \/ RefuseResend(r) \/ AllowResend(r)
          \/ RefuseConfirm(r)
          \/ \E i \in RowIds : SubmitRight(r, i) \/ SubmitWrong(r, i)
          \/ Progress(r)
          \/ Abort(r)
    \/ Tick
    \/ Finished

Spec == Init /\ [][Next]_vars

(* Suspended requests are resumed, statements are answered, time passes. *)
FairSpec == Spec /\ WF_vars(Tick) /\ \A r \in Requests : WF_vars(Progress(r))

-----------------------------------------------------------------------------
TypeOK ==
    /\ rows \in [RowIds -> Row \cup {NULL}]
    /\ now \in 0..MaxTime
    /\ pc \in [Requests -> {"idle", "resend", "insert", "waiting", "save", "update",
                            "written", "unchanged", "done"}]
    /\ op \in [Requests -> {"none", "issue", "resend", "confirm", "fail"}]
    /\ code \in [Requests -> Codes \cup {NULL}]
    /\ target \in [Requests -> RowIds \cup {NULL}]
    /\ entity \in [Requests -> Row \cup {NULL}]
    /\ reloaded \in [Requests -> Row \cup {NULL}]
    /\ at \in [Requests -> 0..MaxTime]
    /\ outcome \in [Requests -> {"none", "sent", "accepted", "wrong", "refused", "failed"}]
    /\ issued \in SUBSET Codes /\ replaced \in SUBSET Codes
    /\ late \in SUBSET Requests

Told(o, c) == {r \in Requests : outcome[r] = o /\ code[r] = c}

(* No code is refused as wrong more than MaxAttempts times: the counter    *)
(* written by recordFailedAttempt survives the throw that follows it       *)
(* (email-verification.service.ts:158-162).                                *)
AttemptsBounded == \A c \in Codes : Cardinality(Told("wrong", c)) <= MaxAttempts

(* A code is accepted once: a consumed row answers 404.                    *)
CodeUsedOnce == \A c \in Codes : Cardinality(Told("accepted", c)) <= 1

(* A new code invalidates the previous one (README.md): a code presented   *)
(* after a later one was issued is not accepted.                           *)
OldCodeIsRefused == \A r \in Requests : outcome[r] = "accepted" => r \notin late

(* A resend is allowed once per Interval (README.md): when one is sent, at *)
(* least Interval has passed since every code that was sent before it, by  *)
(* whatever request.                                                       *)
ResendInterval ==
    [][\A r, s \in Requests :
          /\ op[r] = "resend" /\ outcome[r] # "sent" /\ outcome'[r] = "sent"
          /\ op[s] \in Issuing /\ outcome[s] = "sent"
          => at[r] - at[s] >= Interval]_vars

(* No two calls have drawn their codes in the same millisecond. *)
SentApart ==
    \A s, t \in Requests : op[s] \in Issuing /\ op[t] \in Issuing /\ at[s] = at[t] => s = t

(* Whatever overlaps, a code is accepted only if the request that drew it  *)
(* committed, and only if it was presented within TTL of that request.     *)
(* The time is beyond doubt as long as no two calls were sent at the same  *)
(* millisecond: a save() that finds lastSentAt as it wants it does not     *)
(* write it, and may leave its code beside the time of another.            *)
OnlyIssuedCodesInTime ==
    \A r \in Requests : outcome[r] = "accepted" =>
        \E s \in Requests :
            /\ op[s] \in Issuing /\ outcome[s] = "sent"
            /\ code[s] = code[r]
            /\ SentApart => at[r] <= at[s] + TTL

(* The whole pool is held by wrong submissions that each want one more. *)
PoolStalled ==
    /\ FreeConnections <= 0
    /\ \A r \in InFlight : pc[r] = "waiting"

(* A request that waits neither for a row nor for a connection. *)
Ready(r) ==
    /\ pc[r] = "waiting" => FreeConnections > 0
    /\ pc[r] = "update" /\ Writes(r) => ~Locked(target[r])

(* Nothing but the stalled pool makes all requests wait at once. *)
OnlyThePoolStalls ==
    InFlight # {} => PoolStalled \/ \E r \in InFlight : Ready(r)

(* Every request is answered: no handler waits for ever, neither for a row *)
(* nor for a connection, as long as the pool is not used up by wrong       *)
(* submissions alone, each holding its first connection and waiting for    *)
(* the one recordFailedAttempt() needs.                                    *)
EveryCallIsAnswered ==
    \A r \in Requests : pc[r] # "idle" ~> (pc[r] = "done" \/ PoolStalled)

-----------------------------------------------------------------------------
(* The slot as a one-time code: what its rows say. *)
pendingBar == IF \E i \in Existing : Pending(rows[i])
              THEN rows[CHOOSE i \in Existing : Pending(rows[i])].codeHash
              ELSE NULL
refusedBar == IF Existing = {} THEN 0
              ELSE rows[CHOOSE i \in Existing : TRUE].attemptsUsed
spentBar   == {c \in Codes : Told("accepted", c) # {}}

Abstract == INSTANCE OneTimeCode
            WITH pending <- pendingBar, refused <- refusedBar, spent <- spentBar

(* Requests that do not overlap implement a one-time code. *)
ImplementsOneTimeCode == Abstract!Spec

-----------------------------------------------------------------------------
(* What makes the invariants inductive, whatever overlaps: code and time   *)
(* in a row are those of one committed issue, and so are those a request   *)
(* has read and may write back.                                            *)
Sent(r) == op[r] \in Issuing /\ outcome[r] = "sent"

Given(c, t) ==
    \E s \in Requests : Sent(s) /\ code[s] = c /\ (SentApart => at[s] = t)

Saving == {"save", "update", "written", "unchanged"}

RowsOK == \A i \in Existing : Given(rows[i].codeHash, rows[i].sentAt)

RequestsOK ==
    \A r \in Requests :
        /\ pc[r] # "done" => outcome[r] = "none"
        /\ pc[r] \in {"idle", "resend"} => op[r] = "none"
        /\ pc[r] = "insert" => op[r] \in Issuing
        /\ pc[r] = "waiting" => op[r] = "fail"
        /\ pc[r] \in Saving => op[r] # "none"
        /\ pc[r] \in {"written", "unchanged"} => op[r] # "fail"
        /\ outcome[r] = "wrong" => op[r] = "fail"
        /\ op[r] \in Issuing => \A s \in Requests :
              op[s] \in Issuing /\ code[s] = code[r] => s = r
        /\ pc[r] \in Saving \cup {"waiting"} => target[r] \in Existing
        /\ pc[r] \in Saving \cup {"waiting", "insert"} =>
              /\ entity[r] \in Row
              /\ op[r] \in Issuing => entity[r].codeHash = code[r] /\ entity[r].sentAt = at[r]
              /\ op[r] \notin Issuing => Given(entity[r].codeHash, entity[r].sentAt)
              /\ op[r] = "confirm" => /\ entity[r].codeHash = code[r]
                                     /\ at[r] <= entity[r].sentAt + TTL
        /\ pc[r] \in Saving \ {"save"} =>
              /\ reloaded[r] \in Row
              /\ Given(reloaded[r].codeHash, reloaded[r].sentAt)

(* No more connections are out than the pool has. *)
PoolOK == IsFiniteSet(InFlight) /\ FreeConnections >= 0

EmailIInv == TypeOK /\ RequestsOK /\ RowsOK /\ PoolOK /\ OnlyIssuedCodesInTime

(* One request at a time: there is one row, and what a request has read of *)
(* it is still so;                                                         *)
Sees(r) ==
    /\ pc[r] = "resend" => \E i \in Existing : MayResend(rows[i])
    /\ pc[r] = "insert" => Existing = {} /\ op[r] = "issue"
    /\ pc[r] \in Saving \ {"save"} => reloaded[r] = rows[target[r]]
    /\ op[r] \in Issuing =>
          /\ entity[r].attemptsUsed = 0 /\ ~entity[r].consumed
          /\ \A s \in Requests \ {r} : code[s] # code[r] /\ (Sent(s) => at[s] <= at[r])
    /\ op[r] = "resend" => at[r] - rows[target[r]].sentAt >= Interval
    /\ op[r] \in {"confirm", "fail"} =>
          /\ code[r] = rows[target[r]].codeHash
          /\ Pending(rows[target[r]]) /\ ~Exhausted(rows[target[r]])
    /\ op[r] = "confirm" => entity[r] = [rows[target[r]] EXCEPT !.consumed = TRUE]
    /\ op[r] = "fail" => entity[r] = [rows[target[r]] EXCEPT !.attemptsUsed = @ + 1]

AloneOK ==
    /\ IsFiniteSet(InFlight)
    /\ \A r, s \in InFlight : r = s
    /\ \A i, j \in Existing : i = j
    /\ \A r \in InFlight : Sees(r)

(* the row knows what has become of its code, and what came before it.     *)
LedgerOK ==
    /\ late = {}
    /\ replaced \subseteq issued
    /\ \A c \in issued : \E s \in Requests : Sent(s) /\ code[s] = c
    /\ \A r \in Requests : at[r] <= now
    /\ \A r, s \in Requests :
          outcome[r] = "accepted" /\ outcome[s] = "accepted" /\ code[r] = code[s] => r = s
    /\ \A c \in Codes : IsFiniteSet(Told("wrong", c))
    /\ \A i \in Existing :
          /\ rows[i].codeHash \notin replaced
          /\ Told("accepted", rows[i].codeHash) # {} => rows[i].consumed
          /\ Cardinality(Told("wrong", rows[i].codeHash)) <= rows[i].attemptsUsed
          /\ \A s \in Requests : Sent(s) => at[s] <= rows[i].sentAt

SerialIInv == EmailIInv /\ AloneOK /\ LedgerOK /\ AttemptsBounded
=============================================================================
