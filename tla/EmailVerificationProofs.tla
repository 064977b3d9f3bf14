----------------------- MODULE EmailVerificationProofs ----------------------
(***************************************************************************)
(* Proofs about EmailVerification: what a confirmation code keeps however  *)
(* requests overlap, and all it promises while they come one at a time.    *)
(***************************************************************************)
EXTENDS EmailVerification, FiniteSetTheorems, TLAPS

Looking == {"idle", "resend"}   \* has drawn and examined no code yet

(* r has drawn the code c and is to write it. *)
Draws(r, o, c, i) == /\ pc[r] \in Looking /\ o \in Issuing
                     /\ o = "resend" <=> pc[r] = "resend"
                     /\ pc[r] = "idle" => Arrives(r)
                     /\ c \in Codes
                     /\ FindForIssue(r, o, c, i)

(* r has looked at a pending code, which it confirms or counts against. *)
Examines(r, i) ==
    /\ \/ Examine(r, i, "confirm", [rows[i] EXCEPT !.consumed = TRUE])
       \/ Examine(r, i, "fail", [rows[i] EXCEPT !.attemptsUsed = @ + 1])
    /\ \/ late' = late
       \/ late' = late \cup {r} /\ rows[i].codeHash \in replaced

(* The handler of r ends and leaves the row alone. *)
Ends(r, o) == /\ pc[r] # "done" /\ o \in {"refused", "failed"}
              /\ pc[r] = "idle" => Arrives(r)
              /\ Finish(r, o)
              /\ UNCHANGED <<rows, now, op, code, target, entity, reloaded, at, histVars>>

(* r goes on to its next step. *)
Moves(r, step) ==
    /\ \/ Arrives(r) /\ step = "resend" /\ \E i \in Existing : MayResend(rows[i])
       \/ pc[r] = "waiting" /\ FreeConnections > 0 /\ step = "save"
       \/ pc[r] = "update" /\ op[r] # "fail" /\ step \in {"written", "unchanged"}
    /\ pc' = [pc EXCEPT ![r] = step]
    /\ UNCHANGED <<rows, now, op, code, target, entity, reloaded, at, outcome, histVars>>

(* What any step does. *)
LEMMA StepCases ==
    ASSUME TypeOK, RequestsOK, [Next]_vars
    PROVE  \/ \E r \in Requests :
                \/ \E o, c, i : Draws(r, o, c, i)
                \/ \E i \in Existing : Examines(r, i)
                \/ \E o : Ends(r, o)
                \/ \E step : Moves(r, step)
                \/ Reload(r)
                \/ CommitUpdate(r) \/ RecordFailedAttempt(r) \/ \E i \in RowIds : CommitInsert(r, i)
           \/ Tick
           \/ UNCHANGED vars
<1>1. ASSUME NEW r \in Requests,
             \/ \E c \in Codes, i \in RowIds \cup {NULL} : Issue(r, c, i)
             \/ RefuseResend(r) \/ AllowResend(r)
             \/ RefuseConfirm(r)
             \/ \E i \in RowIds : SubmitRight(r, i) \/ SubmitWrong(r, i)
             \/ Progress(r)
             \/ Abort(r)
      PROVE  \/ \E o, c, i : Draws(r, o, c, i)
             \/ \E i \in Existing : Examines(r, i)
             \/ \E o : Ends(r, o)
             \/ \E step : Moves(r, step)
             \/ Reload(r)
             \/ CommitUpdate(r) \/ RecordFailedAttempt(r) \/ \E i \in RowIds : CommitInsert(r, i)
  <2>1. ASSUME NEW c \in Codes, NEW i, Issue(r, c, i) PROVE Draws(r, "issue", c, i)
    BY <2>1 DEF Issue, Arrives, Draws, Looking, Issuing
  <2>2. ASSUME NEW c \in Codes, NEW i, Resend(r, c, i) PROVE Draws(r, "resend", c, i)
    BY <2>2 DEF Resend, Draws, Looking, Issuing
  <2>3. ASSUME RefuseResend(r) \/ RefuseConfirm(r) PROVE Ends(r, "refused")
    BY <2>3 DEF RefuseResend, RefuseConfirm, Arrives, Ends
  <2>4. ASSUME Abort(r) PROVE Ends(r, "failed")
    BY <2>4 DEF Abort, InFlight, Ends
  <2>5. ASSUME AllowResend(r) PROVE Moves(r, "resend")
    BY <2>5 DEF AllowResend, Arrives, Moves
  <2>6. ASSUME BeginRecording(r) PROVE Moves(r, "save")
    BY <2>6 DEF BeginRecording, Moves
  <2>7. ASSUME Update(r) PROVE \E step : Moves(r, step)
    BY <2>7 DEF Update, UpdateReady, Moves
  <2>8. ASSUME NEW i \in RowIds, SubmitRight(r, i) \/ SubmitWrong(r, i)
        PROVE  i \in Existing /\ Examines(r, i)
    BY <2>8 DEF SubmitRight, SubmitWrong, Examine, Examines
  <2>9. QED
    BY <1>1, <2>1, <2>2, <2>3, <2>4, <2>5, <2>6, <2>7, <2>8 DEF Progress
<1>2. QED
  BY <1>1, Zenon DEF Next, Finished

-----------------------------------------------------------------------------
(* Types. *)

(* save() of rows gives a row, each column the entity's where that differs *)
(* from what was selected again, and the row's where it does not.          *)
LEMMA SavedRow ==
    ASSUME NEW row \in Row, NEW old \in Row, NEW e \in Row
    PROVE  /\ Saved(row, old, e) \in Row
           /\ Saved(row, old, e).codeHash =
                 IF e.codeHash # old.codeHash THEN e.codeHash ELSE row.codeHash
           /\ Saved(row, old, e).sentAt =
                 IF e.sentAt # old.sentAt THEN e.sentAt ELSE row.sentAt
BY DEF Saved, ChangedColumns, Row

(* If nobody has written in between, the row becomes the entity. *)
LEMMA SavedAlone ==
    ASSUME NEW row \in Row, NEW e \in Row
    PROVE  Saved(row, row, e) = e
BY DEF Saved, ChangedColumns, Row

(* A step keeps the types. *)
LEMMA TypeStep ==
    ASSUME TypeOK, RequestsOK, [Next]_vars
    PROVE  TypeOK'
<1> USE DEF TypeOK
<1>1. ASSUME NEW r \in Requests, NEW o, NEW c, NEW i, Draws(r, o, c, i) PROVE TypeOK'
  <2>1. i \in RowIds \cup {NULL}
    BY <1>1 DEF Draws, FindForIssue, Found, Existing
  <2>2. [codeHash |-> c, sentAt |-> now, attemptsUsed |-> 0, consumed |-> FALSE] \in Row
    BY <1>1, BoundsAssumption DEF Draws, Row
  <2>3. QED
    BY <1>1, <2>1, <2>2 DEF Draws, FindForIssue, Issuing, histVars
<1>2. ASSUME NEW r \in Requests, NEW i \in Existing, Examines(r, i) PROVE TypeOK'
  <2>1. rows[i] \in Row /\ i \in RowIds
    BY DEF Existing
  <2>2. [rows[i] EXCEPT !.consumed = TRUE] \in Row
    BY <2>1 DEF Row
  <2>3. rows[i].attemptsUsed < MaxAttempts => [rows[i] EXCEPT !.attemptsUsed = @ + 1] \in Row
    BY <2>1, BoundsAssumption DEF Row
  <2>4. rows[i].attemptsUsed < MaxAttempts /\ rows[i].codeHash \in Codes
    BY <1>2, <2>1, BoundsAssumption DEF Examines, Examine, Exhausted, Row
  <2>5. late' \in SUBSET Requests
    BY <1>2 DEF Examines
  <2>6. PICK o \in {"confirm", "fail"}, e \in Row : Examine(r, i, o, e)
    BY <1>2, <2>2, <2>3, <2>4 DEF Examines
  <2>7. QED
    BY <2>1, <2>4, <2>5, <2>6 DEF Examine
<1>3. ASSUME NEW r \in Requests, NEW o, Ends(r, o) PROVE TypeOK'
  BY <1>3 DEF Ends, Finish, histVars
<1>4. ASSUME NEW r \in Requests, NEW step, Moves(r, step) PROVE TypeOK'
  BY <1>4 DEF Moves, Arrives, histVars
<1>5. ASSUME NEW r \in Requests, Reload(r) PROVE TypeOK'
  <2>1. target[r] \in RowIds
    BY <1>5 DEF Reload, RequestsOK, Saving, Existing
  <2>2. QED
    BY <1>5, <2>1 DEF Reload, histVars
<1>6. ASSUME NEW r \in Requests, CommitUpdate(r) \/ RecordFailedAttempt(r) PROVE TypeOK'
  <2>1. pc[r] \in {"update", "written", "unchanged"}
    BY <1>6 DEF CommitUpdate, RecordFailedAttempt, UpdateReady
  <2>2. /\ target[r] \in RowIds /\ rows[target[r]] \in Row
        /\ entity[r] \in Row /\ reloaded[r] \in Row
    BY <2>1 DEF RequestsOK, Saving, Existing
  <2>3. Saved(rows[target[r]], reloaded[r], entity[r]) \in Row
    BY <2>2, SavedRow
  <2>4. op[r] \in Issuing => code[r] \in Codes
    BY <2>1, <2>2 DEF RequestsOK, Saving, Row
  <2>5. pc[r] \in {"written", "unchanged"} /\ op[r] # "confirm" => op[r] \in Issuing
    BY DEF RequestsOK, Saving, Issuing
  <2>6. CASE CommitUpdate(r)
    <3>1. rows' \in [RowIds -> Row \cup {NULL}]
      BY <2>2, <2>3, <2>6 DEF CommitUpdate
    <3>2. /\ issued' \in SUBSET Codes /\ replaced' \in SUBSET Codes
          /\ pc' \in [Requests -> {"idle", "resend", "insert", "waiting", "save", "update",
                                   "written", "unchanged", "done"}]
          /\ outcome' \in [Requests -> {"none", "sent", "accepted", "wrong", "refused", "failed"}]
      BY <2>4, <2>5, <2>6 DEF CommitUpdate, CommitIssue, Finish
    <3>3. QED
      BY <2>6, <3>1, <3>2 DEF CommitUpdate
  <2>7. CASE RecordFailedAttempt(r)
    BY <2>2, <2>3, <2>7 DEF RecordFailedAttempt, Finish, histVars
  <2>8. QED
    BY <1>6, <2>6, <2>7
<1>7. ASSUME NEW r \in Requests, NEW i \in RowIds, CommitInsert(r, i) PROVE TypeOK'
  <2>1. entity[r] \in Row /\ code[r] \in Codes
    BY <1>7 DEF CommitInsert, RequestsOK, Row
  <2>2. QED
    BY <1>7, <2>1 DEF CommitInsert, CommitIssue, Finish
<1>8. CASE Tick
  BY <1>8, BoundsAssumption DEF Tick, reqVars, histVars
<1>9. CASE UNCHANGED vars
  BY <1>9 DEF vars, reqVars, histVars
<1>10. QED
  BY <1>1, <1>2, <1>3, <1>4, <1>5, <1>6, <1>7, <1>8, <1>9, StepCases

-----------------------------------------------------------------------------
(* Codes and their times. *)

(* What a request has drawn or looked at, and what it was told, stays.     *)
LEMMA Kept ==
    ASSUME TypeOK, RequestsOK, [Next]_vars, NEW s \in Requests
    PROVE  /\ op[s] # "none" \/ pc[s] = "done" =>
                op'[s] = op[s] /\ code'[s] = code[s] /\ at'[s] = at[s]
           /\ outcome[s] # "none" => outcome'[s] = outcome[s]
           /\ pc[s] = "done" => pc'[s] = "done"
<1> USE DEF TypeOK, RequestsOK
<1>1. ASSUME NEW r \in Requests, NEW o, Finish(r, o), pc[r] # "done", UNCHANGED <<op, code, at>>
      PROVE  /\ op'[s] = op[s] /\ code'[s] = code[s] /\ at'[s] = at[s]
             /\ outcome[s] # "none" => outcome'[s] = outcome[s]
             /\ pc[s] = "done" => pc'[s] = "done"
  BY <1>1 DEF Finish
<1>2. ASSUME NEW r \in Requests, NEW step, pc' = [pc EXCEPT ![r] = step], pc[r] # "done",
             UNCHANGED <<op, code, at, outcome>>
      PROVE  /\ op'[s] = op[s] /\ code'[s] = code[s] /\ at'[s] = at[s]
             /\ outcome[s] # "none" => outcome'[s] = outcome[s]
             /\ pc[s] = "done" => pc'[s] = "done"
  BY <1>2
<1>3. ASSUME NEW r \in Requests, NEW o, NEW c, NEW step, pc[r] \in Looking,
             pc' = [pc EXCEPT ![r] = step], op' = [op EXCEPT ![r] = o],
             code' = [code EXCEPT ![r] = c], at' = [at EXCEPT ![r] = now],
             UNCHANGED outcome
      PROVE  /\ op[s] # "none" \/ pc[s] = "done" =>
                op'[s] = op[s] /\ code'[s] = code[s] /\ at'[s] = at[s]
             /\ outcome[s] # "none" => outcome'[s] = outcome[s]
             /\ pc[s] = "done" => pc'[s] = "done"
  BY <1>3 DEF Looking
<1>4. ASSUME NEW r \in Requests, NEW o, NEW c, NEW i, Draws(r, o, c, i)
      PROVE  /\ op[s] # "none" \/ pc[s] = "done" =>
                op'[s] = op[s] /\ code'[s] = code[s] /\ at'[s] = at[s]
             /\ outcome[s] # "none" => outcome'[s] = outcome[s]
             /\ pc[s] = "done" => pc'[s] = "done"
  <2> HIDE DEF TypeOK, RequestsOK
  <2>1. QED
    BY <1>3, <1>4 DEF Draws, FindForIssue
<1>5. ASSUME NEW r \in Requests, NEW i \in Existing, Examines(r, i)
      PROVE  /\ op[s] # "none" \/ pc[s] = "done" =>
                op'[s] = op[s] /\ code'[s] = code[s] /\ at'[s] = at[s]
             /\ outcome[s] # "none" => outcome'[s] = outcome[s]
             /\ pc[s] = "done" => pc'[s] = "done"
  <2> HIDE DEF TypeOK, RequestsOK
  <2>1. QED
    BY <1>3, <1>5 DEF Examines, Examine, Arrives, Looking
<1>6. ASSUME NEW r \in Requests,
             \/ \E o : Ends(r, o)
             \/ CommitUpdate(r) \/ RecordFailedAttempt(r) \/ \E i \in RowIds : CommitInsert(r, i)
      PROVE  \E o : Finish(r, o) /\ pc[r] # "done" /\ UNCHANGED <<op, code, at>>
  BY <1>6 DEF Ends, CommitUpdate, CommitIssue, RecordFailedAttempt, UpdateReady, CommitInsert
<1>7. ASSUME NEW r \in Requests, (\E step : Moves(r, step)) \/ Reload(r)
      PROVE  \E step : /\ pc' = [pc EXCEPT ![r] = step] /\ pc[r] # "done"
                       /\ UNCHANGED <<op, code, at, outcome>>
  BY <1>7 DEF Moves, Arrives, Reload
<1>8. CASE Tick \/ UNCHANGED vars
  BY <1>8 DEF Tick, vars, reqVars
<1> HIDE DEF TypeOK, RequestsOK
<1>9. QED
  BY <1>1, <1>2, <1>4, <1>5, <1>6, <1>7, <1>8, StepCases

(* Issues told apart by their time after a step were so before it. *)
LEMMA ApartBefore ==
    ASSUME TypeOK, RequestsOK, [Next]_vars, SentApart'
    PROVE  SentApart
<1>1. \A u \in Requests : op[u] \in Issuing => op'[u] = op[u] /\ at'[u] = at[u]
  BY Kept DEF Issuing
<1>2. QED
  BY <1>1 DEF SentApart

(* So a code given once is given for good, with its time. *)
LEMMA GivenStays ==
    ASSUME TypeOK, RequestsOK, [Next]_vars, NEW c, NEW t, Given(c, t)
    PROVE  Given(c, t)'
<1>1. PICK s \in Requests : /\ op[s] \in Issuing /\ outcome[s] = "sent" /\ code[s] = c
                            /\ SentApart => at[s] = t
  BY DEF Given, Sent, Sent
<1>2. op'[s] = op[s] /\ code'[s] = code[s] /\ at'[s] = at[s] /\ outcome'[s] = "sent"
  BY <1>1, Kept DEF Issuing
<1>3. QED
  BY <1>1, <1>2, ApartBefore DEF Given, Sent, Sent

(* Two requests do not draw the same code. *)
LEMMA DrawnOnce ==
    ASSUME TypeOK, RequestsOK, [Next]_vars, NEW r \in Requests, NEW s \in Requests,
           op'[r] \in Issuing, op'[s] \in Issuing, code'[s] = code'[r]
    PROVE  s = r
<1> DEFINE Distinct == \A x, y \in Requests :
              op[x] \in Issuing /\ op[y] \in Issuing /\ code[y] = code[x] => y = x
<1>1. Distinct
  BY DEF RequestsOK
<1> USE DEF TypeOK
<1>2. CASE UNCHANGED <<op, code>>
  BY <1>1, <1>2
<1>3. ASSUME NEW q \in Requests, NEW o, NEW c, NEW i, Draws(q, o, c, i) PROVE s = r
  <2>1. /\ op' = [op EXCEPT ![q] = o] /\ code' = [code EXCEPT ![q] = c]
        /\ \A x \in Requests : code[x] # c
    BY <1>3 DEF Draws, FindForIssue, Fresh
  <2>2. QED
    BY <1>1, <2>1
<1>4. ASSUME NEW q \in Requests, NEW i \in Existing, Examines(q, i) PROVE s = r
  <2>1. PICK o \in {"confirm", "fail"} : /\ op' = [op EXCEPT ![q] = o]
                                         /\ code' = [code EXCEPT ![q] = rows[i].codeHash]
    BY <1>4 DEF Examines, Examine
  <2>2. r # q /\ s # q
    BY <2>1 DEF Issuing
  <2>3. QED
    BY <1>1, <2>1, <2>2
<1>5. QED
  BY <1>2, <1>3, <1>4, StepCases DEF Ends, Moves, Reload, CommitUpdate, RecordFailedAttempt,
     CommitInsert, Tick, vars, reqVars

(* What save() makes of code and time: both of the row, or both of the     *)
(* entity.                                                                 *)
LEMMA SavedGiven ==
    ASSUME TypeOK, RequestsOK, NEW row \in Row, NEW old \in Row, NEW e \in Row,
           Given(row.codeHash, row.sentAt), Given(old.codeHash, old.sentAt),
           NEW s \in Requests, op[s] \in Issuing, code[s] = e.codeHash,
           SentApart => at[s] = e.sentAt
    PROVE  LET new == Saved(row, old, e)
           IN  \/ new.codeHash = e.codeHash /\ (SentApart => new.sentAt = e.sentAt)
               \/ new.codeHash = row.codeHash /\ (SentApart => new.sentAt = row.sentAt)
<1>1. PICK u \in Requests : /\ op[u] \in Issuing /\ code[u] = old.codeHash
                            /\ SentApart => at[u] = old.sentAt
  BY DEF Given, Sent, Sent
<1>2. CASE e.codeHash = old.codeHash
  <2>1. u = s
    BY <1>1, <1>2 DEF RequestsOK
  <2>2. SentApart => e.sentAt = old.sentAt
    BY <1>1, <2>1
  <2>3. QED
    BY <1>2, <2>2, SavedRow
<1>3. CASE e.codeHash # old.codeHash
  <2>1. SentApart => e.sentAt # old.sentAt
    BY <1>1, <1>3 DEF SentApart
  <2>2. QED
    BY <1>3, <2>1, SavedRow
<1>4. QED
  BY <1>2, <1>3

(* A request that writes back what it has, or what it was given, leaves a  *)
(* code and a time that belong together.                                   *)
LEMMA WrittenGiven ==
    ASSUME TypeOK, RequestsOK, RowsOK, [Next]_vars, NEW r \in Requests,
           CommitUpdate(r) \/ RecordFailedAttempt(r),
           NEW new, new = Saved(rows[target[r]], reloaded[r], entity[r])
    PROVE  Given(new.codeHash, new.sentAt)'
<1>1. PICK row, old, e : row = rows[target[r]] /\ old = reloaded[r] /\ e = entity[r]
  OBVIOUS
<1>2. pc[r] \in Saving \ {"save"} /\ op[r] \in Issuing \cup {"confirm", "fail"}
  BY DEF CommitUpdate, RecordFailedAttempt, UpdateReady, RequestsOK, Saving, TypeOK, Issuing
<1>3. /\ target[r] \in Existing /\ e \in Row /\ old \in Row
      /\ Given(old.codeHash, old.sentAt)
      /\ op[r] \in Issuing => e.codeHash = code[r] /\ e.sentAt = at[r]
      /\ op[r] \notin Issuing => Given(e.codeHash, e.sentAt)
  BY <1>1, <1>2 DEF RequestsOK
<1>4. row \in Row /\ Given(row.codeHash, row.sentAt)
  BY <1>1, <1>3 DEF RowsOK, Existing, TypeOK
<1>5. PICK s \in Requests : /\ op[s] \in Issuing /\ code[s] = e.codeHash
                            /\ SentApart => at[s] = e.sentAt
  BY <1>3 DEF Given, Sent, Sent
<1>6. \/ new.codeHash = e.codeHash /\ (SentApart => new.sentAt = e.sentAt)
      \/ new.codeHash = row.codeHash /\ (SentApart => new.sentAt = row.sentAt)
  BY <1>1, <1>3, <1>4, <1>5, SavedGiven
<1>7. Given(e.codeHash, e.sentAt)'
  <2>1. CASE op[r] \in Issuing
    <3>1. outcome'[r] = "sent"
      BY <2>1 DEF CommitUpdate, CommitIssue, RecordFailedAttempt, Finish, TypeOK, Issuing
    <3>2. op'[r] = op[r] /\ code'[r] = code[r] /\ at'[r] = at[r]
      BY <2>1, Kept DEF Issuing
    <3>3. QED
      BY <1>3, <2>1, <3>1, <3>2 DEF Given, Sent, Sent
  <2>2. CASE op[r] \notin Issuing
    BY <1>3, <2>2, GivenStays
  <2>3. QED
    BY <2>1, <2>2
<1>8. Given(row.codeHash, row.sentAt)'
  BY <1>4, GivenStays
<1>9. SentApart' => SentApart
  BY ApartBefore
<1>10. QED
  BY <1>6, <1>7, <1>8, <1>9 DEF Given, Sent, Sent

(* A step leaves in the rows only codes that were issued, as they were. *)
LEMMA RowsStep ==
    ASSUME TypeOK, RequestsOK, RowsOK, [Next]_vars
    PROVE  RowsOK'
<1> SUFFICES ASSUME NEW i \in RowIds, rows'[i] # NULL
             PROVE  Given(rows[i].codeHash, rows[i].sentAt)'
  BY DEF RowsOK, Existing
<1>1. PICK row : row = rows'[i]
  OBVIOUS
<1>2. SUFFICES Given(row.codeHash, row.sentAt)'
  BY <1>1
<1>3. CASE rows'[i] = rows[i]
  BY <1>1, <1>3, GivenStays DEF RowsOK, Existing
<1>4. ASSUME NEW r \in Requests, CommitUpdate(r) \/ RecordFailedAttempt(r), rows'[i] # rows[i]
      PROVE  Given(row.codeHash, row.sentAt)'
  <2>1. row = Saved(rows[target[r]], reloaded[r], entity[r])
    BY <1>1, <1>4 DEF CommitUpdate, RecordFailedAttempt, TypeOK
  <2>2. QED
    BY <1>4, <2>1, WrittenGiven
<1>5. ASSUME NEW r \in Requests, NEW j \in RowIds, CommitInsert(r, j), rows'[i] # rows[i]
      PROVE  Given(row.codeHash, row.sentAt)'
  <2>1. row = entity[r] /\ outcome'[r] = "sent" /\ pc[r] = "insert"
    BY <1>1, <1>5 DEF CommitInsert, CommitIssue, Finish, TypeOK
  <2>2. op[r] \in Issuing /\ row.codeHash = code[r] /\ row.sentAt = at[r]
    BY <2>1 DEF RequestsOK
  <2>3. op'[r] = op[r] /\ code'[r] = code[r] /\ at'[r] = at[r]
    BY <2>2, Kept DEF Issuing
  <2>4. QED
    BY <2>1, <2>2, <2>3 DEF Given, Sent, Sent
<1>6. QED
  BY <1>3, <1>4, <1>5, StepCases DEF Draws, FindForIssue, Examines, Examine, Ends, Moves,
     Reload, Tick, vars

(* A row stays. *)
LEMMA ExistingStays ==
    ASSUME TypeOK, RequestsOK, [Next]_vars
    PROVE  Existing \subseteq Existing'
<1> SUFFICES ASSUME NEW i \in RowIds, rows[i] # NULL PROVE rows'[i] # NULL
  BY DEF Existing
<1>1. ASSUME NEW r \in Requests, CommitUpdate(r) \/ RecordFailedAttempt(r) PROVE rows'[i] # NULL
  <2>1. /\ target[r] \in RowIds /\ rows[target[r]] \in Row
        /\ entity[r] \in Row /\ reloaded[r] \in Row
    BY <1>1 DEF CommitUpdate, RecordFailedAttempt, UpdateReady, RequestsOK, Saving, Existing, TypeOK
  <2>2. Saved(rows[target[r]], reloaded[r], entity[r]) # NULL
    BY <2>1, SavedRow, RowsAssumption
  <2>3. QED
    BY <1>1, <2>2 DEF CommitUpdate, RecordFailedAttempt, TypeOK
<1>2. ASSUME NEW r \in Requests, NEW j \in RowIds, CommitInsert(r, j) PROVE rows'[i] # NULL
  BY <1>2 DEF CommitInsert, TypeOK
<1>3. QED
  BY <1>1, <1>2, StepCases DEF Draws, FindForIssue, Examines, Examine, Ends, Moves,
     Reload, Tick, vars

(* What RequestsOK says of one request, but for the codes of others. *)
StepOK(r) ==
    /\ pc[r] # "done" => outcome[r] = "none"
    /\ pc[r] \in {"idle", "resend"} => op[r] = "none"
    /\ pc[r] = "insert" => op[r] \in Issuing
    /\ pc[r] = "waiting" => op[r] = "fail"
    /\ pc[r] \in Saving => op[r] # "none"
    /\ pc[r] \in {"written", "unchanged"} => op[r] # "fail"
    /\ outcome[r] = "wrong" => op[r] = "fail"
    /\ pc[r] \in Saving \cup {"waiting"} => target[r] \in Existing
    /\ pc[r] \in Saving \cup {"waiting", "insert"} =>
          /\ entity[r] \in Row
          /\ op[r] \in Issuing => entity[r].codeHash = code[r] /\ entity[r].sentAt = at[r]
          /\ op[r] \notin Issuing => Given(entity[r].codeHash, entity[r].sentAt)
          /\ op[r] = "confirm" => /\ entity[r].codeHash = code[r]
                                 /\ at[r] <= entity[r].sentAt + TTL
    /\ pc[r] \in Saving \ {"save"} =>
          /\ reloaded[r] \in Row
          /\ Given(reloaded[r].codeHash, reloaded[r].sentAt)

(* A step keeps what requests hold of the rows they read. *)
LEMMA RequestsStep ==
    ASSUME TypeOK, RequestsOK, RowsOK, [Next]_vars
    PROVE  RequestsOK'
<1>1. \A s \in Requests : StepOK(s)
  BY DEF RequestsOK, StepOK
<1>2. TypeOK' /\ Existing \subseteq Existing'
  BY TypeStep, ExistingStays
<1>3. SUFFICES \A s \in Requests : StepOK(s)'
  <2>1. \A r, s \in Requests :
           op'[r] \in Issuing /\ op'[s] \in Issuing /\ code'[s] = code'[r] => s = r
    BY DrawnOnce
  <2>2. QED
    BY <1>3, <2>1 DEF RequestsOK, StepOK
(* A request that takes no step keeps what it has. *)
<1>4. ASSUME NEW s \in Requests,
             pc'[s] = pc[s], op'[s] = op[s], code'[s] = code[s], at'[s] = at[s],
             target'[s] = target[s], entity'[s] = entity[s], reloaded'[s] = reloaded[s],
             outcome'[s] = outcome[s]
      PROVE  StepOK(s)'
  <2>1. PICK e, old : e = entity[s] /\ old = reloaded[s]
    OBVIOUS
  <2>2. /\ Given(e.codeHash, e.sentAt) => Given(e.codeHash, e.sentAt)'
        /\ Given(old.codeHash, old.sentAt) => Given(old.codeHash, old.sentAt)'
    BY GivenStays
  <2>3. StepOK(s)
    BY <1>1
  <2>4. QED
    BY <1>2, <1>4, <2>1, <2>2, <2>3 DEF StepOK
<1> USE DEF TypeOK
<1>5. ASSUME NEW r \in Requests, NEW o, NEW c, NEW i, Draws(r, o, c, i)
      PROVE  \A s \in Requests : StepOK(s)'
  <2>1. /\ op' = [op EXCEPT ![r] = o] /\ code' = [code EXCEPT ![r] = c]
        /\ target' = [target EXCEPT ![r] = i] /\ at' = [at EXCEPT ![r] = now]
        /\ entity' = [entity EXCEPT ![r] =
                [codeHash |-> c, sentAt |-> now, attemptsUsed |-> 0, consumed |-> FALSE]]
        /\ pc' = [pc EXCEPT ![r] = IF i = NULL THEN "insert" ELSE "save"]
        /\ UNCHANGED <<reloaded, outcome>> /\ o \in Issuing /\ pc[r] \in Looking
        /\ i \in Existing \cup {NULL}
    BY <1>5 DEF Draws, FindForIssue, Found
  <2>2. ASSUME NEW s \in Requests, s # r PROVE StepOK(s)'
    <3>1. /\ pc'[s] = pc[s] /\ op'[s] = op[s] /\ code'[s] = code[s] /\ at'[s] = at[s]
          /\ target'[s] = target[s] /\ entity'[s] = entity[s] /\ reloaded'[s] = reloaded[s]
          /\ outcome'[s] = outcome[s]
      BY <2>1, <2>2
    <3>2. QED
      BY <1>4, <3>1
  <2>3. StepOK(r)'
    <3>1. outcome[r] = "none"
      BY <1>1, <2>1 DEF StepOK, Looking
    <3>2. /\ op'[r] = o /\ code'[r] = c /\ target'[r] = i /\ at'[r] = now
          /\ entity'[r].codeHash = c /\ entity'[r].sentAt = now /\ outcome'[r] = "none"
          /\ pc'[r] = IF i = NULL THEN "insert" ELSE "save"
      BY <2>1, <3>1
    <3>3. entity'[r] \in Row
      BY <2>1, <1>5, BoundsAssumption DEF Draws, Row
    <3>4. QED
      BY <1>2, <2>1, <3>2, <3>3 DEF StepOK, Issuing, Saving
  <2>4. QED
    BY <2>2, <2>3
<1>6. ASSUME NEW r \in Requests, NEW i \in Existing, Examines(r, i)
      PROVE  \A s \in Requests : StepOK(s)'
  <2>1. PICK o, e :
           /\ o \in {"confirm", "fail"}
           /\ Examine(r, i, o, e)
           /\ \/ e = [rows[i] EXCEPT !.consumed = TRUE]
              \/ e = [rows[i] EXCEPT !.attemptsUsed = @ + 1]
    BY <1>6 DEF Examines
  <2>2. /\ op' = [op EXCEPT ![r] = o] /\ code' = [code EXCEPT ![r] = rows[i].codeHash]
        /\ target' = [target EXCEPT ![r] = i] /\ at' = [at EXCEPT ![r] = now]
        /\ entity' = [entity EXCEPT ![r] = e]
        /\ pc' = [pc EXCEPT ![r] = IF o = "fail" THEN "waiting" ELSE "save"]
        /\ UNCHANGED <<reloaded, outcome>> /\ pc[r] = "idle"
        /\ now <= rows[i].sentAt + TTL
    BY <2>1, BoundsAssumption DEF Examine, Arrives, Expired, Existing, Row
  <2>3. ASSUME NEW s \in Requests, s # r PROVE StepOK(s)'
    <3>1. /\ pc'[s] = pc[s] /\ op'[s] = op[s] /\ code'[s] = code[s] /\ at'[s] = at[s]
          /\ target'[s] = target[s] /\ entity'[s] = entity[s] /\ reloaded'[s] = reloaded[s]
          /\ outcome'[s] = outcome[s]
      BY <2>2, <2>3
    <3>2. QED
      BY <1>4, <3>1
  <2>4. StepOK(r)'
    <3>1. /\ e.codeHash = rows[i].codeHash /\ e.sentAt = rows[i].sentAt
          /\ i \in Existing /\ Given(e.codeHash, e.sentAt)
      BY <2>1 DEF Existing, RowsOK, Row
    <3>2. outcome[r] = "none"
      BY <1>1, <2>2 DEF StepOK
    <3>3. /\ op'[r] = o /\ code'[r] = e.codeHash /\ target'[r] = i /\ at'[r] = now
          /\ entity'[r] = e /\ outcome'[r] = "none"
          /\ pc'[r] = IF o = "fail" THEN "waiting" ELSE "save"
      BY <2>2, <3>1, <3>2
    <3>4. Given(e.codeHash, e.sentAt)'
      BY <3>1, GivenStays
    <3>5. e \in Row
      <4>1. rows[i] \in Row /\ rows[i].attemptsUsed < MaxAttempts
        BY <2>1, BoundsAssumption DEF Existing, Examine, Exhausted, Row
      <4>2. [rows[i] EXCEPT !.consumed = TRUE] \in Row
        BY <4>1 DEF Row
      <4>3. [rows[i] EXCEPT !.attemptsUsed = @ + 1] \in Row
        BY <4>1, BoundsAssumption DEF Row
      <4>4. QED
        BY <2>1, <4>2, <4>3
    <3>6. QED
      BY <1>2, <2>1, <2>2, <3>1, <3>3, <3>4, <3>5 DEF StepOK, Issuing, Saving
  <2>5. QED
    BY <2>3, <2>4
<1>7. ASSUME NEW r \in Requests, NEW o, Finish(r, o), o = "wrong" => op[r] = "fail",
             UNCHANGED <<op, code, target, entity, reloaded, at>>
      PROVE  \A s \in Requests : StepOK(s)'
  <2>1. ASSUME NEW s \in Requests, s # r PROVE StepOK(s)'
    BY <1>4, <1>7, <2>1 DEF Finish
  <2>2. StepOK(r)'
    BY <1>7 DEF Finish, StepOK, Saving
  <2>3. QED
    BY <2>1, <2>2
<1>8. ASSUME NEW r \in Requests,
             \/ \E o : Ends(r, o)
             \/ CommitUpdate(r) \/ RecordFailedAttempt(r) \/ \E i \in RowIds : CommitInsert(r, i)
      PROVE  \A s \in Requests : StepOK(s)'
  <2>1. \E o : /\ Finish(r, o)
               /\ o = "wrong" => op[r] = "fail"
               /\ UNCHANGED <<op, code, target, entity, reloaded, at>>
    <3> HIDE DEF TypeOK
    <3>1. QED
      BY <1>8 DEF Ends, CommitUpdate, CommitIssue, RecordFailedAttempt, CommitInsert
  <2>2. QED
    BY <1>7, <2>1
<1>9. ASSUME NEW r \in Requests, NEW step, Moves(r, step) PROVE \A s \in Requests : StepOK(s)'
  <2>1. /\ pc' = [pc EXCEPT ![r] = step]
        /\ UNCHANGED <<op, code, target, entity, reloaded, at, outcome>>
    BY <1>9 DEF Moves
  <2>2. ASSUME NEW s \in Requests, s # r PROVE StepOK(s)'
    BY <1>4, <2>1, <2>2
  <2>3. StepOK(r)'
    <3>1. PICK e, old : e = entity[r] /\ old = reloaded[r]
      OBVIOUS
    <3>2. /\ Given(e.codeHash, e.sentAt) => Given(e.codeHash, e.sentAt)'
          /\ Given(old.codeHash, old.sentAt) => Given(old.codeHash, old.sentAt)'
      BY GivenStays
    <3>3. StepOK(r)
      BY <1>1
    <3>4. /\ pc'[r] = step
          /\ \/ pc[r] = "idle" /\ step = "resend"
             \/ pc[r] = "waiting" /\ step = "save"
             \/ pc[r] = "update" /\ op[r] # "fail" /\ step \in {"written", "unchanged"}
      BY <1>9, <2>1 DEF Moves, Arrives
    <3> HIDE DEF TypeOK
    <3>5. QED
      BY <1>2, <2>1, <3>1, <3>2, <3>3, <3>4 DEF StepOK, Saving
  <2>4. QED
    BY <2>2, <2>3
<1>10. ASSUME NEW r \in Requests, Reload(r) PROVE \A s \in Requests : StepOK(s)'
  <2>1. /\ pc' = [pc EXCEPT ![r] = "update"] /\ pc[r] = "save"
        /\ reloaded' = [reloaded EXCEPT ![r] = rows[target[r]]]
        /\ UNCHANGED <<op, code, target, entity, at, outcome>>
    BY <1>10 DEF Reload
  <2>2. ASSUME NEW s \in Requests, s # r PROVE StepOK(s)'
    BY <1>4, <2>1, <2>2
  <2>3. StepOK(r)'
    <3>1. PICK e, old : e = entity[r] /\ old = rows[target[r]]
      OBVIOUS
    <3>2. StepOK(r)
      BY <1>1
    <3>3. old \in Row /\ Given(old.codeHash, old.sentAt)
      BY <2>1, <3>1, <3>2 DEF StepOK, Saving, RowsOK, Existing
    <3>4. /\ Given(e.codeHash, e.sentAt) => Given(e.codeHash, e.sentAt)'
          /\ Given(old.codeHash, old.sentAt)'
      BY <3>3, GivenStays
    <3>5. pc'[r] = "update" /\ reloaded'[r] = old
      BY <2>1, <3>1
    <3> HIDE DEF TypeOK
    <3>6. QED
      BY <1>2, <2>1, <3>1, <3>2, <3>3, <3>4, <3>5 DEF StepOK, Saving
  <2>4. QED
    BY <2>2, <2>3
<1>11. CASE Tick \/ UNCHANGED vars
  <2>1. UNCHANGED reqVars
    BY <1>11 DEF Tick, vars
  <2>2. QED
    BY <1>4, <2>1 DEF reqVars
<1>12. QED
  BY <1>5, <1>6, <1>8, <1>9, <1>10, <1>11, StepCases

(* A step accepts a code only if it was issued, and in time. *)
LEMMA InTimeStep ==
    ASSUME TypeOK, RequestsOK, RowsOK, OnlyIssuedCodesInTime, [Next]_vars
    PROVE  OnlyIssuedCodesInTime'
<1> SUFFICES ASSUME NEW r \in Requests, outcome'[r] = "accepted"
             PROVE  \E s \in Requests :
                       /\ op'[s] \in Issuing /\ outcome'[s] = "sent"
                       /\ code'[s] = code'[r]
                       /\ SentApart' => at'[r] <= at'[s] + TTL
  BY DEF OnlyIssuedCodesInTime
<1>1. CASE outcome[r] = "accepted"
  <2>1. PICK s \in Requests : /\ op[s] \in Issuing /\ outcome[s] = "sent"
                              /\ code[s] = code[r]
                              /\ SentApart => at[r] <= at[s] + TTL
    BY <1>1 DEF OnlyIssuedCodesInTime
  <2>2. op'[s] = op[s] /\ code'[s] = code[s] /\ at'[s] = at[s] /\ outcome'[s] = "sent"
    BY <2>1, Kept DEF Issuing
  <2>3. code'[r] = code[r] /\ at'[r] = at[r]
    BY <1>1, Kept DEF RequestsOK
  <2>4. QED
    BY <2>1, <2>2, <2>3, ApartBefore
<1>2. CASE outcome[r] # "accepted"
  <2>1. op[r] = "confirm" /\ pc[r] \in {"written", "unchanged"}
    <3>1. ASSUME NEW q \in Requests, NEW o, Finish(q, o), o # "accepted" PROVE FALSE
      BY <1>2, <3>1 DEF Finish, TypeOK
    <3>2. ASSUME NEW q \in Requests, CommitUpdate(q)
          PROVE  op[r] = "confirm" /\ pc[r] \in {"written", "unchanged"}
      BY <1>2, <3>1, <3>2 DEF CommitUpdate, CommitIssue, Finish, TypeOK
    <3>3. QED
      BY <1>2, <3>1, <3>2, StepCases DEF Draws, FindForIssue, Examines, Examine, Ends, Moves,
         Reload, RecordFailedAttempt, CommitInsert, CommitIssue, Tick, vars, reqVars
  <2>2. /\ Given(entity[r].codeHash, entity[r].sentAt)
        /\ entity[r].codeHash = code[r] /\ at[r] <= entity[r].sentAt + TTL
    BY <2>1 DEF RequestsOK, Saving, Issuing
  <2>3. PICK s \in Requests : /\ op[s] \in Issuing /\ outcome[s] = "sent" /\ code[s] = code[r]
                              /\ SentApart => at[s] = entity[r].sentAt
    BY <2>2 DEF Given, Sent, Sent
  <2>4. op'[s] = op[s] /\ code'[s] = code[s] /\ at'[s] = at[s] /\ outcome'[s] = "sent"
    BY <2>3, Kept DEF Issuing
  <2>5. code'[r] = code[r] /\ at'[r] = at[r]
    BY <2>1, Kept
  <2>6. QED
    BY <2>2, <2>3, <2>4, <2>5, ApartBefore
<1>3. QED
  BY <1>1, <1>2

(* A request takes one connection when it arrives and one more for a       *)
(* failed attempt, each only while there is one; it gives them all back    *)
(* when it ends.                                                           *)
LEMMA PoolKept ==
    ASSUME PoolOK, NEW r,
           \/ InFlight' \subseteq InFlight /\ Recording' \subseteq Recording
           \/ /\ FreeConnections > 0
              /\ InFlight' = InFlight \cup {r} /\ Recording' \subseteq Recording
           \/ /\ FreeConnections > 0
              /\ InFlight' \subseteq InFlight /\ Recording' = Recording \cup {r}
    PROVE  PoolOK'
<1>1. Recording \subseteq InFlight
  BY DEF Recording
<1>2. IsFiniteSet(InFlight) /\ IsFiniteSet(Recording)
  BY <1>1, FS_Subset DEF PoolOK
<1>3. /\ Cardinality(InFlight) \in Nat /\ Cardinality(Recording) \in Nat
      /\ PoolSize \in Nat
      /\ PoolSize - Cardinality(InFlight) - Cardinality(Recording) >= 0
  BY <1>2, FS_CardinalityType, BoundsAssumption DEF PoolOK, FreeConnections
<1>4. CASE InFlight' \subseteq InFlight /\ Recording' \subseteq Recording
  <2>1. /\ IsFiniteSet(InFlight') /\ Cardinality(InFlight') <= Cardinality(InFlight)
        /\ IsFiniteSet(Recording') /\ Cardinality(Recording') <= Cardinality(Recording)
    BY <1>2, <1>4, FS_Subset
  <2>2. Cardinality(InFlight') \in Nat /\ Cardinality(Recording') \in Nat
    BY <2>1, FS_CardinalityType
  <2>3. QED
    BY <1>3, <2>1, <2>2 DEF PoolOK, FreeConnections
<1>5. CASE /\ FreeConnections > 0
           /\ InFlight' = InFlight \cup {r} /\ Recording' \subseteq Recording
  <2>1. /\ IsFiniteSet(InFlight') /\ Cardinality(InFlight') <= Cardinality(InFlight) + 1
        /\ IsFiniteSet(Recording') /\ Cardinality(Recording') <= Cardinality(Recording)
    BY <1>2, <1>3, <1>5, FS_Subset, FS_AddElement
  <2>2. Cardinality(InFlight') \in Nat /\ Cardinality(Recording') \in Nat
    BY <2>1, FS_CardinalityType
  <2>3. QED
    BY <1>3, <1>5, <2>1, <2>2 DEF PoolOK, FreeConnections
<1>6. CASE /\ FreeConnections > 0
           /\ InFlight' \subseteq InFlight /\ Recording' = Recording \cup {r}
  <2>1. /\ IsFiniteSet(InFlight') /\ Cardinality(InFlight') <= Cardinality(InFlight)
        /\ IsFiniteSet(Recording') /\ Cardinality(Recording') <= Cardinality(Recording) + 1
    BY <1>2, <1>3, <1>6, FS_Subset, FS_AddElement
  <2>2. Cardinality(InFlight') \in Nat /\ Cardinality(Recording') \in Nat
    BY <2>1, FS_CardinalityType
  <2>3. QED
    BY <1>3, <1>6, <2>1, <2>2 DEF PoolOK, FreeConnections
<1>7. QED
  BY <1>4, <1>5, <1>6

(* Every step keeps the pool.  *)
LEMMA PoolStep ==
    ASSUME TypeOK, RequestsOK, PoolOK, [Next]_vars
    PROVE  PoolOK'
<1> USE DEF TypeOK
<1>1. ASSUME NEW r \in Requests, NEW o, NEW c, NEW i, Draws(r, o, c, i) PROVE PoolOK'
  <2>1. /\ pc' = [pc EXCEPT ![r] = IF i = NULL THEN "insert" ELSE "save"]
        /\ op' = [op EXCEPT ![r] = o] /\ o \in Issuing /\ pc[r] \in Looking
    BY <1>1 DEF Draws, FindForIssue
  <2>2. InFlight' = InFlight \cup {r} /\ Recording' \subseteq Recording
    BY <2>1 DEF InFlight, Recording, Issuing
  <2>3. CASE pc[r] = "idle"
    BY <1>1, <2>2, <2>3, PoolKept DEF Draws, Arrives
  <2>4. CASE pc[r] = "resend"
    BY <2>2, <2>4, PoolKept DEF InFlight
  <2>5. QED
    BY <2>1, <2>3, <2>4 DEF Looking
<1>2. ASSUME NEW r \in Requests, NEW i, Examines(r, i) PROVE PoolOK'
  <2>1. PICK o \in {"confirm", "fail"} :
          /\ Arrives(r) /\ op' = [op EXCEPT ![r] = o]
          /\ pc' = [pc EXCEPT ![r] = IF o = "fail" THEN "waiting" ELSE "save"]
    BY <1>2 DEF Examines, Examine
  <2>2. InFlight' = InFlight \cup {r} /\ Recording' \subseteq Recording
    BY <2>1 DEF InFlight, Recording
  <2>3. QED
    BY <2>1, <2>2, PoolKept DEF Arrives
<1>3. ASSUME NEW r \in Requests,
             \/ \E o : Ends(r, o)
             \/ Reload(r)
             \/ CommitUpdate(r) \/ RecordFailedAttempt(r) \/ \E i \in RowIds : CommitInsert(r, i)
      PROVE  PoolOK'
  <2>1. /\ op' = op
        /\ \/ pc' = [pc EXCEPT ![r] = "done"]
           \/ pc[r] = "save" /\ pc' = [pc EXCEPT ![r] = "update"]
    BY <1>3 DEF Ends, Reload, CommitUpdate, RecordFailedAttempt, CommitInsert, CommitIssue,
                Finish
  <2>2. InFlight' \subseteq InFlight /\ Recording' \subseteq Recording
    BY <2>1 DEF InFlight, Recording
  <2>3. QED
    BY <2>2, PoolKept
<1>4. ASSUME NEW r \in Requests, NEW step, Moves(r, step) PROVE PoolOK'
  <2>1. op' = op /\ pc' = [pc EXCEPT ![r] = step]
    BY <1>4 DEF Moves
  <2>2. CASE Arrives(r) /\ step = "resend"
    <3>1. op[r] = "none"
      BY <2>2 DEF RequestsOK, Arrives
    <3>2. InFlight' = InFlight \cup {r} /\ Recording' \subseteq Recording
      BY <2>1, <2>2, <3>1 DEF InFlight, Recording
    <3>3. QED
      BY <2>2, <3>2, PoolKept DEF Arrives
  <2>3. CASE pc[r] = "waiting" /\ FreeConnections > 0 /\ step = "save"
    <3>1. op[r] = "fail"
      BY <2>3 DEF RequestsOK
    <3>2. InFlight' \subseteq InFlight /\ Recording' = Recording \cup {r}
      BY <2>1, <2>3, <3>1 DEF InFlight, Recording
    <3>3. QED
      BY <2>3, <3>2, PoolKept
  <2>4. CASE pc[r] = "update" /\ op[r] # "fail" /\ step \in {"written", "unchanged"}
    <3>1. InFlight' \subseteq InFlight /\ Recording' \subseteq Recording
      BY <2>1, <2>4 DEF InFlight, Recording
    <3>2. QED
      BY <3>1, PoolKept
  <2>5. QED
    BY <1>4, <2>2, <2>3, <2>4 DEF Moves
<1>5. CASE Tick \/ UNCHANGED vars
  <2>1. InFlight' = InFlight /\ Recording' = Recording
    BY <1>5 DEF Tick, vars, reqVars, InFlight, Recording
  <2>2. QED
    BY <2>1, PoolKept
<1>6. QED
  BY <1>1, <1>2, <1>3, <1>4, <1>5, StepCases

-----------------------------------------------------------------------------
(* What holds however requests overlap. *)

(* It holds before the first request. *)
LEMMA EmailInvariantInit == Init => EmailIInv
<1> SUFFICES ASSUME Init PROVE EmailIInv
  OBVIOUS
<1>1. TypeOK
  BY BoundsAssumption DEF Init, TypeOK
<1>2. PoolOK
  <2>1. InFlight = {} /\ Recording = {}
    BY DEF Init, InFlight, Recording
  <2>2. QED
    BY <2>1, FS_EmptySet, BoundsAssumption DEF PoolOK, FreeConnections
<1>3. RequestsOK /\ RowsOK /\ OnlyIssuedCodesInTime
  BY DEF Init, RequestsOK, RowsOK, OnlyIssuedCodesInTime, Existing, Saving, Issuing
<1>4. QED
  BY <1>1, <1>2, <1>3 DEF EmailIInv

(* Every step keeps it. *)
LEMMA EmailInvariantStep == EmailIInv /\ [Next]_vars => EmailIInv'
BY TypeStep, RequestsStep, RowsStep, PoolStep, InTimeStep DEF EmailIInv

(* However requests overlap, fail or are broken off: every row of the slot *)
(* holds the code and the time of one committed issue.                     *)
THEOREM EmailInvariance == Spec => []EmailIInv
BY EmailInvariantInit, EmailInvariantStep, PTL DEF Spec

(* Every variable keeps its type; attemptsUsed never passes its maximum.   *)
THEOREM EmailTypes == Spec => []TypeOK
<1>1. EmailIInv => TypeOK
  BY DEF EmailIInv
<1>2. QED
  BY <1>1, EmailInvariance, PTL

(* A code is accepted only if the request that drew it committed, and only *)
(* within TTL of it.                                                       *)
THEOREM IssuedCodesInTime == Spec => []OnlyIssuedCodesInTime
<1>1. EmailIInv => OnlyIssuedCodesInTime
  BY DEF EmailIInv
<1>2. QED
  BY <1>1, EmailInvariance, PTL

(* Requests never all wait at once, but for one case: every connection of  *)
(* the pool is held by a wrong submission that wants another.  Who waits   *)
(* for a row waits for a request that only has its COMMIT left.            *)
THEOREM OnlyWrongSubmissionsStall == Spec => []OnlyThePoolStalls
<1>1. EmailIInv => OnlyThePoolStalls
  <2> SUFFICES ASSUME EmailIInv, ~PoolStalled, NEW r \in InFlight
               PROVE  \E s \in InFlight : Ready(s)
    BY DEF OnlyThePoolStalls
  <2>1. ASSUME NEW s \in InFlight, pc[s] # "waiting"
        PROVE  \E t \in InFlight : Ready(t)
    <3>1. CASE pc[s] = "update" /\ Locked(target[s])
      <4>1. PICK t \in Requests : pc[t] = "written"
        BY <3>1 DEF Locked
      <4>2. t \in InFlight /\ Ready(t)
        BY <4>1 DEF InFlight, Ready
      <4>3. QED
        BY <4>2
    <3>2. CASE ~(pc[s] = "update" /\ Locked(target[s]))
      BY <2>1, <3>2 DEF Ready
    <3>3. QED
      BY <3>1, <3>2
  <2>2. CASE \A s \in InFlight : pc[s] = "waiting"
    <3>1. Recording \subseteq InFlight /\ IsFiniteSet(InFlight) /\ PoolSize \in Nat
      BY BoundsAssumption DEF EmailIInv, PoolOK, Recording
    <3>2. FreeConnections \in Int
      BY <3>1, FS_Subset, FS_CardinalityType DEF FreeConnections
    <3>3. FreeConnections > 0
      BY <2>2, <3>2 DEF PoolStalled
    <3>4. Ready(r)
      BY <2>2, <3>3 DEF Ready
    <3>5. QED
      BY <3>4
  <2>3. QED
    BY <2>1, <2>2
<1>2. QED
  BY <1>1, EmailInvariance, PTL

-----------------------------------------------------------------------------
(* What the runs call MaxInFlight = 1: nobody overtakes a request. *)
OneAtATime == MaxInFlight = 1

-----------------------------------------------------------------------------
(* One request at a time. *)

(* Who arrives finds nobody. *)
LEMMA ArrivesAlone ==
    ASSUME OneAtATime, IsFiniteSet(InFlight), NEW r \in Requests, Arrives(r)
    PROVE  InFlight = {}
<1>1. Cardinality(InFlight) \in Nat /\ Cardinality(InFlight) < 1
  BY FS_CardinalityType DEF Arrives, OneAtATime
<1>2. Cardinality(InFlight) = 0
  BY <1>1
<1>3. QED
  BY <1>2, FS_EmptySet

(* A request that goes on was alone and stays alone. *)
LEMMA AloneStays ==
    ASSUME AloneOK, NEW r \in Requests, NEW step, TypeOK,
           pc' = [pc EXCEPT ![r] = step], r \in InFlight \/ InFlight = {}
    PROVE  /\ InFlight \subseteq {r} /\ InFlight' \subseteq {r}
           /\ IsFiniteSet(InFlight)' /\ \A s, t \in InFlight' : s = t
<1>1. InFlight \subseteq {r}
  BY DEF AloneOK
<1>2. InFlight' \subseteq {r}
  BY <1>1 DEF InFlight, TypeOK
<1>3. IsFiniteSet({r})
  BY FS_Singleton
<1>4. IsFiniteSet(InFlight')
  BY <1>2, <1>3, FS_Subset
<1>5. QED
  BY <1>1, <1>2, <1>4

(* The steps, with what a single request has to do with the row: one that  *)
(* writes it makes it the entity.                                          *)
Installs(r, i) ==
    /\ pc[r] \in {"insert", "update", "written", "unchanged"}
    /\ i \in RowIds /\ Existing \subseteq {i}
    /\ pc[r] = "insert" => Existing = {}
    /\ pc[r] # "insert" => i = target[r] /\ i \in Existing
    /\ rows' = [rows EXCEPT ![i] = entity[r]]
    /\ \/ op[r] \in Issuing /\ CommitIssue(r)
       \/ op[r] = "confirm" /\ Finish(r, "accepted") /\ UNCHANGED <<issued, replaced>>
       \/ op[r] = "fail" /\ Finish(r, "wrong") /\ UNCHANGED <<issued, replaced>>
    /\ UNCHANGED <<now, op, code, target, entity, reloaded, at, late>>

(* A request alone writes what it decided on the row it read. *)
LEMMA WritesAlone ==
    ASSUME EmailIInv, AloneOK, NEW r \in Requests,
           CommitUpdate(r) \/ RecordFailedAttempt(r) \/ \E i \in RowIds : CommitInsert(r, i)
    PROVE  \E i : Installs(r, i)
<1>1. ASSUME NEW i \in RowIds, CommitInsert(r, i) PROVE Installs(r, i)
  <2>1. r \in InFlight /\ pc[r] = "insert"
    BY <1>1 DEF CommitInsert, InFlight
  <2>2. Existing = {} /\ op[r] \in Issuing
    BY <2>1 DEF AloneOK, Sees, Issuing
  <2>3. QED
    BY <1>1, <2>1, <2>2 DEF CommitInsert, Installs
<1>2. ASSUME CommitUpdate(r) \/ RecordFailedAttempt(r) PROVE Installs(r, target[r])
  <2>1. pc[r] \in Saving \ {"save"} /\ r \in InFlight /\ pc[r] \in {"update", "written", "unchanged"}
    BY <1>2 DEF CommitUpdate, RecordFailedAttempt, UpdateReady, InFlight, Saving
  <2>2. /\ target[r] \in Existing /\ entity[r] \in Row
        /\ op[r] # "none" /\ (CommitUpdate(r) => op[r] # "fail")
    BY <2>1 DEF EmailIInv, RequestsOK, Saving, CommitUpdate
  <2>3. reloaded[r] = rows[target[r]]
    BY <2>1 DEF AloneOK, Sees
  <2>4. rows[target[r]] \in Row /\ target[r] \in RowIds
    BY <2>2 DEF EmailIInv, TypeOK, Existing
  <2>5. Saved(rows[target[r]], reloaded[r], entity[r]) = entity[r]
    BY <2>2, <2>3, <2>4, SavedAlone
  <2>6. rows' = [rows EXCEPT ![target[r]] = entity[r]]
    BY <1>2, <2>5 DEF CommitUpdate, RecordFailedAttempt
  <2>7. Existing \subseteq {target[r]}
    BY <2>2 DEF AloneOK
  <2>8. op[r] \in Issuing \cup {"confirm", "fail"}
    BY <2>2 DEF EmailIInv, TypeOK, Issuing
  <2>9. QED
    BY <1>2, <2>1, <2>2, <2>4, <2>6, <2>7, <2>8
    DEF CommitUpdate, RecordFailedAttempt, Installs, histVars
<1>3. QED
  BY <1>1, <1>2

(* The row a request writes fits the slot: its code is the one drawn, or   *)
(* the one that was there.                                                 *)
LEMMA InstalledRow ==
    ASSUME EmailIInv, AloneOK, NEW r \in Requests, NEW i, Installs(r, i)
    PROVE  /\ r \in InFlight /\ Sees(r) /\ entity[r] \in Row
           /\ rows'[i] = entity[r] /\ Existing' = {i}
           /\ op[r] \in Issuing => entity[r].codeHash = code[r] /\ entity[r].sentAt = at[r]
           /\ op[r] \notin Issuing => i \in Existing /\ rows[i] \in Row
<1>1. r \in InFlight /\ pc[r] \in Saving \cup {"insert"}
  BY DEF Installs, InFlight, Saving
<1>2. /\ entity[r] \in Row
      /\ op[r] \in Issuing => entity[r].codeHash = code[r] /\ entity[r].sentAt = at[r]
      /\ pc[r] = "insert" => op[r] \in Issuing
  BY <1>1 DEF EmailIInv, RequestsOK
<1>3. rows'[i] = entity[r] /\ \A j \in RowIds \ {i} : rows'[j] = rows[j]
  BY DEF Installs, EmailIInv, TypeOK
<1>4. Existing' = {i}
  BY <1>2, <1>3, RowsAssumption DEF Existing, Installs
<1>5. op[r] \notin Issuing => i \in Existing /\ rows[i] \in Row
  BY <1>2 DEF Installs, EmailIInv, TypeOK, Existing
<1>6. QED
  BY <1>1, <1>2, <1>3, <1>4, <1>5 DEF AloneOK

(* What any step does when nobody overtakes a request. *)
LEMMA SerialCases ==
    ASSUME OneAtATime, EmailIInv, AloneOK, [Next]_vars
    PROVE  \/ \E r \in Requests :
                /\ r \in InFlight \/ InFlight = {}
                /\ \/ \E o, c, i : Draws(r, o, c, i)
                   \/ \E i \in Existing : Examines(r, i)
                   \/ \E o : Ends(r, o)
                   \/ \E step : Moves(r, step)
                   \/ Reload(r)
                   \/ \E i : Installs(r, i)
           \/ Tick
           \/ UNCHANGED vars
<1>1. ASSUME NEW r \in Requests,
             \/ \E o, c, i : Draws(r, o, c, i)
             \/ \E i \in Existing : Examines(r, i)
             \/ \E o : Ends(r, o)
             \/ \E step : Moves(r, step)
             \/ Reload(r)
             \/ \E i : Installs(r, i)
      PROVE  r \in InFlight \/ InFlight = {}
  <2>1. Arrives(r) \/ pc[r] \notin {"idle", "done"}
    BY <1>1 DEF Draws, Looking, Examines, Examine, Ends, Moves, Reload, Installs
  <2>2. QED
    BY <2>1, ArrivesAlone DEF AloneOK, InFlight
<1>2. QED
  BY <1>1, WritesAlone, StepCases DEF EmailIInv

(* A step keeps the only request at the row as it is. *)
LEMMA AloneStep ==
    ASSUME OneAtATime, EmailIInv, AloneOK, LedgerOK, [Next]_vars
    PROVE  AloneOK'
<1>1. TypeOK /\ RequestsOK
  BY DEF EmailIInv
<1>2. \A i \in Existing : i \in RowIds /\ rows[i] \in Row
  BY <1>1 DEF Existing, TypeOK
<1>3. SUFFICES ASSUME NEW r \in Requests, r \in InFlight \/ InFlight = {},
                      \/ \E o, c, i : Draws(r, o, c, i)
                      \/ \E i \in Existing : Examines(r, i)
                      \/ \E o : Ends(r, o)
                      \/ \E step : Moves(r, step)
                      \/ Reload(r)
                      \/ \E i : Installs(r, i)
               PROVE  AloneOK'
  <2>1. CASE Tick
    <3>1. UNCHANGED <<rows, reqVars>> /\ now' = now + 1 /\ now \in Nat
      BY <1>1, <2>1 DEF Tick, TypeOK
    <3>2. ASSUME NEW r \in Requests, Sees(r) PROVE Sees(r)'
      <4>1. pc[r] = "resend" => (\E i \in Existing : MayResend(rows[i]))'
        BY <1>2, <3>1, <3>2, BoundsAssumption DEF Sees, MayResend, Existing, Row
      <4>2. QED
        BY <3>1, <3>2, <4>1 DEF Sees, reqVars, Existing, Pending, Exhausted, Sent
    <3>3. InFlight' = InFlight /\ Existing' = Existing
      BY <3>1 DEF reqVars, InFlight, Existing
    <3>4. QED
      BY <3>2, <3>3 DEF AloneOK, InFlight
  <2>2. CASE UNCHANGED vars
    BY <2>2 DEF vars, reqVars, AloneOK, InFlight, Existing, Sees, MayResend, Pending,
                Exhausted, Sent
  <2>3. QED
    BY <1>3, <2>1, <2>2, SerialCases
<1>4. SUFFICES /\ \E step : pc' = [pc EXCEPT ![r] = step]
               /\ \A i, j \in Existing' : i = j
               /\ r \in InFlight' => Sees(r)'
  BY <1>1, <1>3, AloneStays DEF AloneOK
<1> USE <1>1 DEF TypeOK
<1>5. ASSUME rows' = rows PROVE Existing' = Existing /\ \A i, j \in Existing' : i = j
  BY <1>5 DEF AloneOK, Existing
<1>6. ASSUME NEW o, NEW c, NEW i, Draws(r, o, c, i)
      PROVE  /\ \E step : pc' = [pc EXCEPT ![r] = step]
             /\ \A k, j \in Existing' : k = j
             /\ Sees(r)'
  <2>1. /\ op' = [op EXCEPT ![r] = o] /\ code' = [code EXCEPT ![r] = c]
        /\ target' = [target EXCEPT ![r] = i] /\ at' = [at EXCEPT ![r] = now]
        /\ entity' = [entity EXCEPT ![r] =
                [codeHash |-> c, sentAt |-> now, attemptsUsed |-> 0, consumed |-> FALSE]]
        /\ pc' = [pc EXCEPT ![r] = IF i = NULL THEN "insert" ELSE "save"]
        /\ UNCHANGED <<rows, now, outcome>> /\ o \in Issuing
        /\ i \in Found /\ \A s \in Requests : code[s] # c
        /\ o = "resend" <=> pc[r] = "resend"
    BY <1>6 DEF Draws, FindForIssue, Fresh
  <2>2. Existing' = Existing /\ \A k, j \in Existing' : k = j
    BY <1>5, <2>1
  <2>3. ASSUME pc[r] = "resend" PROVE i \in Existing /\ now - rows[i].sentAt >= Interval
    <3>1. r \in InFlight
      BY <2>3 DEF InFlight
    <3>2. PICK j \in Existing : MayResend(rows[j])
      BY <2>3, <3>1 DEF AloneOK, Sees
    <3>3. i = j
      BY <2>1, <3>2 DEF AloneOK, Found
    <3>4. QED
      BY <3>2, <3>3 DEF MayResend
  <2>4. i = NULL => Existing = {} /\ o = "issue"
    <3>1. NULL \notin Existing
      BY NullAssumption DEF Existing
    <3>2. QED
      BY <2>1, <2>3, <3>1 DEF Found, Issuing
  <2>5. \A s \in Requests \ {r} : code'[s] # code'[r] /\ (Sent(s)' => at'[s] <= at'[r])
    BY <2>1 DEF LedgerOK, Sent
  <2>6. /\ pc'[r] = IF i = NULL THEN "insert" ELSE "save"
        /\ op'[r] = o /\ target'[r] = i /\ at'[r] = now
        /\ entity'[r].attemptsUsed = 0 /\ entity'[r].consumed = FALSE
    BY <2>1
  <2>7. Sees(r)'
    BY <2>1, <2>2, <2>3, <2>4, <2>5, <2>6 DEF Sees, Saving, Issuing
  <2>8. QED
    BY <2>1, <2>2, <2>7
<1>7. ASSUME NEW i \in Existing, Examines(r, i)
      PROVE  /\ \E step : pc' = [pc EXCEPT ![r] = step]
             /\ \A k, j \in Existing' : k = j
             /\ Sees(r)'
  <2>1. PICK o, e :
           /\ o \in {"confirm", "fail"}
           /\ Examine(r, i, o, e)
           /\ o = "confirm" => e = [rows[i] EXCEPT !.consumed = TRUE]
           /\ o = "fail" => e = [rows[i] EXCEPT !.attemptsUsed = @ + 1]
    BY <1>7 DEF Examines
  <2>2. /\ op' = [op EXCEPT ![r] = o] /\ code' = [code EXCEPT ![r] = rows[i].codeHash]
        /\ target' = [target EXCEPT ![r] = i]
        /\ entity' = [entity EXCEPT ![r] = e]
        /\ pc' = [pc EXCEPT ![r] = IF o = "fail" THEN "waiting" ELSE "save"]
        /\ rows' = rows
        /\ Pending(rows[i]) /\ ~Exhausted(rows[i])
    BY <2>1 DEF Examine
  <2>3. Sees(r)'
    BY <2>1, <2>2 DEF Sees, Saving, Issuing
  <2>4. QED
    BY <1>5, <2>2, <2>3
<1>8. ASSUME NEW o, Ends(r, o) \/ \E i : Installs(r, i)
      PROVE  /\ \E step : pc' = [pc EXCEPT ![r] = step]
             /\ \A k, j \in Existing' : k = j
             /\ r \notin InFlight'
  <2>1. pc' = [pc EXCEPT ![r] = "done"]
    BY <1>8 DEF Ends, Installs, Finish, CommitIssue
  <2>2. \A k, j \in Existing' : k = j
    <3>1. CASE Ends(r, o)
      BY <1>5, <3>1 DEF Ends
    <3>2. CASE \E i : Installs(r, i)
      BY <3>2, InstalledRow
    <3>3. QED
      BY <1>8, <3>1, <3>2
  <2>3. QED
    BY <2>1, <2>2 DEF InFlight
<1>9. ASSUME NEW step, Moves(r, step)
      PROVE  /\ \E x : pc' = [pc EXCEPT ![r] = x]
             /\ \A k, j \in Existing' : k = j
             /\ Sees(r)'
  <2>1. /\ pc' = [pc EXCEPT ![r] = step]
        /\ UNCHANGED <<rows, now, op, code, target, entity, reloaded, at, outcome>>
    BY <1>9 DEF Moves
  <2>2. CASE pc[r] = "idle"
    <3>1. /\ step = "resend" /\ \E i \in Existing : MayResend(rows[i])
          /\ op[r] = "none"
      BY <1>9, <2>2 DEF Moves, RequestsOK
    <3>2. QED
      BY <1>5, <2>1, <3>1 DEF Sees, Saving, Issuing, MayResend
  <2>3. CASE pc[r] # "idle"
    <3>1. r \in InFlight /\ Sees(r)
      BY <1>3, <1>9, <2>3 DEF Moves, Arrives, AloneOK, InFlight
    <3>2. /\ step = "save" \/ (pc[r] = "update" /\ step \in {"written", "unchanged"})
          /\ pc'[r] = step
      BY <1>9, <2>1, <2>3 DEF Moves, Arrives
    <3>3. Sees(r)'
      BY <2>1, <3>1, <3>2 DEF Sees, Saving, Pending, Exhausted, Sent
    <3>4. QED
      BY <1>5, <2>1, <3>3
  <2>4. QED
    BY <2>2, <2>3
<1>10. ASSUME Reload(r)
       PROVE  /\ \E x : pc' = [pc EXCEPT ![r] = x]
              /\ \A k, j \in Existing' : k = j
              /\ Sees(r)'
  <2>1. /\ pc' = [pc EXCEPT ![r] = "update"] /\ pc[r] = "save"
        /\ reloaded' = [reloaded EXCEPT ![r] = rows[target[r]]]
        /\ UNCHANGED <<rows, op, code, target, entity, at, outcome>>
    BY <1>10 DEF Reload
  <2>2. Sees(r)
    BY <2>1 DEF AloneOK, InFlight
  <2>3. Sees(r)'
    BY <2>1, <2>2 DEF Sees, Saving, Pending, Exhausted, Sent
  <2>4. QED
    BY <1>5, <2>1, <2>3
<1>11. QED
  BY <1>3, <1>6, <1>7, <1>8, <1>9, <1>10

-----------------------------------------------------------------------------
(* What the row knows. *)

(* Who was told that a code is wrong, or right, had it before. *)
LEMMA ToldStays ==
    ASSUME EmailIInv, [Next]_vars, NEW o \in {"wrong", "accepted"}, NEW c,
           \A s \in Requests : \/ outcome'[s] = outcome[s]
                               \/ outcome'[s] \in {"sent", "refused", "failed"}
                               \/ outcome[s] = "none" /\ (outcome'[s] # o \/ code'[s] # c)
    PROVE  Told(o, c)' = Told(o, c)
<1>1. ASSUME NEW s \in Requests
      PROVE  outcome'[s] = o /\ code'[s] = c <=> outcome[s] = o /\ code[s] = c
  <2>1. outcome[s] = o => outcome'[s] = outcome[s] /\ code'[s] = code[s]
    BY Kept DEF EmailIInv, RequestsOK
  <2>2. QED
    BY <2>1
<1>2. QED
  BY <1>1 DEF Told

(* What LedgerOK says, and the bounds that follow from it. *)
Ledger == LedgerOK /\ AttemptsBounded

(* A step that neither writes the row nor tells anybody what became of a   *)
(* code.                                                                   *)
LEMMA QuietStep ==
    ASSUME EmailIInv, Ledger, [Next]_vars, UNCHANGED <<rows, issued, replaced, late>>,
           \A s \in Requests : outcome'[s] = outcome[s] \/ outcome'[s] \in {"refused", "failed"},
           \A s \in Requests : at'[s] <= now'
    PROVE  Ledger'
<1>1. \A o \in {"wrong", "accepted"} : \A c : Told(o, c)' = Told(o, c)
  <2>1. ASSUME NEW o \in {"wrong", "accepted"}, NEW c PROVE Told(o, c)' = Told(o, c)
    BY ToldStays
  <2>2. QED
    BY <2>1
<1>2. ASSUME NEW s \in Requests
      PROVE  /\ Sent(s)' => Sent(s) /\ at'[s] = at[s] /\ op'[s] = op[s]
             /\ Sent(s) => Sent(s)' /\ code'[s] = code[s]
             /\ outcome'[s] = "accepted" => outcome[s] = "accepted" /\ code'[s] = code[s]
  <2>1. outcome[s] # "none" =>
           /\ op'[s] = op[s] /\ code'[s] = code[s] /\ at'[s] = at[s]
           /\ outcome'[s] = outcome[s]
    BY Kept DEF EmailIInv, RequestsOK
  <2>2. QED
    BY <2>1 DEF Sent
<1>3. Existing' = Existing
  BY DEF Existing
<1>4. LedgerOK'
  <2>1. \A c \in issued' : \E s \in Requests : Sent(s)' /\ code'[s] = c
    BY <1>2 DEF Ledger, LedgerOK
  <2>2. \A r, s \in Requests :
           outcome'[r] = "accepted" /\ outcome'[s] = "accepted" /\ code'[r] = code'[s] => r = s
    BY <1>2 DEF Ledger, LedgerOK
  <2>3. \A c \in Codes : IsFiniteSet(Told("wrong", c)')
    BY <1>1 DEF Ledger, LedgerOK
  <2>4. \A i \in Existing' :
           /\ rows'[i].codeHash \notin replaced'
           /\ Told("accepted", rows[i].codeHash)' # {} => rows'[i].consumed
           /\ Cardinality(Told("wrong", rows[i].codeHash)') <= rows'[i].attemptsUsed
           /\ \A s \in Requests : Sent(s)' => at'[s] <= rows'[i].sentAt
    <3>1. ASSUME NEW i \in Existing'
          PROVE  /\ Told("accepted", rows[i].codeHash)' = Told("accepted", rows[i].codeHash)
                 /\ Told("wrong", rows[i].codeHash)' = Told("wrong", rows[i].codeHash)
      <4>1. PICK c : c = rows[i].codeHash
        OBVIOUS
      <4>2. Told("accepted", c)' = Told("accepted", c) /\ Told("wrong", c)' = Told("wrong", c)
        BY <1>1
      <4>3. QED
        BY <4>1, <4>2
    <3>2. QED
      BY <1>2, <1>3, <3>1 DEF Ledger, LedgerOK
  <2>5. QED
    BY <2>1, <2>2, <2>3, <2>4 DEF Ledger, LedgerOK
<1>5. AttemptsBounded'
  BY <1>1 DEF Ledger, AttemptsBounded
<1>6. QED
  BY <1>4, <1>5 DEF Ledger

(* A step that writes the row: what was issued, accepted or refused. *)
LEMMA InstallStep ==
    ASSUME OneAtATime, EmailIInv, AloneOK, Ledger, [Next]_vars,
           NEW r \in Requests, NEW i, Installs(r, i)
    PROVE  Ledger'
<1>1. TypeOK /\ RequestsOK
  BY DEF EmailIInv
<1>2. PICK e, c : e = entity[r] /\ c = code[r]
  OBVIOUS
<1>3. /\ r \in InFlight /\ Sees(r) /\ e \in Row /\ outcome[r] = "none"
      /\ rows'[i] = e /\ Existing' = {i}
      /\ op[r] \in Issuing => e.codeHash = c /\ e.sentAt = at[r]
      /\ op[r] \notin Issuing => i \in Existing /\ rows[i] \in Row
  BY <1>1, <1>2, InstalledRow DEF RequestsOK, InFlight
<1>4. UNCHANGED <<op, code, at, now, late>>
  BY DEF Installs
<1>5. \A s \in Requests \ {r} : outcome'[s] = outcome[s]
  BY <1>1 DEF Installs, CommitIssue, Finish, TypeOK
<1>6. at' = at /\ now' = now /\ late' = {} /\ \A s \in Requests : at'[s] <= now'
  BY <1>4 DEF Ledger, LedgerOK
<1>7. c \in Codes \cup {NULL}
  BY <1>1, <1>2 DEF TypeOK
(* A new code. *)
<1>8. CASE op[r] \in Issuing
  <2>1. /\ outcome'[r] = "sent" /\ issued' = issued \cup {c} /\ replaced' = replaced \cup issued
    BY <1>1, <1>2, <1>8 DEF Installs, CommitIssue, Finish, TypeOK, Issuing
  <2>2. /\ e.attemptsUsed = 0 /\ ~e.consumed /\ e.codeHash = c /\ e.sentAt = at[r]
        /\ \A s \in Requests \ {r} : code[s] # c /\ (Sent(s) => at[s] <= at[r])
    BY <1>2, <1>3, <1>8 DEF Sees
  <2>3. \A o \in {"wrong", "accepted"} : \A d : Told(o, d)' = Told(o, d)
    <3>1. ASSUME NEW o \in {"wrong", "accepted"}, NEW d PROVE Told(o, d)' = Told(o, d)
      BY <1>5, <2>1, ToldStays
    <3>2. QED
      BY <3>1
  <2>4. \A s \in Requests \ {r} : Sent(s)' <=> Sent(s)
    BY <1>4, <1>5 DEF Sent
  <2>5. Sent(r)' /\ ~Sent(r)
    BY <1>3, <1>4, <1>8, <2>1 DEF Sent
  <2>6. c \notin issued
    BY <1>2, <1>5, <2>2, <2>5 DEF Ledger, LedgerOK
  <2>7. Told("wrong", c)' = {} /\ Told("accepted", c)' = {}
    BY <1>2, <1>4, <2>1, <2>2 DEF Told
  <2>8. LedgerOK'
    <3>1. replaced' \subseteq issued' /\ c \notin replaced'
      BY <2>1, <2>6 DEF Ledger, LedgerOK
    <3>2. \A d \in issued' : \E s \in Requests : Sent(s)' /\ code'[s] = d
      <4>1. ASSUME NEW d \in issued PROVE \E s \in Requests : Sent(s)' /\ code'[s] = d
        BY <1>4, <2>4, <2>5, <4>1 DEF Ledger, LedgerOK
      <4>2. Sent(r)' /\ code'[r] = c
        BY <1>2, <1>4, <2>5
      <4>3. QED
        BY <2>1, <4>1, <4>2
    <3>3. \A x, y \in Requests :
             outcome'[x] = "accepted" /\ outcome'[y] = "accepted" /\ code'[x] = code'[y] => x = y
      BY <1>4, <1>5, <2>1 DEF Ledger, LedgerOK
    <3>4. \A d \in Codes : IsFiniteSet(Told("wrong", d)')
      BY <2>3 DEF Ledger, LedgerOK
    <3>5. Cardinality(Told("wrong", c)') = 0
      BY <2>7, FS_EmptySet
    <3>6. \A s \in Requests : Sent(s)' => at'[s] <= e.sentAt
      <4>1. at[r] \in Int
        BY <1>1 DEF TypeOK
      <4>2. QED
        BY <1>4, <2>2, <2>4, <4>1
    <3>7. Told("wrong", rows[i].codeHash)' = Told("wrong", c)'
          /\ Told("accepted", rows[i].codeHash)' = Told("accepted", c)'
      BY <1>3, <2>2
    <3>8. QED
      BY <1>3, <1>6, <2>2, <2>7, <3>1, <3>2, <3>3, <3>4, <3>5, <3>6, <3>7 DEF LedgerOK
  <2>9. AttemptsBounded'
    BY <2>3 DEF Ledger, AttemptsBounded
  <2>10. QED
    BY <2>8, <2>9 DEF Ledger
(* The code of the row is accepted, or refused once more. *)
<1>9. CASE op[r] \notin Issuing
  <2>1. /\ op[r] \in {"confirm", "fail"} /\ UNCHANGED <<issued, replaced>>
        /\ outcome'[r] = IF op[r] = "confirm" THEN "accepted" ELSE "wrong"
        /\ i = target[r]
    BY <1>1, <1>9 DEF Installs, Finish, TypeOK, Issuing, RequestsOK
  <2>2. /\ i \in Existing /\ rows[i] \in Row /\ c = rows[i].codeHash
        /\ ~rows[i].consumed /\ rows[i].attemptsUsed < MaxAttempts
        /\ op[r] = "confirm" => e = [rows[i] EXCEPT !.consumed = TRUE]
        /\ op[r] = "fail" => e = [rows[i] EXCEPT !.attemptsUsed = @ + 1]
    BY <1>2, <1>3, <1>9, <2>1, BoundsAssumption DEF Sees, Pending, Exhausted, Row
  <2>3. /\ e.codeHash = c /\ e.sentAt = rows[i].sentAt
        /\ op[r] = "confirm" => e.consumed /\ e.attemptsUsed = rows[i].attemptsUsed
        /\ op[r] = "fail" => ~e.consumed /\ e.attemptsUsed = rows[i].attemptsUsed + 1
    BY <2>1, <2>2 DEF Row
  <2>4. \A s \in Requests : Sent(s)' <=> Sent(s)
    BY <1>4, <1>5, <1>9 DEF Sent
  <2>5. \A o \in {"wrong", "accepted"} : \A d : outcome'[r] # o \/ d # c => Told(o, d)' = Told(o, d)
    <3>1. ASSUME NEW o \in {"wrong", "accepted"}, NEW d, outcome'[r] # o \/ d # c
          PROVE  Told(o, d)' = Told(o, d)
      <4>1. \A s \in Requests : \/ outcome'[s] = outcome[s]
                                \/ outcome[s] = "none" /\ (outcome'[s] # o \/ code'[s] # d)
        BY <1>2, <1>3, <1>4, <1>5, <3>1
      <4>2. QED
        BY <4>1, ToldStays
    <3>2. QED
      BY <3>1
  <2>6. ASSUME NEW o, outcome'[r] = o PROVE Told(o, c)' = Told(o, c) \cup {r}
    BY <1>2, <1>4, <1>5, <1>3, <2>6 DEF Told
  <2>7. /\ Told("accepted", c) = {}
        /\ Cardinality(Told("wrong", c)) <= rows[i].attemptsUsed
        /\ IsFiniteSet(Told("wrong", c)) /\ c \in Codes /\ r \notin Told("wrong", c)
        /\ c \notin replaced
    BY <1>3, <2>2 DEF Ledger, LedgerOK, Told, Row
  <2>8. /\ IsFiniteSet(Told("wrong", c)')
        /\ Cardinality(Told("wrong", c)') <= e.attemptsUsed
    <3>1. CASE op[r] = "confirm"
      BY <2>1, <2>3, <2>5, <2>7, <3>1
    <3>2. CASE op[r] = "fail"
      <4>1. Told("wrong", c)' = Told("wrong", c) \cup {r}
        BY <2>1, <2>6, <3>2
      <4>2. /\ IsFiniteSet(Told("wrong", c) \cup {r})
            /\ Cardinality(Told("wrong", c) \cup {r}) = Cardinality(Told("wrong", c)) + 1
            /\ Cardinality(Told("wrong", c)) \in Nat
        BY <2>7, FS_AddElement, FS_CardinalityType
      <4>3. rows[i].attemptsUsed \in Int
        BY <2>2 DEF Row
      <4>4. /\ IsFiniteSet(Told("wrong", c)')
            /\ Cardinality(Told("wrong", c)') = Cardinality(Told("wrong", c)) + 1
        BY <4>1, <4>2
      <4>5. QED
        BY <2>3, <2>7, <3>2, <4>2, <4>3, <4>4
    <3>3. QED
      BY <2>1, <3>1, <3>2
  <2>9. Told("accepted", c)' # {} => e.consumed
    BY <2>1, <2>3, <2>5, <2>7
  <2>10. \A x, y \in Requests :
            outcome'[x] = "accepted" /\ outcome'[y] = "accepted" /\ code'[x] = code'[y] => x = y
    <3>1. ASSUME NEW x \in Requests \ {r}, outcome'[x] = "accepted" PROVE code[x] # c
      BY <1>5, <2>7, <3>1 DEF Told
    <3>2. QED
      BY <1>2, <1>4, <1>5, <3>1 DEF Ledger, LedgerOK
  <2>11. LedgerOK'
    <3>1. Told("wrong", rows[i].codeHash)' = Told("wrong", c)'
          /\ Told("accepted", rows[i].codeHash)' = Told("accepted", c)'
      BY <1>3, <2>3
    <3>2. \A d \in Codes : IsFiniteSet(Told("wrong", d)')
      BY <2>5, <2>8 DEF Ledger, LedgerOK
    <3>3. \A s \in Requests : Sent(s)' => at'[s] <= e.sentAt
      BY <1>4, <2>2, <2>3, <2>4 DEF Ledger, LedgerOK
    <3>4. /\ replaced' \subseteq issued'
          /\ \A d \in issued' : \E s \in Requests : Sent(s)' /\ code'[s] = d
      BY <1>4, <2>1, <2>4 DEF Ledger, LedgerOK
    <3>5. QED
      BY <1>3, <1>6, <2>1, <2>3, <2>7, <2>8, <2>9, <2>10, <3>1, <3>2, <3>3, <3>4 DEF LedgerOK
  <2>12. AttemptsBounded'
    <3>1. e.attemptsUsed <= MaxAttempts /\ e.attemptsUsed \in Int
      BY <1>3 DEF Row
    <3>2. Cardinality(Told("wrong", c)') <= MaxAttempts
      <4>1. Cardinality(Told("wrong", c)') \in Nat
        BY <2>8, FS_CardinalityType
      <4>2. QED
        BY <2>8, <3>1, <4>1, BoundsAssumption
    <3>3. QED
      BY <2>5, <3>2 DEF Ledger, AttemptsBounded
  <2>13. QED
    BY <2>11, <2>12 DEF Ledger
<1>10. QED
  BY <1>8, <1>9

-----------------------------------------------------------------------------
(* The invariant, and what follows from it. *)

(* The other steps write nothing and tell nobody that a code was right or  *)
(* wrong.                                                                  *)
LEMMA QuietCases ==
    ASSUME EmailIInv, AloneOK, LedgerOK, NEW r \in Requests,
           \/ \E o, c, i : Draws(r, o, c, i)
           \/ \E i \in Existing : Examines(r, i)
           \/ \E o : Ends(r, o)
           \/ \E step : Moves(r, step)
           \/ Reload(r)
    PROVE  /\ UNCHANGED <<rows, issued, replaced, late>>
           /\ \A s \in Requests : outcome'[s] = outcome[s] \/ outcome'[s] \in {"refused", "failed"}
           /\ \A s \in Requests : at'[s] <= now'
<1> USE DEF EmailIInv, TypeOK
<1>1. \A s \in Requests : at[s] <= now
  BY DEF LedgerOK
<1>2. ASSUME NEW o, NEW c, NEW i, Draws(r, o, c, i)
      PROVE  /\ UNCHANGED <<rows, issued, replaced, late, outcome, now>>
             /\ at' = [at EXCEPT ![r] = now]
  BY <1>2 DEF Draws, FindForIssue, histVars
<1>3. ASSUME NEW i \in Existing, Examines(r, i)
      PROVE  /\ UNCHANGED <<rows, issued, replaced, late, outcome, now>>
             /\ at' = [at EXCEPT ![r] = now]
  BY <1>3 DEF Examines, Examine, LedgerOK
<1>4. ASSUME at' = [at EXCEPT ![r] = now], now' = now
      PROVE  \A s \in Requests : at'[s] <= now'
  BY <1>1, <1>4
<1>5. ASSUME NEW o, Ends(r, o)
      PROVE  /\ UNCHANGED <<rows, issued, replaced, late, at, now>>
             /\ \A s \in Requests : outcome'[s] = outcome[s] \/ outcome'[s] \in {"refused", "failed"}
  BY <1>5 DEF Ends, Finish, histVars
<1>6. ASSUME (\E step : Moves(r, step)) \/ Reload(r)
      PROVE  UNCHANGED <<rows, issued, replaced, late, at, outcome, now>>
  BY <1>6 DEF Moves, Reload, histVars
<1> HIDE DEF EmailIInv, TypeOK
<1>7. QED
  BY <1>1, <1>2, <1>3, <1>4, <1>5, <1>6

(* A step keeps the history of the slot true to its row. *)
LEMMA LedgerStep ==
    ASSUME OneAtATime, EmailIInv, AloneOK, Ledger, [Next]_vars
    PROVE  Ledger'
<1>1. LedgerOK
  BY DEF Ledger
<1>2. CASE Tick \/ UNCHANGED vars
  <2>1. /\ UNCHANGED <<rows, issued, replaced, late, outcome, at>>
        /\ now' = now + 1 \/ now' = now
    BY <1>2 DEF Tick, vars, reqVars, histVars
  <2>2. now \in Int /\ \A s \in Requests : at[s] \in Int /\ at[s] <= now
    BY <1>1 DEF LedgerOK, EmailIInv, TypeOK
  <2>3. \A s \in Requests : at'[s] <= now'
    BY <2>1, <2>2
  <2>4. QED
    BY <2>1, <2>3, QuietStep
<1>3. ASSUME NEW r \in Requests, NEW i, Installs(r, i) PROVE Ledger'
  BY <1>3, InstallStep
<1>4. ASSUME NEW r \in Requests,
             \/ \E o, c, i : Draws(r, o, c, i)
             \/ \E i \in Existing : Examines(r, i)
             \/ \E o : Ends(r, o)
             \/ \E step : Moves(r, step)
             \/ Reload(r)
      PROVE  Ledger'
  BY <1>1, <1>4, QuietCases, QuietStep
<1>5. QED
  BY <1>2, <1>3, <1>4, SerialCases

(* It holds before the first request. *)
LEMMA SerialInvariantInit == Init => SerialIInv
<1> SUFFICES ASSUME Init PROVE SerialIInv
  OBVIOUS
<1>1. EmailIInv
  BY EmailInvariantInit
<1>2. InFlight = {} /\ Existing = {} /\ \A o \in {"wrong", "accepted"} : \A c : Told(o, c) = {}
  BY DEF Init, InFlight, Existing, Told
<1>3. IsFiniteSet({}) /\ Cardinality({}) = 0
  BY FS_EmptySet
<1>4. AloneOK
  BY <1>2, <1>3 DEF AloneOK
<1>5. LedgerOK
  BY <1>2, <1>3 DEF Init, LedgerOK
<1>6. AttemptsBounded
  <2>1. ASSUME NEW c \in Codes PROVE Cardinality(Told("wrong", c)) <= MaxAttempts
    BY <1>2, <1>3, BoundsAssumption
  <2>2. QED
    BY <2>1 DEF AttemptsBounded
<1>7. QED
  BY <1>1, <1>4, <1>5, <1>6 DEF SerialIInv

(* Every step keeps it, one request at a time. *)
LEMMA SerialInvariantStep == OneAtATime /\ SerialIInv /\ [Next]_vars => SerialIInv'
BY EmailInvariantStep, AloneStep, LedgerStep DEF SerialIInv, Ledger

(* Requests that do not overlap keep one row, whose counter and flag tell  *)
(* what was done with its code.                                            *)
THEOREM SerialInvariance ==
    ASSUME MaxInFlight = 1
    PROVE  Spec => []SerialIInv
<1>1. SerialIInv /\ [Next]_vars => SerialIInv'
  BY SerialInvariantStep DEF OneAtATime
<1>2. QED
  BY <1>1, SerialInvariantInit, PTL DEF Spec

(* No code is refused as wrong more than MaxAttempts times: the counter    *)
(* outlives the throw that follows it.                                     *)
THEOREM AttemptsAreBounded ==
    ASSUME MaxInFlight = 1
    PROVE  Spec => []AttemptsBounded
<1>1. SerialIInv => AttemptsBounded
  BY DEF SerialIInv
<1>2. QED
  BY <1>1, SerialInvariance, PTL

(* A code is accepted once. *)
THEOREM CodeAcceptedOnce ==
    ASSUME MaxInFlight = 1
    PROVE  Spec => []CodeUsedOnce
<1>1. ASSUME SerialIInv, NEW c \in Codes PROVE Cardinality(Told("accepted", c)) <= 1
  <2>1. \A r, s \in Told("accepted", c) : r = s
    BY <1>1 DEF SerialIInv, LedgerOK, Told
  <2>2. CASE Told("accepted", c) = {}
    BY <2>2, FS_EmptySet
  <2>3. CASE Told("accepted", c) # {}
    <3>1. PICK r : Told("accepted", c) = {r}
      BY <2>1, <2>3
    <3>2. QED
      BY <3>1, FS_Singleton
  <2>4. QED
    BY <2>2, <2>3
<1>2. SerialIInv => CodeUsedOnce
  BY <1>1 DEF CodeUsedOnce
<1>3. QED
  BY <1>2, SerialInvariance, PTL

(* A new code invalidates the previous one. *)
THEOREM ReplacedCodeIsRefused ==
    ASSUME MaxInFlight = 1
    PROVE  Spec => []OldCodeIsRefused
<1>1. SerialIInv => OldCodeIsRefused
  BY DEF SerialIInv, LedgerOK, OldCodeIsRefused
<1>2. QED
  BY <1>1, SerialInvariance, PTL

(* A resend is sent no sooner than Interval after every code that was sent *)
(* before it: the row has the time of the last one, and the resend keeps   *)
(* its distance from that.                                                 *)
THEOREM ResendsKeepInterval ==
    ASSUME MaxInFlight = 1
    PROVE  Spec => ResendInterval
<1> DEFINE Spaced(r, s) ==
      /\ op[r] = "resend" /\ outcome[r] # "sent" /\ outcome'[r] = "sent"
      /\ op[s] \in Issuing /\ outcome[s] = "sent"
      => at[r] - at[s] >= Interval
<1>1. ASSUME SerialIInv, [Next]_vars, NEW r \in Requests, NEW s \in Requests,
             op[r] = "resend", outcome[r] # "sent", outcome'[r] = "sent", Sent(s)
      PROVE  at[r] - at[s] >= Interval
  <2>1. EmailIInv /\ AloneOK /\ LedgerOK /\ TypeOK /\ RequestsOK
    BY <1>1 DEF SerialIInv, EmailIInv
  <2>2. PICK i : Installs(r, i)
    <3>1. ASSUME NEW q \in Requests, NEW i, Installs(q, i) PROVE q = r
      BY <1>1, <2>1, <3>1 DEF Installs, CommitIssue, Finish, TypeOK
    <3>2. ASSUME NEW q \in Requests,
                 \/ \E o, c, i : Draws(q, o, c, i)
                 \/ \E i \in Existing : Examines(q, i)
                 \/ \E o : Ends(q, o)
                 \/ \E step : Moves(q, step)
                 \/ Reload(q)
          PROVE  FALSE
      <4>1. \A t \in Requests : outcome'[t] = outcome[t] \/ outcome'[t] \in {"refused", "failed"}
        BY <2>1, <1>1, <3>2, QuietCases
      <4>2. QED
        BY <1>1, <4>1
    <3>3. ~(Tick \/ UNCHANGED vars)
      BY <1>1 DEF Tick, vars, reqVars
    <3>4. QED
      BY <1>1, <2>1, <3>1, <3>2, <3>3, SerialCases DEF OneAtATime
  <2>3. r \in InFlight /\ Sees(r)
    BY <2>1, <2>2 DEF Installs, InFlight, AloneOK
  <2>4. target[r] \in Existing /\ target[r] \in RowIds
    <3>1. pc[r] # "insert"
      BY <1>1, <2>3 DEF Sees
    <3>2. QED
      BY <2>2, <3>1 DEF Installs
  <2>5. at[s] <= rows[target[r]].sentAt /\ rows[target[r]] \in Row
    BY <1>1, <2>1, <2>4 DEF LedgerOK, Existing, TypeOK
  <2>6. at[r] - rows[target[r]].sentAt >= Interval
    BY <1>1, <2>3 DEF Sees
  <2>7. at[r] \in Int /\ at[s] \in Int /\ rows[target[r]].sentAt \in Int
    BY <2>1, <2>5 DEF TypeOK, Row
  <2>8. QED
    BY <2>5, <2>6, <2>7, BoundsAssumption
<1>2. SerialIInv /\ [Next]_vars => [\A r, s \in Requests : Spaced(r, s)]_vars
  BY <1>1 DEF Sent
<1>3. QED
  BY <1>2, SerialInvariance, PTL DEF Spec, ResendInterval

-----------------------------------------------------------------------------
(* The slot is a one-time code. *)

(* What the only row says. *)
LEMMA RowBar ==
    ASSUME NEW i, Existing = {i}
    PROVE  /\ pendingBar = IF rows[i].consumed THEN NULL ELSE rows[i].codeHash
           /\ refusedBar = rows[i].attemptsUsed
BY DEF pendingBar, refusedBar, Pending

(* The same after a step. *)
LEMMA RowBarPrime ==
    ASSUME NEW i, Existing' = {i}
    PROVE  /\ pendingBar' = IF rows'[i].consumed THEN NULL ELSE rows'[i].codeHash
           /\ refusedBar' = rows'[i].attemptsUsed
BY DEF pendingBar, refusedBar, Pending

(* A step that writes the row issues, accepts or refuses. *)
LEMMA InstallBar ==
    ASSUME OneAtATime, SerialIInv, SerialIInv', [Next]_vars,
           NEW r \in Requests, NEW i, Installs(r, i)
    PROVE  Abstract!Next
<1>1. TypeOK /\ EmailIInv /\ AloneOK /\ LedgerOK /\ LedgerOK'
  BY DEF SerialIInv, EmailIInv
<1>2. PICK e, c : e = entity[r] /\ c = code[r]
  OBVIOUS
<1>3. /\ r \in InFlight /\ Sees(r) /\ e \in Row /\ outcome[r] = "none"
      /\ rows'[i] = e /\ Existing' = {i}
      /\ op[r] \in Issuing => e.codeHash = c
      /\ op[r] \notin Issuing => i \in Existing /\ rows[i] \in Row
  BY <1>1, <1>2, InstalledRow DEF EmailIInv, RequestsOK, InFlight
<1>4. /\ pendingBar' = IF e.consumed THEN NULL ELSE e.codeHash
      /\ refusedBar' = e.attemptsUsed
  BY <1>3, RowBarPrime
<1>5. UNCHANGED code /\ \A s \in Requests \ {r} : outcome'[s] = outcome[s]
  BY <1>1 DEF Installs, CommitIssue, Finish, TypeOK
<1>6. ASSUME outcome'[r] # "accepted" PROVE spentBar' = spentBar
  <2>1. \A d : Told("accepted", d)' = Told("accepted", d)
    BY <1>3, <1>5, <1>6 DEF Told
  <2>2. QED
    BY <2>1 DEF spentBar
<1>7. CASE op[r] \in Issuing
  <2>1. /\ ~e.consumed /\ e.attemptsUsed = 0 /\ e.codeHash = c /\ c \in Codes
        /\ \A s \in Requests \ {r} : code[s] # c
    BY <1>2, <1>3, <1>7 DEF Sees, Row
  <2>2. outcome'[r] = "sent"
    BY <1>1, <1>7 DEF Installs, CommitIssue, Finish, TypeOK, Issuing
  <2>3. c \notin spentBar
    BY <1>2, <1>3, <2>1 DEF spentBar, Told
  <2>4. Abstract!Issue(c)
    BY <1>4, <1>6, <2>1, <2>2, <2>3 DEF Abstract!Issue
  <2>5. QED
    BY <2>1, <2>4 DEF Abstract!Next
<1>8. CASE op[r] \notin Issuing
  <2>1. /\ op[r] \in {"confirm", "fail"}
        /\ outcome'[r] = IF op[r] = "confirm" THEN "accepted" ELSE "wrong"
        /\ i = target[r] /\ Existing = {i}
    BY <1>1, <1>3, <1>8 DEF Installs, Finish, TypeOK, Issuing, EmailIInv, RequestsOK
  <2>2. /\ rows[i] \in Row /\ c = rows[i].codeHash
        /\ ~rows[i].consumed /\ rows[i].attemptsUsed < MaxAttempts
        /\ op[r] = "confirm" => e = [rows[i] EXCEPT !.consumed = TRUE]
        /\ op[r] = "fail" => e = [rows[i] EXCEPT !.attemptsUsed = @ + 1]
    BY <1>2, <1>3, <1>8, <2>1, BoundsAssumption DEF Sees, Pending, Exhausted, Row
  <2>3. /\ e.codeHash = c /\ c \in Codes /\ c # NULL
        /\ op[r] = "confirm" => e.consumed /\ e.attemptsUsed = rows[i].attemptsUsed
        /\ op[r] = "fail" => ~e.consumed /\ e.attemptsUsed = rows[i].attemptsUsed + 1
    BY <2>1, <2>2, NullAssumption DEF Row
  <2>4. pendingBar = c /\ refusedBar = rows[i].attemptsUsed
    BY <2>1, <2>2, RowBar
  <2>5. CASE op[r] = "confirm"
    <3>1. Told("accepted", c)' # {}
      BY <1>2, <1>5, <2>1, <2>5 DEF Told
    <3>2. \A d : d # c => Told("accepted", d)' = Told("accepted", d)
      BY <1>2, <1>3, <1>5 DEF Told
    <3>3. spentBar' = spentBar \cup {c}
      BY <2>3, <3>1, <3>2 DEF spentBar
    <3>4. Abstract!Accept
      BY <1>4, <2>2, <2>3, <2>4, <2>5, <3>3 DEF Abstract!Accept
    <3>5. QED
      BY <3>4 DEF Abstract!Next
  <2>6. CASE op[r] = "fail"
    <3>1. Abstract!Refuse
      BY <1>4, <1>6, <2>1, <2>2, <2>3, <2>4, <2>6 DEF Abstract!Refuse
    <3>2. QED
      BY <3>1 DEF Abstract!Next
  <2>7. QED
    BY <2>1, <2>5, <2>6
<1>9. QED
  BY <1>7, <1>8

(* Requests that come one at a time implement the one-time code: every     *)
(* step of theirs is a step of it, or changes nothing of it.               *)
THEOREM ImplementsCode ==
    ASSUME MaxInFlight = 1
    PROVE  Spec => ImplementsOneTimeCode
<1> USE DEF Abstract!vars
<1>1. Init => Abstract!Init
  BY DEF Init, Abstract!Init, pendingBar, refusedBar, spentBar, Existing, Told
<1>2. ASSUME SerialIInv, SerialIInv', [Next]_vars PROVE [Abstract!Next]_(Abstract!vars)
  <2>1. ASSUME UNCHANGED rows,
               \A s \in Requests : outcome'[s] = outcome[s] \/ outcome'[s] \in {"refused", "failed"}
        PROVE  UNCHANGED Abstract!vars
    <3>1. UNCHANGED <<pendingBar, refusedBar>>
      BY <2>1 DEF pendingBar, refusedBar, Existing, Pending
    <3>2. \A d : Told("accepted", d)' = Told("accepted", d)
      <4>1. ASSUME NEW d PROVE Told("accepted", d)' = Told("accepted", d)
        BY <1>2, <2>1, ToldStays DEF SerialIInv
      <4>2. QED
        BY <4>1
    <3>3. UNCHANGED spentBar
      BY <3>2 DEF spentBar
    <3>4. QED
      BY <3>1, <3>3
  <2>2. CASE Tick \/ UNCHANGED vars
    BY <2>1, <2>2 DEF Tick, vars, reqVars
  <2>3. ASSUME NEW r \in Requests,
               \/ \E o, c, i : Draws(r, o, c, i)
               \/ \E i \in Existing : Examines(r, i)
               \/ \E o : Ends(r, o)
               \/ \E step : Moves(r, step)
               \/ Reload(r)
        PROVE  UNCHANGED Abstract!vars
    BY <1>2, <2>1, <2>3, QuietCases DEF SerialIInv
  <2>4. ASSUME NEW r \in Requests, NEW i, Installs(r, i) PROVE Abstract!Next
    BY <1>2, <2>4, InstallBar DEF OneAtATime
  <2>5. QED
    BY <1>2, <2>2, <2>3, <2>4, SerialCases DEF SerialIInv, OneAtATime
<1>3. QED
  BY <1>1, <1>2, SerialInvariance, PTL DEF Spec, ImplementsOneTimeCode, Abstract!Spec

(* What a one-time code promises therefore holds of the rows: the pending  *)
(* code is none that was accepted and was refused at most MaxAttempts      *)
(* times, an accepted code never becomes pending again, and no code is     *)
(* accepted after MaxAttempts refusals.                                    *)
THEOREM CodeKeepsItsPromise ==
    ASSUME MaxInFlight = 1
    PROVE  Spec => []Abstract!PendingOK /\ Abstract!AcceptedForGood
<1> USE DEF Abstract!vars, Abstract!PendingOK
<1> DEFINE ForGood ==
      /\ spentBar \subseteq spentBar' /\ \A c \in spentBar : pendingBar' # c
      /\ spentBar' # spentBar =>
            spentBar' = spentBar \cup {pendingBar} /\ refusedBar < MaxAttempts
<1>1. Abstract!Init => Abstract!PendingOK
  BY BoundsAssumption DEF Abstract!Init
<1>2. ASSUME Abstract!PendingOK, [Abstract!Next]_(Abstract!vars)
      PROVE  Abstract!PendingOK' /\ ForGood
  <2> USE BoundsAssumption, NullAssumption
  <2>1. ASSUME NEW c \in Codes, Abstract!Issue(c)
        PROVE  Abstract!PendingOK' /\ ForGood
    BY <1>2, <2>1 DEF Abstract!Issue
  <2>2. CASE Abstract!Accept
    BY <1>2, <2>2 DEF Abstract!Accept
  <2>3. CASE Abstract!Refuse
    BY <1>2, <2>3 DEF Abstract!Refuse
  <2>4. CASE UNCHANGED <<pendingBar, refusedBar, spentBar>>
    BY <1>2, <2>4
  <2>5. QED
    BY <1>2, <2>1, <2>2, <2>3, <2>4 DEF Abstract!Next
<1>3. QED
  BY <1>1, <1>2, ImplementsCode, PTL
     DEF ImplementsOneTimeCode, Abstract!Spec, Abstract!AcceptedForGood
=============================================================================
