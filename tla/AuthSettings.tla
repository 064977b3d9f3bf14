---------------------------- MODULE AuthSettings ----------------------------
(***************************************************************************)
(* AuthSettingsService: settings stored as rows over values from the       *)
(* environment, read in one query and patched row by row in one            *)
(* transaction.                                                            *)
(*                                                                         *)
(* A patch sets some keys, resets some to the environment by deleting      *)
(* their rows, and leaves the others.  Its rows are written one after the  *)
(* other, always in the order in which UpdateAuthSettingsDto declares the  *)
(* keys, whatever the order in the request.                                *)
(***************************************************************************)
EXTENDS Integers, Sequences, FiniteSets, FiniteSetsExt

CONSTANTS
    Requests,   \* PATCH calls, each made once
    Keys,       \* AUTH_SETTING_KEYS, numbered as they are declared
    Values,     \* what a key may be set to
    Fallbacks,  \* what the environment, or the registry, says instead
    NULL,       \* no row; in a patch: reset
    OMIT        \* in a patch: leave alone; in a transaction: not written

ASSUME KeysAssumption == Keys \subseteq Nat /\ IsFiniteSet(Keys)
ASSUME MarksAssumption == NULL # OMIT /\ {NULL, OMIT} \cap (Values \cup Fallbacks) = {}

VARIABLES
    rows,      \* committed rows of settings
    env,       \* values from the environment, or their fallbacks
    pc,
    patch,     \* what the request asks for
    todo,      \* keys of the patch it has still to write
    written,   \* rows its open transaction has written, and so locked
    answer,    \* the effective settings it returns
    outcome,
    commits,   \* history: requests in the order of their commits
    missed     \* history: resets that found no row to delete

reqVars == <<pc, patch, todo, written, answer, outcome>>
vars    == <<rows, env, reqVars, commits, missed>>

Patches == [Keys -> Values \cup {NULL, OMIT}]

Untouched == [k \in Keys |-> OMIT]

Touched(p) == {k \in Keys : p[k] # OMIT}

(* R as a transaction sees it that has written W. *)
Over(R, W) == [k \in Keys |-> IF W[k] = OMIT THEN R[k] ELSE W[k]]

(* getEffectiveSettings(): a row hides the environment. *)
Effective(R) == [k \in Keys |-> IF R[k] = NULL THEN env[k] ELSE R[k]]

Init ==
    /\ rows \in [Keys -> Values \cup {NULL}]
    /\ env \in [Keys -> Fallbacks]
    /\ pc = [r \in Requests |-> "idle"]
    /\ patch = [r \in Requests |-> Untouched]
    /\ todo = [r \in Requests |-> {}]
    /\ written = [r \in Requests |-> Untouched]
    /\ answer = [r \in Requests |-> Untouched]
    /\ outcome = [r \in Requests |-> "none"]
    /\ commits = <<>> /\ missed = {}

Finish(r, o) == /\ pc' = [pc EXCEPT ![r] = "done"]
                /\ outcome' = [outcome EXCEPT ![r] = o]

(* updateSettings(): an empty patch answers 400. *)
RefuseEmpty(r) ==
    /\ pc[r] = "idle"
    /\ Finish(r, "refused")
    /\ UNCHANGED <<rows, env, patch, todo, written, answer, commits, missed>>

Patch(r, p) ==
    /\ pc[r] = "idle"
    /\ Touched(p) # {}
    /\ patch' = [patch EXCEPT ![r] = p]
    /\ todo' = [todo EXCEPT ![r] = Touched(p)]
    /\ pc' = [pc EXCEPT ![r] = "writing"]
    /\ UNCHANGED <<rows, env, written, answer, outcome, commits, missed>>

(* Mutant: everything that is set first, then the resets. *)
FirstSetsThenResets(r) ==
    LET sets == {k \in todo[r] : patch[r][k] # NULL}
    IN  IF sets # {} THEN Min(sets) ELSE Min(todo[r])

(* The key whose turn it is. *)
First(r) == Min(todo[r])

Locked(k, r) == \E s \in Requests \ {r} : written[s][k] # OMIT

Wrote(r, k, v) == /\ written' = [written EXCEPT ![r][k] = v]
                  /\ todo' = [todo EXCEPT ![r] = @ \ {k}]
                  /\ UNCHANGED <<env, pc, patch, answer, outcome, commits>>

(* Mutant: every row is committed by itself. *)
UpsertAutocommitted(r) ==
    /\ pc[r] = "writing" /\ todo[r] # {}
    /\ LET k == First(r) IN
       /\ patch[r][k] # NULL
       /\ ~Locked(k, r)
       /\ rows' = [rows EXCEPT ![k] = patch[r][k]]
       /\ Wrote(r, k, OMIT)
    /\ UNCHANGED missed

(* upsert(): waits for whoever has written the key and not committed. *)
Upsert(r) ==
    /\ pc[r] = "writing" /\ todo[r] # {}
    /\ LET k == First(r) IN
       /\ patch[r][k] # NULL
       /\ ~Locked(k, r)
       /\ Wrote(r, k, patch[r][k])
    /\ UNCHANGED <<rows, missed>>

(* delete(): the same, for a row that is there ... *)
Delete(r) ==
    /\ pc[r] = "writing" /\ todo[r] # {}
    /\ LET k == First(r) IN
       /\ patch[r][k] = NULL
       /\ rows[k] # NULL
       /\ ~Locked(k, r)
       /\ Wrote(r, k, NULL)
    /\ UNCHANGED <<rows, missed>>

(* ... and with none it does nothing: it sees no row another transaction   *)
(* has inserted and not committed, waits for nobody and locks nothing.     *)
DeleteNothing(r) ==
    /\ pc[r] = "writing" /\ todo[r] # {}
    /\ LET k == First(r) IN
       /\ patch[r][k] = NULL
       /\ rows[k] = NULL
       /\ missed' = missed \cup {<<r, k>>}
       /\ Wrote(r, k, OMIT)
    /\ UNCHANGED rows

(* Mutant: the settings are read outside the transaction. *)
AnswerFromOutside(r) ==
    /\ pc[r] = "writing" /\ todo[r] = {}
    /\ answer' = [answer EXCEPT ![r] = Effective(rows)]
    /\ pc' = [pc EXCEPT ![r] = "answering"]
    /\ UNCHANGED <<rows, env, patch, todo, written, outcome, commits, missed>>

(* The effective settings are read before the transaction commits. *)
Answer(r) ==
    /\ pc[r] = "writing" /\ todo[r] = {}
    /\ answer' = [answer EXCEPT ![r] = Effective(Over(rows, written[r]))]
    /\ pc' = [pc EXCEPT ![r] = "answering"]
    /\ UNCHANGED <<rows, env, patch, todo, written, outcome, commits, missed>>

Commit(r) ==
    /\ pc[r] = "answering"
    /\ rows' = Over(rows, written[r])
    /\ written' = [written EXCEPT ![r] = Untouched]
    /\ commits' = Append(commits, r)
    /\ Finish(r, "ok")
    /\ UNCHANGED <<env, patch, todo, answer, missed>>

(* The process dies or the database fails: the transaction is rolled back. *)
Abort(r) ==
    /\ pc[r] \in {"writing", "answering"}
    /\ written' = [written EXCEPT ![r] = Untouched]
    /\ patch' = [patch EXCEPT ![r] = Untouched]
    /\ answer' = [answer EXCEPT ![r] = Untouched]
    /\ todo' = [todo EXCEPT ![r] = {}]
    /\ missed' = missed \ ({r} \X Keys)
    /\ Finish(r, "failed")
    /\ UNCHANGED <<rows, env, commits>>

Finished == (\A r \in Requests : pc[r] = "done") /\ UNCHANGED vars

Progress(r) == Upsert(r) \/ Delete(r) \/ DeleteNothing(r) \/ Answer(r) \/ Commit(r)

Next ==
    \/ \E r \in Requests :
          \/ RefuseEmpty(r)
          \/ \E p \in Patches : Patch(r, p)
          \/ Progress(r)
          \/ Abort(r)
    \/ Finished

Spec == Init /\ [][Next]_vars

(* The event loop resumes every handler, the database every statement that *)
(* waits for no lock.                                                      *)
FairSpec == Spec /\ \A r \in Requests : WF_vars(Progress(r))

-----------------------------------------------------------------------------
TypeOK ==
    /\ rows \in [Keys -> Values \cup {NULL}]
    /\ env \in [Keys -> Fallbacks]
    /\ pc \in [Requests -> {"idle", "writing", "answering", "done"}]
    /\ patch \in [Requests -> Patches]
    /\ todo \in [Requests -> SUBSET Keys]
    /\ written \in [Requests -> Patches]
    /\ answer \in [Requests -> [Keys -> Values \cup Fallbacks \cup {OMIT}]]
    /\ outcome \in [Requests -> {"none", "ok", "refused", "failed"}]
    /\ commits \in Seq(Requests)
    /\ missed \in SUBSET (Requests \X Keys)

(* What a patch leaves of a key, if it did anything to it. *)
Decided(r, k) == outcome[r] = "ok" /\ k \in Touched(patch[r]) /\ <<r, k>> \notin missed

(* Patches take effect whole and one after the other, in the order of      *)
(* their commits, however their rows interleave (settings README: all      *)
(* fields in a patch are saved in one transaction): of any two, the later  *)
(* decides every key both wrote.  A reset that found no row is the         *)
(* exception: it may be overtaken, key by key.                             *)
LaterPatchDecides ==
    \A i \in DOMAIN commits, k \in Keys :
        /\ Decided(commits[i], k)
        /\ \A j \in DOMAIN commits : j > i => ~Decided(commits[j], k)
        => rows[k] = patch[commits[i]][k]

(* A successful patch answers with the settings as it leaves them (settings*)
(* README: returns the effective settings after saving), whoever else is   *)
(* writing.                                                                *)
AnswerShowsPatch ==
    \A r \in Requests, k \in Keys : Decided(r, k) =>
        answer[r][k] = IF patch[r][k] = NULL THEN env[k] ELSE patch[r][k]

(* Every patch is answered: with one order of keys for all of them, no two *)
(* ever wait for each other.                                               *)
EveryPatchIsAnswered == \A r \in Requests : pc[r] # "idle" ~> pc[r] = "done"

(* The turn of r may have to wait for s, which has written the same key. *)
Waits(r, s) == /\ pc[r] = "writing" /\ todo[r] # {}
               /\ s # r /\ written[s][First(r)] # OMIT

(* Why: whoever is waited for is through with its patch, or its own turn   *)
(* is a later key, so that no waits close a circle.                        *)
WaitsAreOrdered ==
    \A r, s \in Requests : Waits(r, s) /\ todo[s] # {} => First(r) < First(s)

Open == {r \in Requests : pc[r] \in {"writing", "answering"}}

(* Open transactions never all wait for each other.                        *)
SomeoneIsReady == Open # {} => \E r \in Open : \A s \in Requests : ~Waits(r, s)

-----------------------------------------------------------------------------
(* An inductive invariant: an open transaction has written what its patch  *)
(* asks for, as far as it has come, but for the resets that found no row;  *)
WroteSoFar(r) == {k \in Touched(patch[r]) \ todo[r] : <<r, k>> \notin missed}

PatchOK(r) ==
    /\ outcome[r] = "none" <=> pc[r] # "done"
    /\ pc[r] \in {"idle", "done"} => written[r] = Untouched
    /\ pc[r] = "idle" => \A k \in Keys : <<r, k>> \notin missed
    /\ todo[r] \subseteq Touched(patch[r])
    /\ \A k \in todo[r] : <<r, k>> \notin missed
    /\ pc[r] = "answering" \/ outcome[r] = "ok" => todo[r] = {}
    /\ pc[r] \in {"writing", "answering"} =>
          written[r] = [k \in Keys |-> IF k \in WroteSoFar(r) THEN patch[r][k] ELSE OMIT]
    /\ pc[r] = "answering" \/ outcome[r] = "ok" =>
          \A k \in WroteSoFar(r) :
              answer[r][k] = IF patch[r][k] = NULL THEN env[k] ELSE patch[r][k]

(* it has written nothing of what comes after the key whose turn it is;    *)
InOrder(r) == \A k \in Keys : written[r][k] # OMIT => \A j \in todo[r] : k < j

(* and what has been committed is decided.                                 *)
SettingsIInv ==
    /\ TypeOK
    /\ \A r \in Requests : PatchOK(r) /\ InOrder(r)
    /\ \A i \in DOMAIN commits : outcome[commits[i]] = "ok"
    /\ LaterPatchDecides
=============================================================================
