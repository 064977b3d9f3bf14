------------------------- MODULE AuthSettingsProofs -------------------------
(***************************************************************************)
(* Proofs about AuthSettings: what overlapping patches leave, and what     *)
(* they answer.                                                            *)
(***************************************************************************)
EXTENDS AuthSettings, FiniteSetTheorems, WellFoundedInduction, TLAPS

(* Some key has its turn as long as any is left.                           *)
LEMMA FirstIsLeft ==
    ASSUME NEW T \in SUBSET Nat, T # {}
    PROVE  Min(T) \in T /\ \A y \in T : Min(T) <= y
<1>1. PICK x \in T : \A y \in T : ~(y < x)
  <2> DEFINE R == OpToRel(<, Nat)
  <2>1. IsWellFoundedOn(R, Nat)
    BY NatLessThanWellFounded, Zenon
  <2>2. PICK x \in T : \A y \in T : <<y, x>> \notin R
    BY <2>1, WFMin, Zenon
  <2>3. \A y \in T : ~(y < x)
    BY <2>2 DEF OpToRel
  <2>4. QED
    BY <2>3, Zenon
<1>2. \A y \in T : x <= y
  <2>1. \A y \in T : y \in Nat /\ x \in Nat
    OBVIOUS
  <2>2. QED
    BY <1>1, <2>1
<1>3. QED
  BY <1>2 DEF Min

(* A finite set of keys has a last one: a smallest set without a last key  *)
(* would have one after all, the last of the others or the one left out.   *)
LEMMA LastKey ==
    ASSUME NEW T \in SUBSET Keys, T # {}
    PROVE  \E x \in T : \A y \in T : y <= x
<1> DEFINE HasLast(S) == \E x \in S : \A y \in S : y <= x
           Sizes == {n \in Nat : \E S \in SUBSET Keys :
                        S # {} /\ Cardinality(S) = n /\ ~HasLast(S)}
<1>1. \A S \in SUBSET Keys : IsFiniteSet(S) /\ Cardinality(S) \in Nat
  BY KeysAssumption, FS_Subset, FS_CardinalityType
<1>2. ASSUME Sizes # {} PROVE FALSE
  <2>1. Sizes \in SUBSET Nat
    OBVIOUS
  <2>2. PICK n \in Sizes : \A m \in Sizes : n <= m
    BY <1>2, <2>1, FirstIsLeft
  <2>3. PICK S \in SUBSET Keys : S # {} /\ Cardinality(S) = n /\ ~HasLast(S)
    BY <2>2
  <2>4. PICK x : x \in S
    BY <2>3
  <2>5. /\ Cardinality(S \ {x}) = n - 1
        /\ n - 1 \in Nat /\ S \ {x} \in SUBSET Keys
    <3>1. Cardinality(S \ {x}) = n - 1
      BY <1>1, <2>3, <2>4, FS_RemoveElement
    <3>2. S \ {x} \in SUBSET Keys
      OBVIOUS
    <3>3. Cardinality(S \ {x}) \in Nat
      BY <1>1, <3>2
    <3>4. QED
      BY <3>1, <3>2, <3>3
  <2>6. n - 1 \notin Sizes
    BY <2>1, <2>2, <2>5
  <2>7. S \ {x} = {} \/ HasLast(S \ {x})
    BY <2>5, <2>6
  <2>8. \A y \in S : y \in Nat
    BY KeysAssumption
  <2>9. CASE S \ {x} = {}
    <3>1. \A y \in S : y <= x
      BY <2>8, <2>9
    <3>2. QED
      BY <2>3, <2>4, <3>1
  <2>10. CASE HasLast(S \ {x})
    <3>1. PICK z \in S \ {x} : \A y \in S \ {x} : y <= z
      BY <2>10
    <3>2. CASE z <= x
      <4>1. \A y \in S : y <= x
        BY <2>4, <2>8, <3>1, <3>2
      <4>2. QED
        BY <2>3, <2>4, <4>1
    <3>3. CASE x <= z
      <4>1. \A y \in S : y <= z
        BY <2>4, <2>8, <3>1, <3>3
      <4>2. QED
        BY <2>3, <3>1, <4>1
    <3>4. QED
      BY <2>4, <2>8, <3>1, <3>2, <3>3
  <2>11. QED
    BY <2>7, <2>9, <2>10
<1>3. QED
  BY <1>1, <1>2

(* The entry whose turn it is has been dealt with: written, or, as a reset *)
(* that found no row, missed.                                              *)
Turn(r, k, v) ==
    /\ pc[r] = "writing" /\ k \in todo[r] /\ \A j \in todo[r] : k <= j
    /\ Wrote(r, k, v)
    /\ \/ v = patch[r][k] /\ missed' = missed
       \/ v = OMIT /\ missed' = missed \cup {<<r, k>>}
    /\ rows' = rows

(* Every write of a patch is one of these turns. *)
LEMMA Turns ==
    ASSUME TypeOK, NEW r \in Requests, Upsert(r) \/ Delete(r) \/ DeleteNothing(r)
    PROVE  \E k, v : Turn(r, k, v)
<1>1. todo[r] # {} /\ todo[r] \in SUBSET Nat
  BY KeysAssumption DEF TypeOK, Upsert, Delete, DeleteNothing
<1>2. First(r) \in todo[r] /\ \A j \in todo[r] : First(r) <= j
  BY <1>1, FirstIsLeft DEF First
<1>3. Upsert(r) => Turn(r, First(r), patch[r][First(r)])
  BY <1>2 DEF Upsert, Turn
<1>4. Delete(r) => Turn(r, First(r), NULL)
  BY <1>2 DEF Delete, Turn
<1>5. DeleteNothing(r) => Turn(r, First(r), OMIT)
  BY <1>2 DEF DeleteNothing, Turn
<1>6. QED
  BY <1>3, <1>4, <1>5

(* What any step does. *)
LEMMA StepCases ==
    ASSUME TypeOK, [Next]_vars
    PROVE  \/ \E r \in Requests :
                \/ RefuseEmpty(r)
                \/ \E p \in Patches : Patch(r, p)
                \/ \E k, v : Turn(r, k, v)
                \/ Answer(r) \/ Commit(r) \/ Abort(r)
           \/ UNCHANGED vars
BY Turns, Zenon DEF Next, Finished, Progress

-----------------------------------------------------------------------------
(* Types. *)

(* A step keeps the types. *)
LEMMA TypeStep ==
    ASSUME TypeOK, [Next]_vars
    PROVE  TypeOK'
<1> USE MarksAssumption DEF TypeOK
<1>1. ASSUME NEW r \in Requests, RefuseEmpty(r) PROVE TypeOK'
  BY <1>1 DEF RefuseEmpty, Finish
<1>2. ASSUME NEW r \in Requests, NEW p \in Patches, Patch(r, p) PROVE TypeOK'
  BY <1>2 DEF Patch, Touched
<1>3. ASSUME NEW r \in Requests, NEW k, NEW v, Turn(r, k, v) PROVE TypeOK'
  <2>1. k \in Keys /\ v \in Values \cup {NULL, OMIT}
    BY <1>3 DEF Turn, Patches
  <2>2. written' \in [Requests -> Patches]
    BY <1>3, <2>1 DEF Turn, Wrote, Patches
  <2>3. QED
    BY <1>3, <2>1, <2>2 DEF Turn, Wrote
<1>4. ASSUME NEW r \in Requests, Answer(r) PROVE TypeOK'
  <2>1. written[r] \in Patches
    OBVIOUS
  <2>2. Over(rows, written[r]) \in [Keys -> Values \cup {NULL}]
    BY <2>1 DEF Over, Patches
  <2>3. Effective(Over(rows, written[r])) \in [Keys -> Values \cup Fallbacks \cup {OMIT}]
    BY <2>2 DEF Effective
  <2>4. QED
    BY <1>4, <2>3 DEF Answer
<1>5. ASSUME NEW r \in Requests, Commit(r) PROVE TypeOK'
  <2>1. Over(rows, written[r]) \in [Keys -> Values \cup {NULL}]
    BY DEF Over, Patches
  <2>2. Untouched \in Patches
    BY DEF Untouched, Patches
  <2>3. QED
    BY <1>5, <2>1, <2>2 DEF Commit, Finish
<1>6. ASSUME NEW r \in Requests, Abort(r) PROVE TypeOK'
  <2>1. Untouched \in Patches /\ Untouched \in [Keys -> Values \cup Fallbacks \cup {OMIT}]
    BY DEF Untouched, Patches
  <2>2. QED
    BY <1>6, <2>1 DEF Abort, Finish
<1>7. ASSUME UNCHANGED vars PROVE TypeOK'
  BY <1>7 DEF vars, reqVars
<1>8. QED
  BY <1>1, <1>2, <1>3, <1>4, <1>5, <1>6, <1>7, StepCases

-----------------------------------------------------------------------------
(* Each request by itself. *)

(* Nothing of s has changed.                                               *)
Rests(s) ==
    /\ pc'[s] = pc[s] /\ patch'[s] = patch[s] /\ todo'[s] = todo[s]
    /\ written'[s] = written[s] /\ answer'[s] = answer[s] /\ outcome'[s] = outcome[s]
    /\ \A k \in Keys : <<s, k>> \in missed' <=> <<s, k>> \in missed

(* A patch that rests keeps its part of the invariant. *)
LEMMA RestingOK ==
    ASSUME TypeOK, NEW s \in Requests, PatchOK(s), Rests(s), env' = env
    PROVE  PatchOK(s)'
<1>1. Touched(patch[s]) \subseteq Keys /\ Touched(patch[s])' = Touched(patch[s])
  BY DEF Touched, Rests
<1>2. WroteSoFar(s)' = WroteSoFar(s)
  BY <1>1 DEF WroteSoFar, Rests
<1>3. QED
  BY <1>1, <1>2 DEF PatchOK, Rests, TypeOK

(* A step keeps what every patch has written, and what it has not yet. *)
LEMMA PatchStep ==
    ASSUME TypeOK, \A s \in Requests : PatchOK(s), [Next]_vars, NEW s \in Requests
    PROVE  PatchOK(s)'
<1> USE DEF TypeOK
<1>0. PatchOK(s)
  OBVIOUS
<1>1. ASSUME NEW r \in Requests, RefuseEmpty(r) PROVE PatchOK(s)'
  <2>1. CASE s = r
    BY <1>0, <1>1, <2>1 DEF RefuseEmpty, Finish, PatchOK, WroteSoFar, Touched
  <2>2. CASE s # r
    BY <1>0, <1>1, <2>2, RestingOK DEF RefuseEmpty, Finish, Rests
  <2>3. QED
    BY <2>1, <2>2
<1>2. ASSUME NEW r \in Requests, NEW p \in Patches, Patch(r, p) PROVE PatchOK(s)'
  <2>1. CASE s = r
    <3>1. /\ patch'[r] = p /\ todo'[r] = Touched(p) /\ pc'[r] = "writing"
          /\ outcome'[r] = "none" /\ missed' = missed
          /\ \A k \in Keys : <<r, k>> \notin missed
      BY <1>0, <1>2, <2>1 DEF Patch, PatchOK
    <3>2. WroteSoFar(r)' = {}
      BY <3>1 DEF WroteSoFar, Touched
    <3>3. written'[r] = [k \in Keys |-> OMIT]
      BY <1>0, <1>2, <2>1 DEF Patch, PatchOK, Untouched
    <3>4. QED
      BY <2>1, <3>1, <3>2, <3>3 DEF PatchOK, Touched
  <2>2. CASE s # r
    BY <1>0, <1>2, <2>2, RestingOK DEF Patch, Rests
  <2>3. QED
    BY <2>1, <2>2
<1>3. ASSUME NEW r \in Requests, NEW k, NEW v, Turn(r, k, v) PROVE PatchOK(s)'
  <2>1. CASE s = r
    <3>1. /\ k \in Keys /\ k \in Touched(patch[r]) /\ <<r, k>> \notin missed
          /\ pc[r] = "writing" /\ outcome[r] = "none"
          /\ UNCHANGED <<pc, patch, answer, outcome, env>>
          /\ todo'[r] = todo[r] \ {k} /\ written'[r] = [written[r] EXCEPT ![k] = v]
      BY <1>0, <1>3, <2>1 DEF Turn, Wrote, PatchOK, Touched
    <3>2. Touched(patch[r])' = Touched(patch[r]) /\ Touched(patch[r]) \subseteq Keys
      BY <3>1 DEF Touched
    <3>3. CASE v = patch[r][k] /\ missed' = missed
      <4>1. WroteSoFar(r)' = WroteSoFar(r) \cup {k}
        BY <3>1, <3>2, <3>3 DEF WroteSoFar
      <4>2. written'[r] = [j \in Keys |-> IF j \in WroteSoFar(r)' THEN patch[r][j] ELSE OMIT]
        BY <1>0, <2>1, <3>1, <3>3, <4>1 DEF PatchOK
      <4>3. QED
        BY <1>0, <2>1, <3>1, <3>2, <3>3, <4>2 DEF PatchOK
    <3>4. CASE v = OMIT /\ missed' = missed \cup {<<r, k>>}
      <4>1. WroteSoFar(r)' = WroteSoFar(r) /\ k \notin WroteSoFar(r)
        BY <1>3, <3>1, <3>2, <3>4 DEF WroteSoFar, Turn
      <4>2. written'[r] = [j \in Keys |-> IF j \in WroteSoFar(r)' THEN patch[r][j] ELSE OMIT]
        <5>1. written[r] = [j \in Keys |-> IF j \in WroteSoFar(r) THEN patch[r][j] ELSE OMIT]
          BY <1>0, <2>1, <3>1 DEF PatchOK
        <5>2. written[r][k] = OMIT /\ DOMAIN written[r] = Keys
          BY <3>1, <4>1, <5>1
        <5>3. written'[r] = written[r]
          <6>1. written[r] \in Patches
            OBVIOUS
          <6>2. [written[r] EXCEPT ![k] = OMIT] = written[r]
            BY <5>2, <6>1 DEF Patches
          <6>3. QED
            BY <3>1, <3>4, <6>2
        <5>4. QED
          BY <4>1, <5>1, <5>3
      <4>3. QED
        BY <1>0, <2>1, <3>1, <3>2, <3>4, <4>2 DEF PatchOK
    <3>5. QED
      BY <1>3, <3>3, <3>4 DEF Turn
  <2>2. CASE s # r
    BY <1>0, <1>3, <2>2, RestingOK DEF Turn, Wrote, Rests
  <2>3. QED
    BY <2>1, <2>2
<1>4. ASSUME NEW r \in Requests, Answer(r) PROVE PatchOK(s)'
  <2>1. CASE s = r
    <3>1. /\ pc[r] = "writing" /\ pc'[r] = "answering" /\ outcome[r] = "none"
          /\ todo[r] = {}
          /\ UNCHANGED <<patch, todo, written, outcome, missed, env>>
          /\ answer'[r] = Effective(Over(rows, written[r]))
      BY <1>0, <1>4, <2>1 DEF Answer, PatchOK
    <3>2. WroteSoFar(r)' = WroteSoFar(r) /\ Touched(patch[r])' = Touched(patch[r])
      BY <3>1 DEF WroteSoFar, Touched
    <3>3. ASSUME NEW k \in WroteSoFar(r)
          PROVE  answer'[r][k] = IF patch[r][k] = NULL THEN env[k] ELSE patch[r][k]
      <4>1. k \in Keys /\ patch[r][k] # OMIT /\ written[r][k] = patch[r][k]
        BY <1>0, <2>1, <3>1 DEF WroteSoFar, Touched, PatchOK
      <4>2. QED
        BY <3>1, <4>1 DEF Effective, Over
    <3>4. QED
      BY <1>0, <2>1, <3>1, <3>2, <3>3 DEF PatchOK
  <2>2. CASE s # r
    BY <1>0, <1>4, <2>2, RestingOK DEF Answer, Rests
  <2>3. QED
    BY <2>1, <2>2
<1>5. ASSUME NEW r \in Requests, Commit(r) PROVE PatchOK(s)'
  <2>1. CASE s = r
    <3>1. /\ pc[r] = "answering" /\ pc'[r] = "done" /\ outcome'[r] = "ok"
          /\ written'[r] = Untouched
          /\ UNCHANGED <<patch, todo, answer, missed, env>>
      BY <1>5 DEF Commit, Finish
    <3>2. WroteSoFar(r)' = WroteSoFar(r) /\ Touched(patch[r])' = Touched(patch[r])
      BY <3>1 DEF WroteSoFar, Touched
    <3>3. QED
      BY <1>0, <2>1, <3>1, <3>2 DEF PatchOK, Untouched
  <2>2. CASE s # r
    BY <1>0, <1>5, <2>2, RestingOK DEF Commit, Finish, Rests
  <2>3. QED
    BY <2>1, <2>2
<1>6. ASSUME NEW r \in Requests, Abort(r) PROVE PatchOK(s)'
  <2>1. CASE s = r
    <3>1. /\ pc'[r] = "done" /\ outcome'[r] = "failed" /\ todo'[r] = {}
          /\ written'[r] = Untouched
      BY <1>6 DEF Abort, Finish
    <3>2. QED
      BY <2>1, <3>1 DEF PatchOK, Untouched
  <2>2. CASE s # r
    BY <1>0, <1>6, <2>2, RestingOK DEF Abort, Finish, Rests
  <2>3. QED
    BY <2>1, <2>2
<1>7. ASSUME UNCHANGED vars PROVE PatchOK(s)'
  BY <1>0, <1>7, RestingOK DEF vars, reqVars, Rests
<1>8. QED
  BY <1>1, <1>2, <1>3, <1>4, <1>5, <1>6, <1>7, StepCases

-----------------------------------------------------------------------------
(* What the commits leave. *)

CommitsOK == \A i \in DOMAIN commits : outcome[commits[i]] = "ok"

(* As long as nobody commits, what has been decided stays as it is.        *)
LEMMA DecidedStays ==
    ASSUME TypeOK, CommitsOK, LaterPatchDecides,
           rows' = rows, commits' = commits,
           \A s \in Requests : outcome[s] = "ok" => Rests(s)
    PROVE  CommitsOK' /\ LaterPatchDecides'
<1>1. \A i \in DOMAIN commits : commits[i] \in Requests /\ outcome[commits[i]] = "ok"
  BY DEF TypeOK, CommitsOK
<1>2. ASSUME NEW s \in Requests, NEW k \in Keys, outcome[s] = "ok"
      PROVE  patch'[s] = patch[s] /\ outcome'[s] = "ok" /\ (Decided(s, k)' <=> Decided(s, k))
  BY <1>2 DEF Rests, Decided, Touched
<1>3. CommitsOK'
  BY <1>1, <1>2 DEF CommitsOK, Rests
<1>4. LaterPatchDecides'
  BY <1>1, <1>2 DEF LaterPatchDecides
<1>5. QED
  BY <1>3, <1>4

(* A commit decides what its patch has written, and nothing else.          *)
LEMMA CommitDecides ==
    ASSUME TypeOK, \A s \in Requests : PatchOK(s), CommitsOK, LaterPatchDecides,
           NEW r \in Requests, Commit(r)
    PROVE  CommitsOK' /\ LaterPatchDecides'
<1> USE MarksAssumption DEF TypeOK
<1>1. /\ pc[r] = "answering" /\ outcome[r] = "none" /\ todo[r] = {}
      /\ outcome' = [outcome EXCEPT ![r] = "ok"]
      /\ UNCHANGED <<patch, missed>> /\ commits' = Append(commits, r)
      /\ \A k \in Keys : written[r][k] = IF k \in WroteSoFar(r) THEN patch[r][k] ELSE OMIT
      /\ rows' = [k \in Keys |-> IF written[r][k] = OMIT THEN rows[k] ELSE written[r][k]]
  BY DEF Commit, Finish, PatchOK, Over
<1>2. \A i \in DOMAIN commits : /\ commits[i] \in Requests /\ commits[i] # r
                               /\ outcome[commits[i]] = "ok"
  BY <1>1 DEF CommitsOK
<1>3. /\ DOMAIN commits' = DOMAIN commits \cup {Len(commits) + 1}
      /\ \A i \in DOMAIN commits : commits'[i] = commits[i] /\ i < Len(commits) + 1
      /\ commits'[Len(commits) + 1] = r
      /\ Len(commits) + 1 \notin DOMAIN commits
  BY <1>1
<1>4. CommitsOK'
  BY <1>1, <1>2, <1>3 DEF CommitsOK
<1>5. \A k \in Keys : Decided(r, k)' <=> k \in WroteSoFar(r)
  BY <1>1 DEF Decided, WroteSoFar, Touched
<1>6. \A k \in Keys, s \in Requests \ {r} : Decided(s, k)' <=> Decided(s, k)
  BY <1>1 DEF Decided, Touched
<1>7. \A k \in WroteSoFar(r) : k \in Keys /\ rows'[k] = patch[r][k]
  BY <1>1 DEF WroteSoFar, Touched
<1>8. \A k \in Keys \ WroteSoFar(r) : rows'[k] = rows[k]
  BY <1>1
<1>9. ASSUME NEW i \in DOMAIN commits', NEW k \in Keys, Decided(commits[i], k)',
             \A j \in DOMAIN commits' : j > i => ~Decided(commits[j], k)'
      PROVE  rows'[k] = patch'[commits'[i]][k]
  <2>1. CASE i = Len(commits) + 1
    BY <1>1, <1>3, <1>5, <1>7, <1>9, <2>1
  <2>2. CASE i \in DOMAIN commits
    <3>1. k \notin WroteSoFar(r)
      BY <1>3, <1>5, <1>9, <2>2
    <3>2. Decided(commits[i], k)
      BY <1>2, <1>3, <1>6, <1>9, <2>2
    <3>3. \A j \in DOMAIN commits : j > i => ~Decided(commits[j], k)
      BY <1>2, <1>3, <1>6, <1>9, <2>2
    <3>4. rows[k] = patch[commits[i]][k]
      BY <2>2, <3>2, <3>3 DEF LaterPatchDecides
    <3>5. QED
      BY <1>1, <1>3, <1>8, <2>2, <3>1, <3>4
  <2>3. QED
    BY <1>3, <2>1, <2>2
<1>10. LaterPatchDecides'
  BY <1>9 DEF LaterPatchDecides
<1>11. QED
  BY <1>4, <1>10

(* A step keeps the order of the commits and what the rows show of them. *)
LEMMA CommitsStep ==
    ASSUME TypeOK, \A s \in Requests : PatchOK(s), CommitsOK, LaterPatchDecides, [Next]_vars
    PROVE  CommitsOK' /\ LaterPatchDecides'
<1>0. \A s \in Requests : pc[s] # "done" => outcome[s] = "none"
  BY DEF PatchOK
<1>1. ASSUME NEW r \in Requests, RefuseEmpty(r) PROVE CommitsOK' /\ LaterPatchDecides'
  BY <1>0, <1>1, DecidedStays DEF RefuseEmpty, Finish, Rests, TypeOK
<1>2. ASSUME NEW r \in Requests, NEW p \in Patches, Patch(r, p)
      PROVE  CommitsOK' /\ LaterPatchDecides'
  BY <1>0, <1>2, DecidedStays DEF Patch, Rests, TypeOK
<1>3. ASSUME NEW r \in Requests, NEW k, NEW v, Turn(r, k, v)
      PROVE  CommitsOK' /\ LaterPatchDecides'
  BY <1>0, <1>3, DecidedStays DEF Turn, Wrote, Rests, TypeOK
<1>4. ASSUME NEW r \in Requests, Answer(r) PROVE CommitsOK' /\ LaterPatchDecides'
  BY <1>0, <1>4, DecidedStays DEF Answer, Rests, TypeOK
<1>5. ASSUME NEW r \in Requests, Commit(r) PROVE CommitsOK' /\ LaterPatchDecides'
  BY <1>5, CommitDecides
<1>6. ASSUME NEW r \in Requests, Abort(r) PROVE CommitsOK' /\ LaterPatchDecides'
  BY <1>0, <1>6, DecidedStays DEF Abort, Finish, Rests, TypeOK
<1>7. ASSUME UNCHANGED vars PROVE CommitsOK' /\ LaterPatchDecides'
  BY <1>7, DecidedStays DEF vars, reqVars, Rests
<1>8. QED
  BY <1>1, <1>2, <1>3, <1>4, <1>5, <1>6, <1>7, StepCases

-----------------------------------------------------------------------------
(* The order of the keys. *)

(* A step writes the first of the keys that are left. *)
LEMMA OrderStep ==
    ASSUME TypeOK, \A r \in Requests : PatchOK(r) /\ InOrder(r), [Next]_vars
    PROVE  \A r \in Requests : InOrder(r)'
<1>0. \A r \in Requests : PatchOK(r) /\ InOrder(r)
  OBVIOUS
<1>1. ASSUME NEW s \in Requests, todo'[s] = todo[s], written'[s] = written[s]
      PROVE  InOrder(s)'
  BY <1>1 DEF InOrder
<1>2. ASSUME NEW s \in Requests, written'[s] = Untouched
      PROVE  InOrder(s)'
  BY <1>2 DEF InOrder, Untouched
<1>3. ASSUME NEW r \in Requests, NEW p \in Patches, Patch(r, p)
      PROVE  \A s \in Requests : InOrder(s)'
  <2>1. written'[r] = Untouched /\ \A s \in Requests \ {r} :
           todo'[s] = todo[s] /\ written'[s] = written[s]
    BY <1>0, <1>3 DEF Patch, PatchOK, TypeOK
  <2>2. QED
    BY <1>1, <1>2, <2>1
<1>4. ASSUME NEW r \in Requests, NEW k, NEW v, Turn(r, k, v)
      PROVE  \A s \in Requests : InOrder(s)'
  <2>1. /\ \A s \in Requests \ {r} : todo'[s] = todo[s] /\ written'[s] = written[s]
        /\ todo'[r] = todo[r] \ {k}
        /\ k \in Nat /\ todo[r] \subseteq Nat /\ Keys \subseteq Nat
        /\ \A j \in Keys : j # k => written'[r][j] = written[r][j]
    BY <1>4, KeysAssumption DEF Turn, Wrote, TypeOK, Patches
  <2>2. ASSUME NEW i \in Keys, written'[r][i] # OMIT, NEW j \in todo'[r]
        PROVE  i < j
    <3>1. j \in todo[r] /\ j # k /\ k <= j /\ j \in Nat
      BY <1>4, <2>1, <2>2 DEF Turn
    <3>2. CASE i = k
      BY <2>1, <3>1, <3>2
    <3>3. CASE i # k
      BY <2>1, <2>2, <3>1, <3>3 DEF InOrder
    <3>4. QED
      BY <3>2, <3>3
  <2>3. InOrder(r)'
    BY <2>2 DEF InOrder
  <2>4. QED
    BY <1>1, <2>1, <2>3
<1>5. ASSUME NEW r \in Requests, RefuseEmpty(r) \/ Answer(r)
      PROVE  \A s \in Requests : InOrder(s)'
  BY <1>1, <1>5 DEF RefuseEmpty, Answer
<1>6. ASSUME NEW r \in Requests, Commit(r) \/ Abort(r)
      PROVE  \A s \in Requests : InOrder(s)'
  <2>1. written'[r] = Untouched /\ \A s \in Requests \ {r} :
           todo'[s] = todo[s] /\ written'[s] = written[s]
    BY <1>6 DEF Commit, Abort, TypeOK
  <2>2. QED
    BY <1>1, <1>2, <2>1
<1>7. CASE UNCHANGED vars
  BY <1>1, <1>7 DEF vars, reqVars
<1>8. QED
  BY <1>3, <1>4, <1>5, <1>6, <1>7, StepCases

-----------------------------------------------------------------------------
(* The theorems. *)

(* It holds before the first patch. *)
LEMMA InitOK == Init => SettingsIInv
<1> SUFFICES ASSUME Init PROVE SettingsIInv
  OBVIOUS
<1> USE MarksAssumption DEF Init
<1>1. Untouched \in Patches /\ Untouched \in [Keys -> Values \cup Fallbacks \cup {OMIT}]
  BY DEF Untouched, Patches
<1>2. TypeOK
  BY <1>1 DEF TypeOK
<1>3. \A r \in Requests : PatchOK(r) /\ InOrder(r)
  BY DEF PatchOK, InOrder, Untouched, Touched
<1>4. LaterPatchDecides
  BY DEF LaterPatchDecides
<1>5. QED
  BY <1>2, <1>3, <1>4 DEF SettingsIInv

(* Every open transaction of updateSettings() has written what its patch   *)
(* asks for as far as it has come, and the rows are what the commits have  *)
(* made of them.                                                           *)
THEOREM SettingsInvariance == Spec => []SettingsIInv
<1>1. SettingsIInv /\ [Next]_vars => SettingsIInv'
  <2> SUFFICES ASSUME SettingsIInv, [Next]_vars PROVE SettingsIInv'
    OBVIOUS
  <2>1. /\ TypeOK /\ CommitsOK /\ LaterPatchDecides
        /\ \A r \in Requests : PatchOK(r) /\ InOrder(r)
    BY DEF SettingsIInv, CommitsOK
  <2>2. TypeOK' /\ CommitsOK' /\ LaterPatchDecides'
    BY <2>1, TypeStep, CommitsStep
  <2>3. \A r \in Requests : PatchOK(r)' /\ InOrder(r)'
    BY <2>1, PatchStep, OrderStep
  <2>4. QED
    BY <2>2, <2>3 DEF SettingsIInv, CommitsOK
<1>2. QED
  BY <1>1, InitOK, PTL DEF Spec

(* Patches take effect whole, in the order of their commits.               *)
THEOREM LaterPatchesDecide == Spec => []LaterPatchDecides
<1>1. SettingsIInv => LaterPatchDecides
  BY DEF SettingsIInv
<1>2. QED
  BY <1>1, SettingsInvariance, PTL

(* getEffectiveSettings() inside the transaction answers what the patch    *)
(* leaves.                                                                 *)
THEOREM AnswersShowPatches == Spec => []AnswerShowsPatch
<1>1. SettingsIInv => AnswerShowsPatch
  <2> SUFFICES ASSUME SettingsIInv, NEW r \in Requests, NEW k \in Keys, Decided(r, k)
               PROVE  answer[r][k] = IF patch[r][k] = NULL THEN env[k] ELSE patch[r][k]
    BY DEF AnswerShowsPatch
  <2>1. PatchOK(r) /\ outcome[r] = "ok"
    BY DEF SettingsIInv, Decided
  <2>2. k \in WroteSoFar(r)
    BY <2>1 DEF PatchOK, Decided, WroteSoFar
  <2>3. QED
    BY <2>1, <2>2 DEF PatchOK
<1>2. QED
  BY <1>1, SettingsInvariance, PTL

(* Patches never wait for each other in a circle: whoever is waited for is *)
(* further along in the order in which the DTO declares the keys.          *)
THEOREM WaitsNeverCircle == Spec => []WaitsAreOrdered
<1>1. SettingsIInv => WaitsAreOrdered
  <2> SUFFICES ASSUME SettingsIInv, NEW r \in Requests, NEW s \in Requests,
                      Waits(r, s), todo[s] # {}
               PROVE  First(r) < First(s)
    BY DEF WaitsAreOrdered
  <2>1. todo[r] \in SUBSET Nat /\ todo[s] \in SUBSET Nat /\ todo[r] \subseteq Keys
    BY KeysAssumption DEF SettingsIInv, TypeOK
  <2>2. First(r) \in todo[r] /\ First(s) \in todo[s]
    BY <2>1, FirstIsLeft DEF First, Waits
  <2>3. First(r) \in Keys /\ written[s][First(r)] # OMIT
    BY <2>1, <2>2 DEF Waits
  <2>4. QED
    BY <2>2, <2>3 DEF SettingsIInv, InOrder
<1>2. QED
  BY <1>1, SettingsInvariance, PTL

(* So the patches that are open never all wait: the one whose turn is the  *)
(* latest key waits for nobody, and whoever has ended holds no row.        *)
THEOREM SomePatchGoesOn == Spec => []SomeoneIsReady
<1>1. SettingsIInv /\ WaitsAreOrdered => SomeoneIsReady
  <2> SUFFICES ASSUME SettingsIInv, WaitsAreOrdered, Open # {}
               PROVE  \E r \in Open : \A s \in Requests : ~Waits(r, s)
    BY DEF SomeoneIsReady
  <2>1. CASE \E r \in Open : todo[r] = {}
    BY <2>1 DEF Waits
  <2>2. CASE \A r \in Open : todo[r] # {}
    <3> DEFINE Now == {First(r) : r \in Open}
    <3>1. ASSUME NEW r \in Open
          PROVE  First(r) \in Keys
      <4>1. todo[r] \in SUBSET Nat /\ todo[r] \subseteq Keys
        BY KeysAssumption DEF SettingsIInv, TypeOK, Open
      <4>2. QED
        BY <2>2, <4>1, FirstIsLeft DEF First
    <3>2. Now \in SUBSET Keys /\ Now # {}
      BY <3>1
    <3>3. PICK k \in Now : \A j \in Now : j <= k
      BY <3>2, LastKey
    <3>4. PICK r \in Open : First(r) = k
      BY <3>3
    <3>5. ASSUME NEW s \in Requests, Waits(r, s)
          PROVE  FALSE
      <4>1. s \in Open
        <5>1. First(r) \in Keys /\ written[s][First(r)] # OMIT
          BY <3>1, <3>5 DEF Waits
        <5>2. written[s] # Untouched
          BY <5>1 DEF Untouched
        <5>3. QED
          BY <5>2 DEF SettingsIInv, TypeOK, PatchOK, Open
      <4>2. First(r) < First(s) /\ First(s) <= First(r)
        BY <2>2, <3>3, <3>4, <3>5, <4>1 DEF WaitsAreOrdered, Open
      <4>3. First(r) \in Nat /\ First(s) \in Nat
        BY <3>1, <4>1, KeysAssumption
      <4>4. QED
        BY <4>2, <4>3
    <3>6. QED
      BY <3>5
  <2>3. QED
    BY <2>1, <2>2
<1>2. QED
  BY <1>1, SettingsInvariance, WaitsNeverCircle, PTL
=============================================================================
