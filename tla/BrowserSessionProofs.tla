------------------------ MODULE BrowserSessionProofs ------------------------
(***************************************************************************)
(* Proofs about BrowserSession: what is proved of the server holds with a  *)
(* browser in front of it, and what the browser hears decides whether its  *)
(* cookies look stolen or a session survives its logout.                   *)
(***************************************************************************)
EXTENDS BrowserSession, RefreshSessionsProofs

(* The browser sends the call r. *)
Sends(r) ==
    \/ \E u \in Users, j \in Jtis : BrowserLogin(r, u, j)
    \/ \E j \in Jtis : BrowserRefresh(r, j)
    \/ BrowserRefreshDenied(r)
    \/ BrowserLogout(r) \/ BrowserLogoutNoCookie(r)

(* The calls of a browser are the requests of RefreshSessions. *)
LEMMA BrowserCases ==
    ASSUME [BrowserNext]_bvars
    PROVE  \/ \E r \in Requests : Sends(r) \/ Deliver(r) \/ Lose(r)
           \/ ServerStep
           \/ UNCHANGED bvars
BY DEF BrowserNext, BrowserFinished, Sends

(* Every step of the browser's world is a step of the server, or none. *)
LEMMA BrowserStepsServer ==
    ASSUME TypeOK, [BrowserNext]_bvars
    PROVE  [Next]_vars
<1>1. ASSUME NEW r \in Requests, Sends(r) PROVE Next
  <2>1. ASSUME jar \in stored PROVE jar \in Jtis
    BY <2>1 DEF TypeOK
  <2>2. QED
    BY <1>1, <2>1 DEF Sends, BrowserLogin, BrowserRefresh, BrowserRefreshDenied,
       BrowserLogout, BrowserLogoutNoCookie, StartRefresh, StartLogout, Next
<1>2. ASSUME NEW r \in Requests, Deliver(r) \/ Lose(r) PROVE UNCHANGED vars
  BY <1>2 DEF Deliver, Lose
<1>3. ASSUME ServerStep PROVE Next
  BY <1>3 DEF ServerStep, Next
<1>4. QED
  BY <1>1, <1>2, <1>3, BrowserCases DEF bvars

(* What the client of r is told, and with which tokens. *)
Told(r) == <<pc[r], outcome[r], token[r], newJti[r]>>

(* A call that has been answered keeps what it was told. *)
LEMMA DoneIsFinal ==
    ASSUME TypeOK, [Next]_vars, NEW r \in Requests, pc[r] = "done"
    PROVE  UNCHANGED Told(r)
<1> USE DEF TypeOK, Told, Goto, Finish, rowVars, reqVars
<1>1. ASSUME NEW s \in Requests, NEW u \in Users, NEW j \in Jtis,
             StartLogin(s, u, j) PROVE UNCHANGED Told(r)
  BY <1>1 DEF StartLogin, IssueTokens
<1>2. ASSUME NEW s \in Requests, NEW t \in Jtis, NEW j \in Jtis,
             StartRefresh(s, t, j) PROVE UNCHANGED Told(r)
  BY <1>2 DEF StartRefresh, IssueTokens
<1>3. ASSUME NEW s \in Requests, NEW t \in Jtis,
             StartLogout(s, t) PROVE UNCHANGED Told(r)
  BY <1>3 DEF StartLogout
<1>4. ASSUME NEW s \in Requests,
             RejectToken(s) \/ LogoutNothing(s) PROVE UNCHANGED Told(r)
  BY <1>4 DEF RejectToken, LogoutNothing
<1>5. ASSUME NEW s \in Requests,
             CommitLogin(s) \/ CommitReplace(s) PROVE UNCHANGED Told(r)
  BY <1>5 DEF CommitLogin, CommitReplace, Insert
<1>6. ASSUME NEW s \in Requests,
             FindLive(s) \/ FindRevoked(s) \/ FindReplaced(s) PROVE UNCHANGED Told(r)
  BY <1>6 DEF FindLive, FindRevoked, FindReplaced
<1>7. ASSUME NEW s \in Requests,
             RevokeAll(s) \/ Revoke(s) PROVE UNCHANGED Told(r)
  BY <1>7 DEF RevokeAll, Revoke
<1>8. ASSUME NEW s \in Requests,
             ReplaceRow(s) \/ LoseRace(s) PROVE UNCHANGED Told(r)
  BY <1>8 DEF ReplaceRow, LoseRace
<1>9. ASSUME NEW s \in Requests,
             Abort(s) PROVE UNCHANGED Told(r)
  BY <1>9 DEF Abort
<1>10. CASE \/ \E u \in Users : BumpTokenVersion(u)
            \/ Finished \/ UNCHANGED vars
  BY <1>10 DEF BumpTokenVersion, Finished, vars
<1>11. QED
  BY <1>1, <1>2, <1>3, <1>4, <1>5, <1>6, <1>7, <1>8, <1>9, <1>10
     DEF Next, Progress

(* What a call has been told stays true. *)
LEMMA OutcomesStep ==
    ASSUME TypeOK, RequestsOK, RowsOK, OutcomesOK, [Next]_vars
    PROVE  OutcomesOK'
<1> USE DEF TypeOK, RequestsOK, RowsOK, OutcomesOK, Drawing, Holding, Goto, Finish,
            rowVars, reqVars
<1>1. ASSUME NEW s \in Requests, NEW u \in Users, NEW j \in Jtis,
             StartLogin(s, u, j) PROVE OutcomesOK'
  BY <1>1 DEF StartLogin, IssueTokens
<1>2. ASSUME NEW s \in Requests, NEW t \in Jtis, NEW j \in Jtis,
             StartRefresh(s, t, j) PROVE OutcomesOK'
  BY <1>2 DEF StartRefresh, IssueTokens
<1>3. ASSUME NEW s \in Requests, NEW t \in Jtis,
             StartLogout(s, t) PROVE OutcomesOK'
  BY <1>3 DEF StartLogout
<1>4. ASSUME NEW s \in Requests,
             RejectToken(s) \/ LogoutNothing(s) PROVE OutcomesOK'
  BY <1>4 DEF RejectToken, LogoutNothing
<1>5. ASSUME NEW s \in Requests,
             CommitLogin(s) \/ CommitReplace(s) PROVE OutcomesOK'
  BY <1>5 DEF CommitLogin, CommitReplace, Insert
<1>6. ASSUME NEW s \in Requests,
             FindLive(s) \/ FindRevoked(s) \/ FindReplaced(s) PROVE OutcomesOK'
  BY <1>6 DEF FindLive, FindRevoked, FindReplaced
<1>7. ASSUME NEW s \in Requests,
             RevokeAll(s) \/ Revoke(s) PROVE OutcomesOK'
  BY <1>7 DEF RevokeAll, Revoke
<1>8. ASSUME NEW s \in Requests,
             ReplaceRow(s) \/ LoseRace(s) PROVE OutcomesOK'
  BY <1>8 DEF ReplaceRow, LoseRace
<1>9. ASSUME NEW s \in Requests,
             Abort(s) PROVE OutcomesOK'
  BY <1>9 DEF Abort
<1>10. CASE \/ \E u \in Users : BumpTokenVersion(u)
            \/ Finished \/ UNCHANGED vars
  BY <1>10 DEF BumpTokenVersion, Finished, vars
<1>11. QED
  BY <1>1, <1>2, <1>3, <1>4, <1>5, <1>6, <1>7, <1>8, <1>9, <1>10
     DEF Next, Progress

(* Sending changes the call sent and nothing the browser has been told. *)
LEMMA SendsOne ==
    ASSUME TypeOK, RequestsOK, BrowserTypeOK, NEW r \in Requests, Sends(r)
    PROVE  /\ pc[r] = "idle"
           /\ UNCHANGED <<jar, delivered, lost>>
           /\ known' = [known EXCEPT ![r] = delivered]
           /\ route' \in [Requests -> Routes] /\ overlapped' \in BOOLEAN
           /\ \A s \in Requests \ {r} : UNCHANGED Told(s)
           /\ token'[r] = NULL \/ (jar # NULL /\ token'[r] = jar)
<1> USE DEF TypeOK, RequestsOK, BrowserTypeOK, Told, Goto, Finish, rowVars,
            reqVars, Send, Routes, Unanswered
<1>1. CASE \E u \in Users, j \in Jtis : BrowserLogin(r, u, j)
  BY <1>1 DEF BrowserLogin, StartLogin, IssueTokens
<1>2. CASE \E j \in Jtis : BrowserRefresh(r, j)
  BY <1>2 DEF BrowserRefresh, StartRefresh, IssueTokens
<1>3. CASE BrowserRefreshDenied(r)
  BY <1>3 DEF BrowserRefreshDenied, RejectToken
<1>4. CASE BrowserLogout(r)
  BY <1>4 DEF BrowserLogout, StartLogout
<1>5. CASE BrowserLogoutNoCookie(r)
  BY <1>5 DEF BrowserLogoutNoCookie, LogoutNothing
<1>6. QED
  BY <1>1, <1>2, <1>3, <1>4, <1>5 DEF Sends

(* The server's own steps draw and present no tokens. *)
LEMMA ServerStepShape ==
    ASSUME ServerStep
    PROVE  UNCHANGED <<browserVars, token, newJti>>
BY DEF ServerStep, Progress, CommitLogin, FindLive, FindRevoked, FindReplaced,
       RevokeAll, ReplaceRow, LoseRace, CommitReplace, Revoke, Abort,
       BumpTokenVersion, reqVars

(* What the browser has heard is over, and true, after every step. *)
LEMMA AnswersStep ==
    ASSUME TypeOK, RequestsOK, RowsOK, BrowserTypeOK, AnswersOK, [BrowserNext]_bvars
    PROVE  AnswersOK'
<1>1. [Next]_vars
  BY BrowserStepsServer
<1>2. OutcomesOK'
  BY <1>1, OutcomesStep DEF AnswersOK
<1>3. ASSUME NEW r \in delivered' PROVE r \in Requests /\ pc[r] = "done"
  <2>1. ASSUME NEW s \in Requests, Sends(s) PROVE UNCHANGED delivered
    BY <2>1, SendsOne
  <2>2. ASSUME NEW s \in Requests, Deliver(s) \/ Lose(s)
        PROVE  delivered' = delivered \/ (pc[s] = "done" /\ delivered' = delivered \cup {s})
    BY <2>2 DEF Deliver, Lose
  <2>3. ASSUME ServerStep PROVE UNCHANGED delivered
    BY <2>3 DEF ServerStep, browserVars
  <2>4. QED
    BY <1>3, <2>1, <2>2, <2>3, BrowserCases
       DEF AnswersOK, BrowserTypeOK, bvars, browserVars
<1>4. ASSUME NEW r \in delivered' PROVE pc'[r] = "done"
  BY <1>1, <1>3, <1>4, DoneIsFinal DEF Told
<1>5. QED
  BY <1>2, <1>4 DEF AnswersOK

(* What an answer that has come has brought stays brought. *)
LEMMA BroughtStays ==
    ASSUME TypeOK, RequestsOK, BrowserTypeOK, AnswersOK, [BrowserNext]_bvars,
           NEW j, Brought(j)
    PROVE  Brought(j)'
<1>1. PICK d \in delivered : outcome[d] = "ok" /\ newJti[d] = j
  BY DEF Brought
<1>2. UNCHANGED Told(d)
  BY BrowserStepsServer, DoneIsFinal DEF AnswersOK, BrowserTypeOK
<1>3. d \in delivered'
  <2>1. ASSUME NEW s \in Requests, Sends(s) PROVE UNCHANGED delivered
    BY <2>1, SendsOne
  <2>2. QED
    BY <2>1, BrowserCases DEF Deliver, Lose, ServerStep, bvars, browserVars
<1>4. QED
  BY <1>1, <1>2, <1>3 DEF Brought, Told

(* Rows are never deleted. *)
LEMMA StoredGrows ==
    ASSUME [Next]_vars
    PROVE  stored \subseteq stored'
BY DEF Next, Progress, IssueTokens, StartLogin, StartRefresh, StartLogout,
       RejectToken, LogoutNothing, CommitLogin, FindLive, FindRevoked,
       FindReplaced, RevokeAll, ReplaceRow, LoseRace, CommitReplace, Insert,
       Revoke, Abort, BumpTokenVersion, Finished, vars, rowVars

(* What an answer does to the jar. *)
LEMMA DeliverShape ==
    ASSUME BrowserTypeOK, NEW r \in Requests, Deliver(r)
    PROVE  /\ r \notin delivered
           /\ delivered' = delivered \cup {r}
           /\ UNCHANGED <<vars, route, lost, known, overlapped>>
           /\ \/ outcome[r] = "ok" /\ jar' = newJti[r]
              \/ outcome[r] # "ok" /\ (jar' = jar \/ jar' = NULL)
BY DEF Deliver, Cookies, Unanswered

(* The browser's variables keep their types, and the jar a stored session. *)
LEMMA BrowserTypeStep ==
    ASSUME IInv, BrowserTypeOK, AnswersOK, [BrowserNext]_bvars
    PROVE  BrowserTypeOK'
<1>1. TypeOK /\ RequestsOK /\ stored \subseteq stored'
  BY StoredGrows, BrowserStepsServer DEF IInv
<1>2. ASSUME NEW r \in Requests, Sends(r) PROVE BrowserTypeOK'
  BY <1>1, <1>2, SendsOne DEF BrowserTypeOK
<1>3. ASSUME NEW r \in Requests, Deliver(r) PROVE BrowserTypeOK'
  <2>1. outcome[r] = "ok" => newJti[r] \in stored /\ newJti[r] \in Jtis
    BY <1>1 DEF AnswersOK, OutcomesOK, TypeOK
  <2>2. QED
    BY <1>1, <1>3, <2>1, DeliverShape DEF BrowserTypeOK
<1>4. ASSUME NEW r \in Requests, Lose(r) PROVE BrowserTypeOK'
  BY <1>1, <1>4 DEF Lose, BrowserTypeOK
<1>5. CASE ServerStep \/ UNCHANGED bvars
  BY <1>1, <1>5 DEF ServerStep, bvars, browserVars, BrowserTypeOK
<1>6. QED
  BY <1>2, <1>3, <1>4, <1>5, BrowserCases

(* The jar and the calls keep to tokens that answers have brought. *)
LEMMA CookiesStep ==
    ASSUME IInv, BrowserTypeOK, AnswersOK, CookiesOK, [BrowserNext]_bvars
    PROVE  CookiesOK'
<1>1. TypeOK /\ RequestsOK
  BY DEF IInv
<1>2. \A j : Brought(j) => Brought(j)'
  BY <1>1, BroughtStays
<1>3. ASSUME NEW r \in Requests, Sends(r) PROVE CookiesOK'
  <2>1. \A s \in Requests \ {r} : token'[s] = token[s]
    BY <1>1, <1>3, SendsOne DEF Told
  <2>2. jar' = jar /\ (token'[r] = NULL \/ (jar # NULL /\ token'[r] = jar))
    BY <1>1, <1>3, SendsOne
  <2>3. QED
    BY <1>2, <2>1, <2>2 DEF CookiesOK
<1>4. ASSUME NEW r \in Requests, Deliver(r) PROVE CookiesOK'
  <2>1. token' = token /\ newJti' = newJti /\ outcome' = outcome
    BY <1>4 DEF Deliver, vars, reqVars
  <2>2. jar' # NULL => Brought(jar)'
    <3>1. CASE outcome[r] = "ok"
      BY <1>4, <2>1, <3>1, DeliverShape DEF Brought
    <3>2. CASE outcome[r] # "ok"
      BY <1>2, <1>4, <3>2, DeliverShape DEF CookiesOK
    <3>3. QED
      BY <3>1, <3>2
  <2>3. QED
    BY <1>2, <2>1, <2>2 DEF CookiesOK
<1>5. ASSUME NEW r \in Requests, Lose(r) PROVE CookiesOK'
  BY <1>2, <1>5 DEF Lose, vars, reqVars, CookiesOK
<1>6. CASE ServerStep
  BY <1>2, <1>6, ServerStepShape DEF browserVars, CookiesOK
<1>7. CASE UNCHANGED bvars
  BY <1>2, <1>7 DEF bvars, browserVars, vars, reqVars, CookiesOK
<1>8. QED
  BY <1>3, <1>4, <1>5, <1>6, <1>7, BrowserCases

(* An answer replaces the cookie by a token that no call has presented.    *)
LEMMA NeverBackStep ==
    ASSUME IInv, BrowserTypeOK, AnswersOK, CookiesOK, NeverBack,
           [BrowserNext]_bvars
    PROVE  NeverBack'
<1>1. TypeOK /\ RequestsOK /\ RowsOK /\ JtisDiffer
  BY DEF IInv
<1>2. \A s \in delivered : UNCHANGED Told(s)
  BY <1>1, BrowserStepsServer, DoneIsFinal DEF AnswersOK, BrowserTypeOK
<1>3. delivered \subseteq Requests /\ \A r \in Requests : known[r] \subseteq delivered
  BY DEF BrowserTypeOK
<1>4. ASSUME NEW r \in Requests, Sends(r) PROVE NeverBack'
  <2>1. /\ jar' = jar /\ delivered' = delivered
        /\ known' = [known EXCEPT ![r] = delivered]
        /\ \A s \in Requests \ {r} : UNCHANGED Told(s)
        /\ token'[r] = NULL \/ (jar # NULL /\ token'[r] = jar)
    BY <1>1, <1>4, SendsOne
  <2>2. ASSUME NEW s \in delivered', outcome'[s] = "ok", jar' # NULL
        PROVE  token'[s] # jar'
    BY <1>2, <2>1, <2>2 DEF NeverBack, Told
  <2>3. ASSUME NEW q \in Requests, NEW s \in known'[q],
               outcome'[s] = "ok", token'[s] # NULL
        PROVE  token'[s] # token'[q]
    <3>1. CASE q = r
      <4>1. s \in delivered
        BY <2>1, <2>3, <3>1 DEF BrowserTypeOK
      <4>2. QED
        BY <1>2, <2>1, <2>3, <3>1, <4>1 DEF NeverBack, Told
    <3>2. CASE q # r
      <4>1. s \in known[q] /\ s \in delivered
        BY <1>3, <2>1, <2>3, <3>2 DEF BrowserTypeOK
      <4>2. QED
        BY <1>2, <2>1, <2>3, <3>2, <4>1 DEF NeverBack, Told
    <3>3. QED
      BY <3>1, <3>2
  <2>4. QED
    BY <2>2, <2>3 DEF NeverBack
<1>5. ASSUME NEW r \in Requests, Deliver(r) PROVE NeverBack'
  <2>1. UNCHANGED <<token, newJti, outcome, known, stored>>
    BY <1>5 DEF Deliver, vars, reqVars, rowVars
  <2>2. CASE outcome[r] = "ok"
    <3>1. jar' = newJti[r] /\ newJti[r] \in stored /\ newJti[r] # NULL
      BY <1>1, <1>5, <2>2, DeliverShape, NullAssumption
         DEF AnswersOK, OutcomesOK, TypeOK
    <3>2. ASSUME NEW s \in Requests, token[s] # NULL PROVE token[s] # newJti[r]
      (* A call presents what an answer had brought, and no two calls drew   *)
      (* the same token.                                                     *)
      <4>1. PICK d \in delivered : newJti[d] = token[s]
        BY <3>2 DEF CookiesOK, Brought
      <4>2. d # r
        BY <1>5, DeliverShape
      <4>3. QED
        BY <1>1, <1>3, <3>1, <4>1, <4>2 DEF JtisDiffer
    <3>3. \A s \in delivered' : token[s] # jar'
      BY <1>3, <1>5, <3>1, <3>2, DeliverShape
    <3>4. QED
      BY <2>1, <3>3 DEF NeverBack
  <2>3. CASE outcome[r] # "ok"
    BY <1>5, <2>1, <2>3, DeliverShape DEF NeverBack
  <2>4. QED
    BY <2>2, <2>3
<1>6. ASSUME NEW r \in Requests, Lose(r) PROVE NeverBack'
  BY <1>6 DEF Lose, vars, reqVars, NeverBack
<1>7. CASE ServerStep
  BY <1>2, <1>3, <1>7, ServerStepShape DEF browserVars, NeverBack, Told
<1>8. CASE UNCHANGED bvars
  BY <1>8 DEF bvars, browserVars, vars, reqVars, NeverBack
<1>9. QED
  BY <1>4, <1>5, <1>6, <1>7, <1>8, BrowserCases

(* A server's step that is not a deletion goes on with a call the browser  *)
(* waits for, if it has lost no answer.                                    *)
LEMMA ServerAnswers ==
    ASSUME TypeOK, AnswersOK, lost = {}, NEW r \in Requests, Progress(r) \/ Abort(r)
    PROVE  /\ r \in Unanswered /\ pc[r] \notin {"idle", "done"}
           /\ Unanswered' = Unanswered \/ browserVars' # browserVars
<1>1. pc[r] \notin {"idle", "done"}
  BY DEF Progress, Abort, CommitLogin, FindLive, FindRevoked, FindReplaced, RevokeAll,
     ReplaceRow, LoseRace, CommitReplace, Revoke
<1>2. r \in Unanswered
  BY <1>1 DEF Unanswered, AnswersOK
<1>3. \E l \in PcStates \ {"idle"} : pc' = [pc EXCEPT ![r] = l]
  BY DEF Progress, Abort, CommitLogin, FindLive, FindRevoked, FindReplaced, RevokeAll,
     ReplaceRow, LoseRace, CommitReplace, Revoke, Goto, Finish, PcStates
<1>4. {s \in Requests : pc'[s] # "idle"} = {s \in Requests : pc[s] # "idle"}
  BY <1>1, <1>3 DEF TypeOK
<1>5. QED
  BY <1>1, <1>2, <1>4 DEF Unanswered, browserVars

(* A step keeps the cookie of a browser that calls one at a time usable. *)
LEMMA JarStep ==
    ASSUME IInv, BrowserTypeOK, AnswersOK, JarOK, [BrowserNext]_bvars
    PROVE  JarOK'
<1>0. TypeOK /\ RequestsOK /\ RowsOK
  BY DEF IInv
<1>1. SUFFICES ASSUME ~overlapped', lost' = {}
               PROVE  /\ \A r, s \in Unanswered' : r = s
                      /\ Unanswered' = {} /\ jar' # NULL => Live(jar)'
                      /\ \A r \in Unanswered' :
                            /\ pc'[r] \in {"checked", "found", "commit", "logout"} =>
                                  token'[r] = jar'
                            /\ pc'[r] # "revoking" /\ outcome'[r] # "reuse"
                            /\ outcome'[r] \notin {"ok", "loggedOut"} /\ jar' # NULL => Live(jar)'
                            /\ outcome'[r] = "ok" => Live(newJti[r])'
  BY DEF JarOK
<1> USE DEF Live
<1>2. CASE \E r \in Requests : Sends(r)
  <2>1. PICK r \in Requests : Sends(r)
    BY <1>2
  <2>2. /\ pc[r] = "idle" /\ outcome[r] = "none"
        /\ UNCHANGED <<jar, delivered, lost, stored, revoked>>
        /\ Unanswered = {} /\ ~overlapped
    BY <1>0, <1>1, <2>1
    DEF Sends, BrowserLogin, BrowserRefresh, BrowserRefreshDenied, BrowserLogout,
        BrowserLogoutNoCookie, StartLogin, StartRefresh, RejectToken, StartLogout,
        LogoutNothing, Send, RequestsOK, rowVars, IssueTokens, Goto, Finish
  <2>3. jar # NULL => Live(jar)
    BY <1>1, <2>2 DEF JarOK
  <2>4. /\ \/ pc'[r] = "login" /\ outcome'[r] = "none"
           \/ pc'[r] = "checked" /\ outcome'[r] = "none" /\ token'[r] = jar
           \/ pc'[r] = "logout" /\ outcome'[r] = "none" /\ token'[r] = jar
           \/ pc'[r] = "done" /\ outcome'[r] \in {"denied", "loggedOut"}
        /\ \A s \in Requests \ {r} : pc'[s] = pc[s]
    BY <1>0, <2>1, <2>2
    DEF Sends, BrowserLogin, BrowserRefresh, BrowserRefreshDenied, BrowserLogout,
        BrowserLogoutNoCookie, StartLogin, StartRefresh, RejectToken, StartLogout,
        LogoutNothing, TypeOK, IssueTokens, Goto, Finish
  <2>5. Unanswered' \subseteq {r}
    BY <2>2, <2>4 DEF Unanswered
  <2>6. r \in Unanswered'
    BY <1>0, <1>1, <2>2, <2>4 DEF Unanswered, AnswersOK
  <2>7. QED
    BY <2>2, <2>3, <2>4, <2>5, <2>6
<1>3. CASE \E r \in Requests : Deliver(r)
  <2>1. PICK r \in Requests : Deliver(r)
    BY <1>3
  <2>2. /\ r \in Unanswered /\ pc[r] = "done" /\ jar' \in Cookies(r)
        /\ UNCHANGED <<pc, outcome, newJti, stored, revoked, lost, overlapped>>
        /\ Unanswered' = Unanswered \ {r}
    BY <2>1 DEF Deliver, vars, rowVars, reqVars, Unanswered
  <2>3. /\ Unanswered' = {}
        /\ outcome[r] \notin {"ok", "loggedOut"} /\ jar # NULL => Live(jar)
        /\ outcome[r] = "ok" => Live(newJti[r])
    BY <1>1, <2>2 DEF JarOK
  <2>4. jar' # NULL => Live(jar')
    BY <2>2, <2>3 DEF Cookies
  <2>5. QED
    BY <2>2, <2>3, <2>4
<1>4. CASE \E r \in Requests : Lose(r)
  BY <1>1, <1>4 DEF Lose
<1>5. CASE ServerStep
  <2>1. UNCHANGED <<browserVars, jar, lost, overlapped, token, newJti>>
    BY <1>5, ServerStepShape DEF browserVars
  <2>2. ~overlapped /\ lost = {}
    BY <1>1, <2>1
  <2>3. CASE \E u \in Users : BumpTokenVersion(u)
    <3>1. UNCHANGED <<pc, outcome, stored, revoked>> /\ Unanswered' = Unanswered
      BY <2>1, <2>3 DEF BumpTokenVersion, rowVars, reqVars, Unanswered, browserVars
    <3>2. QED
      BY <2>1, <2>2, <3>1 DEF JarOK
  <2>4. CASE \E r \in Requests : Progress(r) \/ Abort(r)
    <3>1. PICK r \in Requests : Progress(r) \/ Abort(r)
      BY <2>4
    <3>2. /\ r \in Unanswered /\ Unanswered' = Unanswered
          /\ pc[r] \notin {"idle", "done"} /\ outcome[r] = "none"
      BY <1>0, <2>1, <2>2, <3>1, ServerAnswers DEF RequestsOK
    <3>3. /\ Unanswered = {r} /\ pc[r] # "revoking" /\ (jar # NULL => Live(jar))
          /\ pc[r] \in {"checked", "found", "commit", "logout"} => token[r] = jar
      BY <2>2, <3>2 DEF JarOK
    <3>4. /\ pc'[r] \in {"checked", "found", "commit", "logout"} =>
                pc[r] \in {"checked", "found", "commit", "logout"}
          /\ pc'[r] # "revoking" /\ outcome'[r] # "reuse"
          /\ outcome'[r] \notin {"ok", "loggedOut"} /\ jar # NULL => Live(jar)'
          /\ outcome'[r] = "ok" => Live(newJti[r])'
      <4>1. CASE CommitLogin(r)
        BY <1>0, <2>1, <4>1 DEF CommitLogin, Insert, Finish, TypeOK, RequestsOK, RowsOK, Drawing
      <4>2. CASE FindLive(r)
        BY <1>0, <2>1, <3>2, <3>3, <4>2 DEF FindLive, Goto, TypeOK, rowVars
      <4>3. CASE FindRevoked(r) \/ FindReplaced(r)
        <5>1. jar # NULL /\ token[r] = jar /\ token[r] \in revoked
          BY <1>0, <3>3, <4>3, NullAssumption
          DEF FindRevoked, FindReplaced, RequestsOK, TypeOK, Holding
        <5>2. QED
          BY <3>3, <5>1
      <4>4. CASE RevokeAll(r)
        BY <3>3, <4>4 DEF RevokeAll
      <4>5. CASE ReplaceRow(r)
        BY <1>0, <2>1, <3>2, <3>3, <4>5 DEF ReplaceRow, Goto, TypeOK, rowVars
      <4>6. CASE LoseRace(r)
        BY <1>0, <2>1, <3>3, <4>6 DEF LoseRace, Finish, TypeOK, rowVars
      <4>7. CASE CommitReplace(r)
        BY <1>0, <2>1, <4>7
        DEF CommitReplace, Insert, Finish, TypeOK, RequestsOK, RowsOK, Drawing, Holding
      <4>8. CASE Revoke(r)
        BY <1>0, <2>1, <4>8 DEF Revoke, Finish, TypeOK
      <4>9. CASE Abort(r)
        BY <1>0, <2>1, <3>3, <4>9 DEF Abort, Finish, TypeOK, rowVars
      <4>10. QED
        BY <3>1, <4>1, <4>2, <4>3, <4>4, <4>5, <4>6, <4>7, <4>8, <4>9 DEF Progress
    <3>5. QED
      BY <2>1, <3>2, <3>3, <3>4
  <2>5. QED
    BY <1>5, <2>3, <2>4 DEF ServerStep
<1>6. CASE UNCHANGED bvars
  BY <1>1, <1>6 DEF bvars, browserVars, vars, rowVars, reqVars, JarOK, Unanswered
<1>7. QED
  BY <1>2, <1>3, <1>4, <1>5, <1>6, BrowserCases

(* The browser's invariant holds at first ... *)
LEMMA BrowserInvariantInit == BrowserInit => BrowserIInv
<1> SUFFICES ASSUME BrowserInit PROVE BrowserIInv
  OBVIOUS
<1>1. IInv
  BY InvariantInit DEF BrowserInit
<1>2. BrowserTypeOK /\ AnswersOK /\ CookiesOK /\ NeverBack
  BY DEF BrowserInit, Init, BrowserTypeOK, Routes, AnswersOK, OutcomesOK,
         CookiesOK, NeverBack
<1>3. JarOK
  BY DEF BrowserInit, Init, JarOK, Unanswered
<1>4. QED
  BY <1>1, <1>2, <1>3 DEF BrowserIInv

(* ... and every step keeps it. *)
LEMMA BrowserInvariantStep == BrowserIInv /\ [BrowserNext]_bvars => BrowserIInv'
<1> SUFFICES ASSUME BrowserIInv, [BrowserNext]_bvars PROVE BrowserIInv'
  OBVIOUS
<1>1. IInv /\ BrowserTypeOK /\ AnswersOK /\ CookiesOK /\ NeverBack /\ JarOK
  BY DEF BrowserIInv
<1>2. TypeOK /\ RequestsOK /\ RowsOK
  BY <1>1 DEF IInv
<1>3. IInv'
  BY <1>1, <1>2, BrowserStepsServer, InvariantStep
<1>4. BrowserTypeOK' /\ AnswersOK' /\ CookiesOK' /\ NeverBack' /\ JarOK'
  BY <1>1, <1>2, BrowserTypeStep, AnswersStep, CookiesStep, NeverBackStep, JarStep
<1>5. QED
  BY <1>3, <1>4 DEF BrowserIInv

(* The cookies, the calls and the answers always agree as BrowserIInv says. *)
THEOREM BrowserInvariance == BrowserSpec => []BrowserIInv
<1>1. QED
  BY BrowserInvariantInit, BrowserInvariantStep, PTL DEF BrowserSpec

(* Whatever the browser does, the server behaves as RefreshSessions says,  *)
(* so that every theorem about it holds with cookies and lost answers.     *)
THEOREM BrowserImplementsServer == BrowserSpec => Spec
<1>1. BrowserInit => Init
  BY DEF BrowserInit
<1>2. BrowserIInv /\ [BrowserNext]_bvars => [Next]_vars
  BY BrowserStepsServer DEF BrowserIInv, IInv
<1>3. QED
  BY <1>1, <1>2, BrowserInvariance, PTL DEF BrowserSpec, Spec

(* So, whatever answers are lost and cookies are stale, the browser and    *)
(* the server together rotate tokens as promised: a login has one usable   *)
(* token, a token is traded once, and a dead family stays dead.            *)
THEOREM BrowserRotatesTokens ==
    BrowserSpec => /\ ImplementsRotatingTokens /\ DeadFamilyStaysDead
                   /\ []AtMostOneLivePerFamily /\ []OneWinnerPerToken
BY BrowserImplementsServer, Refinement, DeadFamilies, SingleLiveSession, SingleWinner, PTL

(* A browser that has seen the answer of every refresh of its cookie never *)
(* raises the theft alarm.                                                 *)
THEOREM AlarmUnseen == BrowserSpec => []AlarmNeedsUnseenAnswer
<1>1. BrowserIInv => AlarmNeedsUnseenAnswer
  <2> SUFFICES ASSUME BrowserIInv, NEW r \in Requests, outcome[r] = "reuse"
               PROVE  \E s \in Requests \ {r} :
                         /\ outcome[s] = "ok" /\ token[s] = token[r]
                         /\ s \notin known[r]
    BY DEF AlarmNeedsUnseenAnswer
  <2>1. token[r] \in Jtis /\ token[r] # NULL /\ replacedById[token[r]] # NULL
    BY NullAssumption DEF BrowserIInv, IInv, TypeOK, AlarmsOK
  <2>2. PICK s \in Requests : outcome[s] = "ok" /\ token[s] = token[r]
    BY <2>1 DEF BrowserIInv, IInv, WinnersOK
  <2>3. s # r
    BY <2>2
  <2>4. s \notin known[r]
    BY <2>1, <2>2 DEF BrowserIInv, NeverBack
  <2>5. QED
    BY <2>2, <2>3, <2>4
<1>2. QED
  BY <1>1, BrowserInvariance, PTL

(* A logout that is answered leaves no usable session of its login, unless *)
(* a refresh of the same cookie succeeded behind the browser's back.       *)
THEOREM LogoutEnds == BrowserSpec => []LogoutEndsFamily
<1>1. BrowserIInv => LogoutEndsFamily
  <2> SUFFICES ASSUME BrowserIInv, NEW r \in Requests,
                      outcome[r] = "loggedOut", token[r] # NULL
               PROVE  \/ UsableIn(family[token[r]]) = {}
                      \/ \E s \in Requests :
                            /\ outcome[s] = "ok" /\ token[s] = token[r]
                            /\ s \notin known[r]
    BY DEF LogoutEndsFamily
  <2>1. token[r] \in Jtis /\ token[r] \in revoked /\ token[r] \in stored
    BY DEF BrowserIInv, AnswersOK, OutcomesOK, IInv, TypeOK, RowsOK
  <2>2. CASE replacedById[token[r]] = NULL
    (* It is the last session of its chain, and it is revoked.             *)
    <3>1. ASSUME NEW j \in UsableIn(family[token[r]]) PROVE FALSE
      <4>1. j \in stored /\ j \notin revoked /\ family[j] = family[token[r]]
        BY <3>1 DEF UsableIn, Usable, Live
      <4>2. replacedById[j] = NULL
        BY <4>1 DEF BrowserIInv, IInv, TypeOK, ChainsAreSound
      <4>3. j = token[r]
        BY <2>1, <2>2, <4>1, <4>2 DEF BrowserIInv, IInv, OneTailPerFamily
      <4>4. QED
        BY <2>1, <4>1, <4>3
    <3>2. QED
      BY <3>1
  <2>3. CASE replacedById[token[r]] # NULL
    <3>1. PICK s \in Requests : outcome[s] = "ok" /\ token[s] = token[r]
      BY <2>1, <2>3 DEF BrowserIInv, IInv, WinnersOK
    <3>2. s \notin known[r]
      BY <3>1 DEF BrowserIInv, NeverBack
    <3>3. QED
      BY <3>1, <3>2
  <2>4. QED
    BY <2>2, <2>3
<1>2. QED
  BY <1>1, BrowserInvariance, PTL

(* A browser that sends one call at a time and hears every answer never    *)
(* holds a cookie that applyAuthCookies() or clearAuthCookies() ought to   *)
(* have replaced: its session is live.                                     *)
THEOREM CookieWorks == BrowserSpec => []CookieWorksAlone
<1>1. BrowserIInv => CookieWorksAlone
  BY DEF BrowserIInv, JarOK, CookieWorksAlone
<1>2. QED
  BY <1>1, BrowserInvariance, PTL
=============================================================================
