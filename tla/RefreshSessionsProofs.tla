------------------------ MODULE RefreshSessionsProofs -----------------------
(***************************************************************************)
(* Proofs about RefreshSessions, for any number of requests, tokens and    *)
(* accounts.                                                               *)
(***************************************************************************)
EXTENDS RefreshSessions, TLAPS

(* Every step keeps the type of every variable. *)
LEMMA TypeStep ==
    ASSUME TypeOK, RowsOK, RequestsOK, [Next]_vars
    PROVE  TypeOK'
<1> USE NullAssumption, MaxVersionAssumption DEF TypeOK, RowsOK,
      RequestsOK, PcStates, Outcomes, Goto, Finish, rowVars, reqVars,
      Drawing, Holding, Fresh, Live
<1>1. ASSUME NEW r \in Requests, NEW u \in Users, NEW j \in Jtis,
           StartLogin(r, u, j) PROVE TypeOK'
  BY <1>1 DEF StartLogin, IssueTokens
<1>2. ASSUME NEW r \in Requests, NEW t \in Jtis, NEW j \in Jtis,
           StartRefresh(r, t, j) PROVE TypeOK'
  BY <1>2 DEF StartRefresh, IssueTokens
<1>3. ASSUME NEW r \in Requests, NEW t \in Jtis,
           StartLogout(r, t) PROVE TypeOK'
  BY <1>3 DEF StartLogout
<1>4. ASSUME NEW r \in Requests,
             RejectToken(r) \/ LogoutNothing(r) PROVE TypeOK'
  BY <1>4 DEF RejectToken, LogoutNothing
<1>5. ASSUME NEW r \in Requests, CommitLogin(r) PROVE TypeOK'
  BY <1>5 DEF CommitLogin, Insert
<1>6. ASSUME NEW r \in Requests, FindLive(r) PROVE TypeOK'
  BY <1>6 DEF FindLive
<1>7. ASSUME NEW r \in Requests, FindRevoked(r) PROVE TypeOK'
  BY <1>7 DEF FindRevoked
<1>8. ASSUME NEW r \in Requests, FindReplaced(r) PROVE TypeOK'
  BY <1>8 DEF FindReplaced
<1>9. ASSUME NEW r \in Requests, RevokeAll(r) PROVE TypeOK'
  BY <1>9 DEF RevokeAll
<1>10. ASSUME NEW r \in Requests, ReplaceRow(r) PROVE TypeOK'
  BY <1>10 DEF ReplaceRow
<1>11. ASSUME NEW r \in Requests, LoseRace(r) PROVE TypeOK'
  BY <1>11 DEF LoseRace
<1>12. ASSUME NEW r \in Requests, CommitReplace(r) PROVE TypeOK'
  BY <1>12 DEF CommitReplace, Insert
<1>13. ASSUME NEW r \in Requests, Revoke(r) PROVE TypeOK'
  BY <1>13 DEF Revoke
<1>14. ASSUME NEW r \in Requests, Abort(r) PROVE TypeOK'
  BY <1>14 DEF Abort
<1>15. ASSUME NEW u \in Users, BumpTokenVersion(u) PROVE TypeOK'
  BY <1>15 DEF BumpTokenVersion
<1>16. CASE Finished \/ UNCHANGED vars
  BY <1>16 DEF Finished, vars
<1>17. QED
  BY <1>1, <1>2, <1>3, <1>4, <1>5, <1>6, <1>7, <1>8, <1>9, <1>10, <1>11,
     <1>12, <1>13, <1>14, <1>15, <1>16 DEF Next, Progress

(* Rows keep the owner and the version of their family. *)
LEMMA RowsStep ==
    ASSUME TypeOK, RowsOK, RequestsOK, AlarmsOK, [Next]_vars
    PROVE  RowsOK'
<1> USE NullAssumption, MaxVersionAssumption DEF TypeOK, RowsOK,
      RequestsOK, AlarmsOK, Goto, Finish, rowVars, reqVars, Drawing,
      Holding, Live
<1>1. ASSUME NEW r \in Requests, NEW u \in Users, NEW j \in Jtis,
           StartLogin(r, u, j) PROVE RowsOK'
  BY <1>1 DEF StartLogin, IssueTokens
<1>2. ASSUME NEW r \in Requests, NEW t \in Jtis, NEW j \in Jtis,
           StartRefresh(r, t, j) PROVE RowsOK'
  BY <1>2 DEF StartRefresh, IssueTokens
<1>3. ASSUME NEW r \in Requests, NEW t \in Jtis,
           StartLogout(r, t) PROVE RowsOK'
  BY <1>3 DEF StartLogout
<1>4. ASSUME NEW r \in Requests,
             RejectToken(r) \/ LogoutNothing(r) PROVE RowsOK'
  BY <1>4 DEF RejectToken, LogoutNothing
<1>5. ASSUME NEW r \in Requests, CommitLogin(r) PROVE RowsOK'
  BY <1>5 DEF CommitLogin, Insert
<1>6. ASSUME NEW r \in Requests, FindLive(r) PROVE RowsOK'
  BY <1>6 DEF FindLive
<1>7. ASSUME NEW r \in Requests, FindRevoked(r) PROVE RowsOK'
  BY <1>7 DEF FindRevoked
<1>8. ASSUME NEW r \in Requests, FindReplaced(r) PROVE RowsOK'
  BY <1>8 DEF FindReplaced
<1>9. ASSUME NEW r \in Requests, RevokeAll(r) PROVE RowsOK'
  BY <1>9 DEF RevokeAll
<1>10. ASSUME NEW r \in Requests, ReplaceRow(r) PROVE RowsOK'
  BY <1>10 DEF ReplaceRow
<1>11. ASSUME NEW r \in Requests, LoseRace(r) PROVE RowsOK'
  BY <1>11 DEF LoseRace
<1>12. ASSUME NEW r \in Requests, CommitReplace(r) PROVE RowsOK'
  BY <1>12 DEF CommitReplace, Insert
<1>13. ASSUME NEW r \in Requests, Revoke(r) PROVE RowsOK'
  BY <1>13 DEF Revoke
<1>14. ASSUME NEW r \in Requests, Abort(r) PROVE RowsOK'
  BY <1>14 DEF Abort
<1>15. ASSUME NEW u \in Users, BumpTokenVersion(u) PROVE RowsOK'
  BY <1>15 DEF BumpTokenVersion
<1>16. CASE Finished \/ UNCHANGED vars
  BY <1>16 DEF Finished, vars
<1>17. QED
  BY <1>1, <1>2, <1>3, <1>4, <1>5, <1>6, <1>7, <1>8, <1>9, <1>10, <1>11,
     <1>12, <1>13, <1>14, <1>15, <1>16 DEF Next, Progress

(* Chains of successors stay chains. *)
LEMMA ChainsStep ==
    ASSUME TypeOK, RowsOK, RequestsOK, ChainsAreSound, [Next]_vars
    PROVE  ChainsAreSound'
<1> USE NullAssumption, MaxVersionAssumption DEF TypeOK, RowsOK,
      RequestsOK, ChainsAreSound, Goto, Finish, rowVars, reqVars, Drawing,
      Holding
<1>1. ASSUME NEW r \in Requests, NEW u \in Users, NEW j \in Jtis,
           StartLogin(r, u, j) PROVE ChainsAreSound'
  BY <1>1 DEF StartLogin, IssueTokens
<1>2. ASSUME NEW r \in Requests, NEW t \in Jtis, NEW j \in Jtis,
           StartRefresh(r, t, j) PROVE ChainsAreSound'
  BY <1>2 DEF StartRefresh, IssueTokens
<1>3. ASSUME NEW r \in Requests, NEW t \in Jtis,
           StartLogout(r, t) PROVE ChainsAreSound'
  BY <1>3 DEF StartLogout
<1>4. ASSUME NEW r \in Requests,
             RejectToken(r) \/ LogoutNothing(r) PROVE ChainsAreSound'
  BY <1>4 DEF RejectToken, LogoutNothing
<1>5. ASSUME NEW r \in Requests, CommitLogin(r) PROVE ChainsAreSound'
  BY <1>5 DEF CommitLogin, Insert
<1>6. ASSUME NEW r \in Requests, FindLive(r) PROVE ChainsAreSound'
  BY <1>6 DEF FindLive
<1>7. ASSUME NEW r \in Requests, FindRevoked(r) PROVE ChainsAreSound'
  BY <1>7 DEF FindRevoked
<1>8. ASSUME NEW r \in Requests, FindReplaced(r) PROVE ChainsAreSound'
  BY <1>8 DEF FindReplaced, Live
<1>9. ASSUME NEW r \in Requests, RevokeAll(r) PROVE ChainsAreSound'
  BY <1>9 DEF RevokeAll
<1>10. ASSUME NEW r \in Requests, ReplaceRow(r) PROVE ChainsAreSound'
  BY <1>10 DEF ReplaceRow
<1>11. ASSUME NEW r \in Requests, LoseRace(r) PROVE ChainsAreSound'
  BY <1>11 DEF LoseRace
<1>12. ASSUME NEW r \in Requests, CommitReplace(r) PROVE ChainsAreSound'
  BY <1>12 DEF CommitReplace, Insert
<1>13. ASSUME NEW r \in Requests, Revoke(r) PROVE ChainsAreSound'
  BY <1>13 DEF Revoke
<1>14. ASSUME NEW r \in Requests, Abort(r) PROVE ChainsAreSound'
  BY <1>14 DEF Abort
<1>15. ASSUME NEW u \in Users, BumpTokenVersion(u) PROVE ChainsAreSound'
  BY <1>15 DEF BumpTokenVersion
<1>16. CASE Finished \/ UNCHANGED vars
  BY <1>16 DEF Finished, vars
<1>17. QED
  BY <1>1, <1>2, <1>3, <1>4, <1>5, <1>6, <1>7, <1>8, <1>9, <1>10, <1>11,
     <1>12, <1>13, <1>14, <1>15, <1>16 DEF Next, Progress

(* A family keeps a single unreplaced session. *)
LEMMA TailStep ==
    ASSUME TypeOK, RowsOK, RequestsOK, ChainsAreSound, OneTailPerFamily,
           [Next]_vars
    PROVE  OneTailPerFamily'
<1> USE NullAssumption, MaxVersionAssumption DEF TypeOK, RowsOK,
      RequestsOK, ChainsAreSound, OneTailPerFamily, Goto, Finish, rowVars,
      reqVars, Drawing, Holding
<1>1. ASSUME NEW r \in Requests, NEW u \in Users, NEW j \in Jtis,
           StartLogin(r, u, j) PROVE OneTailPerFamily'
  BY <1>1 DEF StartLogin, IssueTokens
<1>2. ASSUME NEW r \in Requests, NEW t \in Jtis, NEW j \in Jtis,
           StartRefresh(r, t, j) PROVE OneTailPerFamily'
  BY <1>2 DEF StartRefresh, IssueTokens
<1>3. ASSUME NEW r \in Requests, NEW t \in Jtis,
           StartLogout(r, t) PROVE OneTailPerFamily'
  BY <1>3 DEF StartLogout
<1>4. ASSUME NEW r \in Requests,
             RejectToken(r) \/ LogoutNothing(r) PROVE OneTailPerFamily'
  BY <1>4 DEF RejectToken, LogoutNothing
<1>5. ASSUME NEW r \in Requests, CommitLogin(r) PROVE OneTailPerFamily'
  BY <1>5 DEF CommitLogin, Insert
<1>6. ASSUME NEW r \in Requests, FindLive(r) PROVE OneTailPerFamily'
  BY <1>6 DEF FindLive
<1>7. ASSUME NEW r \in Requests, FindRevoked(r) PROVE OneTailPerFamily'
  BY <1>7 DEF FindRevoked
<1>8. ASSUME NEW r \in Requests, FindReplaced(r) PROVE OneTailPerFamily'
  BY <1>8 DEF FindReplaced
<1>9. ASSUME NEW r \in Requests, RevokeAll(r) PROVE OneTailPerFamily'
  BY <1>9 DEF RevokeAll
<1>10. ASSUME NEW r \in Requests, ReplaceRow(r) PROVE OneTailPerFamily'
  BY <1>10 DEF ReplaceRow
<1>11. ASSUME NEW r \in Requests, LoseRace(r) PROVE OneTailPerFamily'
  BY <1>11 DEF LoseRace
<1>12. ASSUME NEW r \in Requests, CommitReplace(r) PROVE OneTailPerFamily'
  BY <1>12 DEF CommitReplace, Insert
<1>13. ASSUME NEW r \in Requests, Revoke(r) PROVE OneTailPerFamily'
  BY <1>13 DEF Revoke
<1>14. ASSUME NEW r \in Requests, Abort(r) PROVE OneTailPerFamily'
  BY <1>14 DEF Abort
<1>15. ASSUME NEW u \in Users, BumpTokenVersion(u) PROVE OneTailPerFamily'
  BY <1>15 DEF BumpTokenVersion
<1>16. CASE Finished \/ UNCHANGED vars
  BY <1>16 DEF Finished, vars
<1>17. QED
  BY <1>1, <1>2, <1>3, <1>4, <1>5, <1>6, <1>7, <1>8, <1>9, <1>10, <1>11,
     <1>12, <1>13, <1>14, <1>15, <1>16 DEF Next, Progress

(* What a suspended request remembers stays true while others run. *)
LEMMA RequestsStep ==
    ASSUME TypeOK, RowsOK, RequestsOK, JtisDiffer, LocksExclude,
           [Next]_vars
    PROVE  RequestsOK'
<1> USE NullAssumption, MaxVersionAssumption DEF TypeOK, RowsOK,
      RequestsOK, JtisDiffer, LocksExclude, Goto, Finish, rowVars,
      reqVars, Drawing, Holding, Fresh, Locked, Live
<1>1. ASSUME NEW r \in Requests, NEW u \in Users, NEW j \in Jtis,
           StartLogin(r, u, j) PROVE RequestsOK'
  BY <1>1 DEF StartLogin, IssueTokens
<1>2. ASSUME NEW r \in Requests, NEW t \in Jtis, NEW j \in Jtis,
           StartRefresh(r, t, j) PROVE RequestsOK'
  BY <1>2 DEF StartRefresh, IssueTokens
<1>3. ASSUME NEW r \in Requests, NEW t \in Jtis,
           StartLogout(r, t) PROVE RequestsOK'
  BY <1>3 DEF StartLogout
<1>4. ASSUME NEW r \in Requests,
             RejectToken(r) \/ LogoutNothing(r) PROVE RequestsOK'
  BY <1>4 DEF RejectToken, LogoutNothing
<1>5. ASSUME NEW r \in Requests, CommitLogin(r) PROVE RequestsOK'
  BY <1>5 DEF CommitLogin, Insert
<1>6. ASSUME NEW r \in Requests, FindLive(r) PROVE RequestsOK'
  BY <1>6 DEF FindLive
<1>7. ASSUME NEW r \in Requests, FindRevoked(r) PROVE RequestsOK'
  BY <1>7 DEF FindRevoked
<1>8. ASSUME NEW r \in Requests, FindReplaced(r) PROVE RequestsOK'
  BY <1>8 DEF FindReplaced
<1>9. ASSUME NEW r \in Requests, RevokeAll(r) PROVE RequestsOK'
  BY <1>9 DEF RevokeAll
<1>10. ASSUME NEW r \in Requests, ReplaceRow(r) PROVE RequestsOK'
  BY <1>10 DEF ReplaceRow
<1>11. ASSUME NEW r \in Requests, LoseRace(r) PROVE RequestsOK'
  BY <1>11 DEF LoseRace
<1>12. ASSUME NEW r \in Requests, CommitReplace(r) PROVE RequestsOK'
  BY <1>12 DEF CommitReplace, Insert
<1>13. ASSUME NEW r \in Requests, Revoke(r) PROVE RequestsOK'
  BY <1>13 DEF Revoke
<1>14. ASSUME NEW r \in Requests, Abort(r) PROVE RequestsOK'
  BY <1>14 DEF Abort
<1>15. ASSUME NEW u \in Users, BumpTokenVersion(u) PROVE RequestsOK'
  BY <1>15 DEF BumpTokenVersion
<1>16. CASE Finished \/ UNCHANGED vars
  BY <1>16 DEF Finished, vars
<1>17. QED
  BY <1>1, <1>2, <1>3, <1>4, <1>5, <1>6, <1>7, <1>8, <1>9, <1>10, <1>11,
     <1>12, <1>13, <1>14, <1>15, <1>16 DEF Next, Progress

(* No two requests draw the same identifier. *)
LEMMA JtisStep ==
    ASSUME TypeOK, RequestsOK, JtisDiffer, [Next]_vars
    PROVE  JtisDiffer'
<1> USE NullAssumption, MaxVersionAssumption DEF TypeOK, RequestsOK,
      JtisDiffer, Goto, Finish, rowVars, reqVars, Fresh
<1>1. ASSUME NEW r \in Requests, NEW u \in Users, NEW j \in Jtis,
           StartLogin(r, u, j) PROVE JtisDiffer'
  BY <1>1 DEF StartLogin, IssueTokens
<1>2. ASSUME NEW r \in Requests, NEW t \in Jtis, NEW j \in Jtis,
           StartRefresh(r, t, j) PROVE JtisDiffer'
  BY <1>2 DEF StartRefresh, IssueTokens
<1>3. ASSUME NEW r \in Requests, NEW t \in Jtis,
           StartLogout(r, t) PROVE JtisDiffer'
  BY <1>3 DEF StartLogout
<1>4. ASSUME NEW r \in Requests,
             RejectToken(r) \/ LogoutNothing(r) PROVE JtisDiffer'
  BY <1>4 DEF RejectToken, LogoutNothing
<1>5. ASSUME NEW r \in Requests, CommitLogin(r) PROVE JtisDiffer'
  BY <1>5 DEF CommitLogin
<1>6. ASSUME NEW r \in Requests, FindLive(r) PROVE JtisDiffer'
  BY <1>6 DEF FindLive
<1>7. ASSUME NEW r \in Requests, FindRevoked(r) PROVE JtisDiffer'
  BY <1>7 DEF FindRevoked
<1>8. ASSUME NEW r \in Requests, FindReplaced(r) PROVE JtisDiffer'
  BY <1>8 DEF FindReplaced
<1>9. ASSUME NEW r \in Requests, RevokeAll(r) PROVE JtisDiffer'
  BY <1>9 DEF RevokeAll
<1>10. ASSUME NEW r \in Requests, ReplaceRow(r) PROVE JtisDiffer'
  BY <1>10 DEF ReplaceRow
<1>11. ASSUME NEW r \in Requests, LoseRace(r) PROVE JtisDiffer'
  BY <1>11 DEF LoseRace
<1>12. ASSUME NEW r \in Requests, CommitReplace(r) PROVE JtisDiffer'
  BY <1>12 DEF CommitReplace
<1>13. ASSUME NEW r \in Requests, Revoke(r) PROVE JtisDiffer'
  BY <1>13 DEF Revoke
<1>14. ASSUME NEW r \in Requests, Abort(r) PROVE JtisDiffer'
  BY <1>14 DEF Abort
<1>15. ASSUME NEW u \in Users, BumpTokenVersion(u) PROVE JtisDiffer'
  BY <1>15 DEF BumpTokenVersion
<1>16. CASE Finished \/ UNCHANGED vars
  BY <1>16 DEF Finished, vars
<1>17. QED
  BY <1>1, <1>2, <1>3, <1>4, <1>5, <1>6, <1>7, <1>8, <1>9, <1>10, <1>11,
     <1>12, <1>13, <1>14, <1>15, <1>16 DEF Next, Progress

(* A row is never held twice. *)
LEMMA LocksStep ==
    ASSUME TypeOK, LocksExclude, [Next]_vars
    PROVE  LocksExclude'
<1> USE NullAssumption, MaxVersionAssumption DEF TypeOK, LocksExclude,
      Goto, Finish, rowVars, reqVars, Locked
<1>1. ASSUME NEW r \in Requests, NEW u \in Users, NEW j \in Jtis,
           StartLogin(r, u, j) PROVE LocksExclude'
  BY <1>1 DEF StartLogin, IssueTokens
<1>2. ASSUME NEW r \in Requests, NEW t \in Jtis, NEW j \in Jtis,
           StartRefresh(r, t, j) PROVE LocksExclude'
  BY <1>2 DEF StartRefresh, IssueTokens
<1>3. ASSUME NEW r \in Requests, NEW t \in Jtis,
           StartLogout(r, t) PROVE LocksExclude'
  BY <1>3 DEF StartLogout
<1>4. ASSUME NEW r \in Requests,
             RejectToken(r) \/ LogoutNothing(r) PROVE LocksExclude'
  BY <1>4 DEF RejectToken, LogoutNothing
<1>5. ASSUME NEW r \in Requests, CommitLogin(r) PROVE LocksExclude'
  BY <1>5 DEF CommitLogin
<1>6. ASSUME NEW r \in Requests, FindLive(r) PROVE LocksExclude'
  BY <1>6 DEF FindLive
<1>7. ASSUME NEW r \in Requests, FindRevoked(r) PROVE LocksExclude'
  BY <1>7 DEF FindRevoked
<1>8. ASSUME NEW r \in Requests, FindReplaced(r) PROVE LocksExclude'
  BY <1>8 DEF FindReplaced
<1>9. ASSUME NEW r \in Requests, RevokeAll(r) PROVE LocksExclude'
  BY <1>9 DEF RevokeAll
<1>10. ASSUME NEW r \in Requests, ReplaceRow(r) PROVE LocksExclude'
  BY <1>10 DEF ReplaceRow
<1>11. ASSUME NEW r \in Requests, LoseRace(r) PROVE LocksExclude'
  BY <1>11 DEF LoseRace
<1>12. ASSUME NEW r \in Requests, CommitReplace(r) PROVE LocksExclude'
  BY <1>12 DEF CommitReplace
<1>13. ASSUME NEW r \in Requests, Revoke(r) PROVE LocksExclude'
  BY <1>13 DEF Revoke
<1>14. ASSUME NEW r \in Requests, Abort(r) PROVE LocksExclude'
  BY <1>14 DEF Abort
<1>15. ASSUME NEW u \in Users, BumpTokenVersion(u) PROVE LocksExclude'
  BY <1>15 DEF BumpTokenVersion
<1>16. CASE Finished \/ UNCHANGED vars
  BY <1>16 DEF Finished, vars
<1>17. QED
  BY <1>1, <1>2, <1>3, <1>4, <1>5, <1>6, <1>7, <1>8, <1>9, <1>10, <1>11,
     <1>12, <1>13, <1>14, <1>15, <1>16 DEF Next, Progress

(* Successors and the answers "ok" stay matched. *)
LEMMA WinnersStep ==
    ASSUME TypeOK, RowsOK, RequestsOK, ChainsAreSound, WinnersOK,
           [Next]_vars
    PROVE  WinnersOK'
<1> USE NullAssumption, MaxVersionAssumption DEF TypeOK, RowsOK,
      RequestsOK, ChainsAreSound, WinnersOK, Goto, Finish, rowVars,
      reqVars, Drawing, Holding
<1>1. ASSUME NEW r \in Requests, NEW u \in Users, NEW j \in Jtis,
           StartLogin(r, u, j) PROVE WinnersOK'
  BY <1>1 DEF StartLogin, IssueTokens
<1>2. ASSUME NEW r \in Requests, NEW t \in Jtis, NEW j \in Jtis,
           StartRefresh(r, t, j) PROVE WinnersOK'
  BY <1>2 DEF StartRefresh, IssueTokens
<1>3. ASSUME NEW r \in Requests, NEW t \in Jtis,
           StartLogout(r, t) PROVE WinnersOK'
  BY <1>3 DEF StartLogout
<1>4. ASSUME NEW r \in Requests,
             RejectToken(r) \/ LogoutNothing(r) PROVE WinnersOK'
  BY <1>4 DEF RejectToken, LogoutNothing
<1>5. ASSUME NEW r \in Requests, CommitLogin(r) PROVE WinnersOK'
  BY <1>5 DEF CommitLogin
<1>6. ASSUME NEW r \in Requests, FindLive(r) PROVE WinnersOK'
  BY <1>6 DEF FindLive
<1>7. ASSUME NEW r \in Requests, FindRevoked(r) PROVE WinnersOK'
  BY <1>7 DEF FindRevoked
<1>8. ASSUME NEW r \in Requests, FindReplaced(r) PROVE WinnersOK'
  BY <1>8 DEF FindReplaced
<1>9. ASSUME NEW r \in Requests, RevokeAll(r) PROVE WinnersOK'
  BY <1>9 DEF RevokeAll
<1>10. ASSUME NEW r \in Requests, ReplaceRow(r) PROVE WinnersOK'
  BY <1>10 DEF ReplaceRow
<1>11. ASSUME NEW r \in Requests, LoseRace(r) PROVE WinnersOK'
  BY <1>11 DEF LoseRace
<1>12. ASSUME NEW r \in Requests, CommitReplace(r) PROVE WinnersOK'
  BY <1>12 DEF CommitReplace
<1>13. ASSUME NEW r \in Requests, Revoke(r) PROVE WinnersOK'
  BY <1>13 DEF Revoke
<1>14. ASSUME NEW r \in Requests, Abort(r) PROVE WinnersOK'
  BY <1>14 DEF Abort
<1>15. ASSUME NEW u \in Users, BumpTokenVersion(u) PROVE WinnersOK'
  BY <1>15 DEF BumpTokenVersion
<1>16. CASE Finished \/ UNCHANGED vars
  BY <1>16 DEF Finished, vars
<1>17. QED
  BY <1>1, <1>2, <1>3, <1>4, <1>5, <1>6, <1>7, <1>8, <1>9, <1>10, <1>11,
     <1>12, <1>13, <1>14, <1>15, <1>16 DEF Next, Progress

(* What an alarm missed is a successor of something it saw. *)
LEMMA AlarmsStep ==
    ASSUME TypeOK, RowsOK, RequestsOK, ChainsAreSound, OneTailPerFamily,
           AlarmsOK, [Next]_vars
    PROVE  AlarmsOK'
<1> USE NullAssumption, MaxVersionAssumption DEF TypeOK, RowsOK,
      RequestsOK, ChainsAreSound, AlarmsOK, Goto, Finish, rowVars,
      reqVars, Drawing, Holding, Live
<1>1. ASSUME NEW r \in Requests, NEW u \in Users, NEW j \in Jtis,
           StartLogin(r, u, j) PROVE AlarmsOK'
  BY <1>1 DEF StartLogin, IssueTokens
<1>2. ASSUME NEW r \in Requests, NEW t \in Jtis, NEW j \in Jtis,
           StartRefresh(r, t, j) PROVE AlarmsOK'
  BY <1>2 DEF StartRefresh, IssueTokens
<1>3. ASSUME NEW r \in Requests, NEW t \in Jtis,
           StartLogout(r, t) PROVE AlarmsOK'
  BY <1>3 DEF StartLogout
<1>4. ASSUME NEW r \in Requests,
             RejectToken(r) \/ LogoutNothing(r) PROVE AlarmsOK'
  BY <1>4 DEF RejectToken, LogoutNothing
<1>5. ASSUME NEW r \in Requests, CommitLogin(r) PROVE AlarmsOK'
  BY <1>5 DEF CommitLogin, Insert
<1>6. ASSUME NEW r \in Requests, FindLive(r) PROVE AlarmsOK'
  BY <1>6 DEF FindLive
<1>7. ASSUME NEW r \in Requests, FindRevoked(r) PROVE AlarmsOK'
  BY <1>7 DEF FindRevoked
<1>8. ASSUME NEW r \in Requests, FindReplaced(r) PROVE AlarmsOK'
  BY <1>8 DEF FindReplaced
<1>9. ASSUME NEW r \in Requests, RevokeAll(r) PROVE AlarmsOK'
  BY <1>9 DEF RevokeAll
<1>10. ASSUME NEW r \in Requests, ReplaceRow(r) PROVE AlarmsOK'
  BY <1>10 DEF ReplaceRow
<1>11. ASSUME NEW r \in Requests, LoseRace(r) PROVE AlarmsOK'
  BY <1>11 DEF LoseRace
<1>12. ASSUME NEW r \in Requests, CommitReplace(r) PROVE AlarmsOK'
  BY <1>12 DEF CommitReplace, Insert
<1>13. ASSUME NEW r \in Requests, Revoke(r) PROVE AlarmsOK'
  BY <1>13 DEF Revoke
<1>14. ASSUME NEW r \in Requests, Abort(r) PROVE AlarmsOK'
  BY <1>14 DEF Abort
<1>15. ASSUME NEW u \in Users, BumpTokenVersion(u) PROVE AlarmsOK'
  BY <1>15 DEF BumpTokenVersion
<1>16. CASE Finished \/ UNCHANGED vars
  BY <1>16 DEF Finished, vars
<1>17. QED
  BY <1>1, <1>2, <1>3, <1>4, <1>5, <1>6, <1>7, <1>8, <1>9, <1>10, <1>11,
     <1>12, <1>13, <1>14, <1>15, <1>16 DEF Next, Progress
(* The initial state satisfies the inductive invariant. *)
LEMMA InvariantInit == Init => IInv
BY NullAssumption, MaxVersionAssumption
   DEF Init, IInv, TypeOK, RowsOK, ChainsAreSound, OneTailPerFamily, RequestsOK,
       JtisDiffer, LocksExclude, WinnersOK, AlarmsOK, PcStates, Outcomes,
       Drawing, Holding, Live

(* Every step preserves it. *)
LEMMA InvariantStep == IInv /\ [Next]_vars => IInv'
<1> SUFFICES ASSUME IInv, [Next]_vars PROVE IInv'
  OBVIOUS
<1>1. /\ TypeOK /\ RowsOK /\ ChainsAreSound /\ OneTailPerFamily
      /\ RequestsOK /\ JtisDiffer /\ LocksExclude /\ WinnersOK /\ AlarmsOK
  BY DEF IInv
<1>2. TypeOK' /\ RowsOK' /\ ChainsAreSound' /\ OneTailPerFamily'
  BY <1>1, TypeStep, RowsStep, ChainsStep, TailStep
<1>3. RequestsOK' /\ JtisDiffer' /\ LocksExclude' /\ WinnersOK' /\ AlarmsOK'
  BY <1>1, RequestsStep, JtisStep, LocksStep, WinnersStep, AlarmsStep
<1>4. QED
  BY <1>2, <1>3 DEF IInv

(* IInv holds in every reachable state. *)
THEOREM Invariance == Spec => []IInv
<1>1. QED
  BY InvariantInit, InvariantStep, PTL DEF Spec

(* Every variable keeps its type (the shape of the rows and the requests). *)
THEOREM TypeCorrect == Spec => []TypeOK
<1>1. IInv => TypeOK
  BY DEF IInv
<1>2. QED
  BY <1>1, Invariance, PTL

(* Concurrent refreshes of the tokens of one login never leave two live    *)
(* sessions: a live session has no successor, and a family has one such.   *)
THEOREM SingleLiveSession == Spec => []AtMostOneLivePerFamily
<1>1. IInv => AtMostOneLivePerFamily
  <2> SUFFICES ASSUME IInv, NEW i \in stored, NEW j \in stored,
                      Live(i), Live(j), family[i] = family[j]
               PROVE  i = j
    BY DEF AtMostOneLivePerFamily
  <2>1. replacedById[i] = NULL /\ replacedById[j] = NULL
    BY DEF IInv, TypeOK, ChainsAreSound, Live
  <2>2. QED
    BY <2>1 DEF IInv, OneTailPerFamily
<1>2. QED
  BY <1>1, Invariance, PTL

(* One refresh token is traded at most once, whatever the interleaving.    *)
THEOREM SingleWinner == Spec => []OneWinnerPerToken
<1>1. IInv => OneWinnerPerToken
  BY DEF IInv, OneWinnerPerToken, WinnersOK, JtisDiffer
<1>2. QED
  BY <1>1, Invariance, PTL

(* The rotation history stays a set of chains inside families. *)
THEOREM SoundChains == Spec => []ChainsAreSound
<1>1. IInv => ChainsAreSound
  BY DEF IInv
<1>2. QED
  BY <1>1, Invariance, PTL

(* A session survives the theft alarm of its family only as the successor  *)
(* of a session the alarm saw.                                             *)
THEOREM AlarmReach == Spec => []AlarmKillsFamilyUnlessRaced
<1>1. IInv => AlarmKillsFamilyUnlessRaced
  <2> SUFFICES ASSUME IInv, NEW r \in Requests, outcome[r] = "reuse",
                      NEW j \in stored, Live(j), family[j] = family[token[r]]
               PROVE  \E t \in targets[r] :
                         family[t] = family[token[r]] /\ replacedById[t] # NULL
    BY DEF AlarmKillsFamilyUnlessRaced
  <2>1. j \notin targets[r]
    BY DEF IInv, AlarmsOK, Live
  <2>2. QED
    BY <2>1 DEF IInv, AlarmsOK
<1>2. QED
  BY <1>1, Invariance, PTL

(* The alarm is never raised about a token that nobody traded. *)
THEOREM NoFalseAlarm == Spec => []AlarmNeedsASecondUse
<1>1. IInv => AlarmNeedsASecondUse
  <2> SUFFICES ASSUME IInv, NEW r \in Requests, outcome[r] = "reuse"
               PROVE  \E s \in Requests \ {r} :
                         outcome[s] = "ok" /\ token[s] = token[r]
    BY DEF AlarmNeedsASecondUse
  <2>1. token[r] \in Jtis /\ replacedById[token[r]] # NULL
    BY DEF IInv, TypeOK, AlarmsOK
  <2>2. PICK s \in Requests : outcome[s] = "ok" /\ token[s] = token[r]
    BY <2>1 DEF IInv, WinnersOK
  <2>3. s # r
    BY <2>2
  <2>4. QED
    BY <2>2, <2>3
<1>2. QED
  BY <1>1, Invariance, PTL

(* Requests never wait for each other in a circle: whoever waits, waits    *)
(* for a row that a replace() has updated, and that transaction only has   *)
(* its COMMIT left, which waits for nobody.                                *)
THEOREM NobodyWaitsInACircle == Spec => []SomeoneIsReady
<1>1. IInv => SomeoneIsReady
  <2> SUFFICES ASSUME IInv, NEW r \in InFlight
               PROVE  \E s \in InFlight : Ready(s)
    BY DEF SomeoneIsReady
  <2>1. CASE Ready(r)
    BY <2>1
  <2>2. CASE ~Ready(r)
    <3>1. pc[r] = "checked" => token[r] \in stored
      BY DEF IInv, RequestsOK, Holding, InFlight
    <3>2. PICK j : Locked(j)
      BY <2>2, <3>1 DEF Ready
    <3>3. PICK s \in Requests : pc[s] = "commit"
      BY <3>2 DEF Locked
    <3>4. s \in InFlight /\ Ready(s)
      BY <3>3 DEF InFlight, Ready
    <3>5. QED
      BY <3>4
  <2>3. QED
    BY <2>1, <2>2
<1>2. QED
  BY <1>1, Invariance, PTL

(* What a row says about its past is never rewritten. *)
THEOREM FinalRevocation == Spec => RevocationIsFinal
<1> DEFINE Final ==
      /\ stored \subseteq stored' /\ revoked \subseteq revoked'
      /\ \A j \in Jtis : (replacedById[j] # NULL \/ j \in revoked)
            => replacedById'[j] = replacedById[j]
<1>1. ASSUME IInv, [Next]_vars PROVE [Final]_vars
  <2> USE <1>1 DEF IInv, TypeOK, ChainsAreSound, RequestsOK, rowVars, Goto, Finish
  <2>1. ASSUME NEW r \in Requests, CommitLogin(r) PROVE Final
    BY <2>1 DEF CommitLogin, Insert
  <2>2. ASSUME NEW r \in Requests, CommitReplace(r) PROVE Final
    BY <2>2 DEF CommitReplace, Insert
  <2>3. ASSUME NEW r \in Requests, RevokeAll(r) \/ Revoke(r) PROVE Final
    BY <2>3 DEF RevokeAll, Revoke
  <2>4. ASSUME UNCHANGED rowVars PROVE Final
    BY <2>4
  <2>5. QED
    BY <2>1, <2>2, <2>3, <2>4
       DEF Next, Progress, IssueTokens, StartLogin, StartRefresh, StartLogout,
           RejectToken, LogoutNothing, FindLive, FindRevoked, FindReplaced,
           ReplaceRow, LoseRace, Abort, BumpTokenVersion, Finished, vars, reqVars
<1>2. QED
  BY <1>1, Invariance, PTL DEF Spec, RevocationIsFinal

(* At most one session of a family is usable. *)
LEMMA UsableUnique ==
    ASSUME IInv, NEW f, NEW i \in UsableIn(f), NEW j \in UsableIn(f)
    PROVE  i = j
<1>1. replacedById[i] = NULL /\ replacedById[j] = NULL
  BY DEF IInv, TypeOK, ChainsAreSound, UsableIn, Usable, Live
<1>2. QED
  BY <1>1 DEF IInv, OneTailPerFamily, UsableIn, Usable

(* The refinement mapping picks that session. *)
LEMMA HeadIsUsable ==
    ASSUME IInv, NEW f \in Jtis, NEW j \in UsableIn(f)
    PROVE  headBar[f] = j
<1>1. j \in Jtis
  BY DEF IInv, TypeOK, UsableIn
<1>2. (CHOOSE i \in Jtis : i \in UsableIn(f)) \in UsableIn(f)
  BY <1>1
<1>3. QED
  BY <1>2, UsableUnique DEF headBar

(* A committed login adds a family that is usable or was born cut off. *)
LEMMA UsableAfterLogin ==
    ASSUME IInv, NEW r \in Requests, CommitLogin(r), NEW k, k = newJti[r]
    PROVE  /\ k \in Jtis \ stored
           /\ stored' = stored \cup {k}
           /\ UsableIn(k) = {}
           /\ UsableIn(k)' = {k} \/ UsableIn(k)' = {}
           /\ \A f \in Jtis \ {k} : UsableIn(f)' = UsableIn(f)
<1> USE DEF IInv, TypeOK, RowsOK, RequestsOK, Drawing, CommitLogin, Insert,
            Finish, UsableIn, Usable, Live
<1>1. k \in Jtis \ stored /\ k \notin revoked /\ user[r] \in Users
  OBVIOUS
<1>2. UsableIn(k) = {}
  BY <1>1
<1>3. UsableIn(k)' = {k} \/ UsableIn(k)' = {}
  BY <1>1
<1>4. ASSUME NEW f \in Jtis \ {k} PROVE UsableIn(f)' = UsableIn(f)
  BY <1>1, <1>4
<1>5. QED
  BY <1>1, <1>2, <1>3, <1>4

(* A committed rotation trades the usable session t of its family g for k, *)
(* or adds k to a family that has been cut off.                            *)
LEMMA UsableAfterReplace ==
    ASSUME IInv, NEW r \in Requests, CommitReplace(r),
           NEW t, t = token[r], NEW k, k = newJti[r], NEW g, g = family[t]
    PROVE  /\ k \in Jtis \ stored
           /\ stored' = stored \cup {k}
           /\ t \in stored /\ g \in stored
           /\ \A f \in Jtis \ {g} : UsableIn(f)' = UsableIn(f)
           /\ \/ UsableIn(g) = {t} /\ UsableIn(g)' = {k}
              \/ UsableIn(g)' = UsableIn(g)
<1> USE DEF IInv, TypeOK, RowsOK, RequestsOK, Drawing, Holding, CommitReplace,
            Insert, Finish
<1>1. /\ k \in Jtis \ stored /\ t \in stored \ revoked /\ k # t
      /\ user[r] = userId[t] /\ version[r] = minted[t] /\ user[r] \in Users
      /\ g \in stored /\ stored' = stored \cup {k}
  OBVIOUS
<1>2. ASSUME NEW f \in Jtis \ {g} PROVE UsableIn(f)' = UsableIn(f)
  BY <1>1, <1>2 DEF UsableIn, Usable, Live
<1>3. CASE minted[t] = tokenVersion[userId[t]]
  <2>1. t \in UsableIn(g)
    BY <1>1, <1>3 DEF UsableIn, Usable, Live
  <2>2. UsableIn(g) = {t}
    BY <2>1, UsableUnique
  <2>3. k \in UsableIn(g)'
    BY <1>1, <1>3 DEF UsableIn, Usable, Live
  <2>4. ASSUME NEW j \in UsableIn(g)' PROVE j = k
    BY <1>1, <2>2, <2>4 DEF UsableIn, Usable, Live
  <2>5. QED
    BY <1>1, <1>2, <2>2, <2>3, <2>4
<1>4. CASE minted[t] # tokenVersion[userId[t]]
  <2>1. UsableIn(g)' = UsableIn(g)
    BY <1>1, <1>4 DEF UsableIn, Usable, Live
  <2>2. QED
    BY <1>1, <1>2, <2>1
<1>5. QED
  BY <1>3, <1>4

(* A revocation or the deletion of an account only takes usable sessions   *)
(* away.                                                                   *)
LEMMA UsableAfterClose ==
    ASSUME IInv,
           \/ \E r \in Requests : RevokeAll(r) \/ Revoke(r)
           \/ \E u \in Users : BumpTokenVersion(u),
           NEW f
    PROVE  UsableIn(f)' \subseteq UsableIn(f) /\ UNCHANGED stored
<1>1. CASE \E r \in Requests : RevokeAll(r) \/ Revoke(r)
  BY <1>1 DEF RevokeAll, Revoke, UsableIn, Usable, Live
<1>2. CASE \E u \in Users : BumpTokenVersion(u)
  <2>1. PICK u \in Users : BumpTokenVersion(u)
    BY <1>2
  <2>2. ASSUME NEW j \in stored, minted[j] = tokenVersion'[userId[j]]
        PROVE  minted[j] = tokenVersion[userId[j]]
    BY <2>1, <2>2 DEF IInv, TypeOK, RowsOK, BumpTokenVersion
  <2>3. QED
    BY <2>1, <2>2 DEF BumpTokenVersion, rowVars, UsableIn, Usable, Live
<1>3. QED
  BY <1>1, <1>2

(* Every other step leaves the rows and the versions alone. *)
LEMMA OtherSteps ==
    ASSUME [Next]_vars,
           ~ \E r \in Requests : \/ CommitLogin(r) \/ CommitReplace(r)
                                 \/ RevokeAll(r) \/ Revoke(r),
           ~ \E u \in Users : BumpTokenVersion(u)
    PROVE  UNCHANGED <<rowVars, tokenVersion>>
BY DEF Next, Progress, IssueTokens, StartLogin, StartRefresh, StartLogout, RejectToken,
       LogoutNothing, FindLive, FindRevoked, FindReplaced, ReplaceRow, LoseRace,
       Abort, Finished, vars

(* A family with no usable session left never gets one again: a refresh    *)
(* or a login that was in flight cannot bring it back.  The version of an  *)
(* account only grows here; a stale save of the users row could lower it.  *)
THEOREM DeadFamilies == Spec => DeadFamilyStaysDead
<1> DEFINE Stays == \A f \in stored : UsableIn(f) = {} => UsableIn(f)' = {}
<1>1. ASSUME IInv, [Next]_vars PROVE Stays
  <2> SUFFICES ASSUME NEW f \in stored, UsableIn(f) = {} PROVE UsableIn(f)' = {}
    OBVIOUS
  <2>0. f \in Jtis
    BY <1>1 DEF IInv, TypeOK
  <2>1. ASSUME NEW r \in Requests, CommitLogin(r) PROVE UsableIn(f)' = {}
    <3>1. PICK k : k = newJti[r]
      OBVIOUS
    <3>2. k # f /\ UsableIn(f)' = UsableIn(f)
      BY <1>1, <2>0, <2>1, <3>1, UsableAfterLogin
    <3>3. QED
      BY <3>2
  <2>2. ASSUME NEW r \in Requests, CommitReplace(r) PROVE UsableIn(f)' = {}
    <3>1. PICK t, k, g : t = token[r] /\ k = newJti[r] /\ g = family[t]
      OBVIOUS
    <3>2. CASE f = g
      BY <1>1, <2>2, <3>1, <3>2, UsableAfterReplace
    <3>3. CASE f # g
      <4>1. UsableIn(f)' = UsableIn(f)
        BY <1>1, <2>0, <2>2, <3>1, <3>3, UsableAfterReplace
      <4>2. QED
        BY <4>1
    <3>4. QED
      BY <3>2, <3>3
  <2>3. CASE \/ \E r \in Requests : RevokeAll(r) \/ Revoke(r)
             \/ \E u \in Users : BumpTokenVersion(u)
    BY <1>1, <2>3, UsableAfterClose
  <2>4. CASE UNCHANGED <<rowVars, tokenVersion>>
    BY <2>4 DEF rowVars, UsableIn, Usable, Live
  <2>5. QED
    BY <1>1, <2>1, <2>2, <2>3, <2>4, OtherSteps
<1>2. QED
  BY <1>1, Invariance, PTL DEF Spec, DeadFamilyStaysDead

(* Rows, locks and concurrent requests implement rotating tokens. *)
THEOREM Refinement == Spec => ImplementsRotatingTokens
<1> USE DEF Abstract!vars
<1>1. Init => Abstract!Init
  BY DEF Init, Abstract!Init, headBar, UsableIn
<1>2. ASSUME IInv, IInv', [Next]_vars PROVE [Abstract!Next]_(Abstract!vars)
  <2>0. /\ stored \subseteq Jtis
        /\ DOMAIN headBar = Jtis /\ DOMAIN headBar' = Jtis
        /\ headBar = [f \in Jtis |-> headBar[f]]
        /\ headBar' = [f \in Jtis |-> headBar'[f]]
    BY <1>2 DEF IInv, TypeOK, headBar
  <2>1. ASSUME NEW f \in Jtis, NEW j PROVE
          /\ j \in UsableIn(f) => headBar[f] = j
          /\ j \in UsableIn(f)' => headBar'[f] = j
    <3>1. j \in UsableIn(f) => headBar[f] = j
      BY <1>2, HeadIsUsable
    <3>2. (j \in UsableIn(f) => headBar[f] = j)'
      BY <1>2, HeadIsUsable, PTL
    <3>3. QED
      BY <3>1, <3>2
  <2>2. ASSUME NEW f \in Jtis PROVE
          /\ UsableIn(f) = {} => headBar[f] = NULL
          /\ UsableIn(f)' = {} => headBar'[f] = NULL
          /\ UsableIn(f)' = UsableIn(f) => headBar'[f] = headBar[f]
    <3>1. UsableIn(f) = {} => headBar[f] = NULL
      BY DEF headBar
    <3>2. UsableIn(f)' = {} => headBar'[f] = NULL
      BY DEF headBar
    <3>3. ASSUME NEW j \in UsableIn(f), UsableIn(f)' = UsableIn(f)
          PROVE  headBar'[f] = headBar[f]
      <4>1. j \in UsableIn(f)'
        BY <3>3
      <4>2. QED
        BY <2>1, <4>1
    <3>4. QED
      BY <3>1, <3>2, <3>3
  <2>3. ASSUME NEW r \in Requests, CommitLogin(r) PROVE Abstract!Next
    <3>1. PICK k : k = newJti[r]
      OBVIOUS
    <3>2. k \in Jtis \ stored /\ stored' = stored \cup {k}
      BY <1>2, <2>3, <3>1, UsableAfterLogin
    <3>3. ASSUME NEW f \in Jtis \ {k} PROVE headBar'[f] = headBar[f]
      <4>1. UsableIn(f)' = UsableIn(f)
        BY <1>2, <2>3, <3>1, UsableAfterLogin
      <4>2. QED
        BY <2>2, <4>1
    <3>4. CASE UsableIn(k)' = {k}
      <4>1. headBar'[k] = k
        BY <2>1, <3>2, <3>4
      <4>2. Abstract!Open(k)
        BY <2>0, <3>2, <3>3, <4>1 DEF Abstract!Open
      <4>3. QED
        BY <3>2, <4>2 DEF Abstract!Next
    <3>5. CASE UsableIn(k)' = {}
      <4>1. headBar'[k] = headBar[k]
        BY <1>2, <2>2, <2>3, <3>1, <3>2, <3>5, UsableAfterLogin
      <4>2. Abstract!Waste(k)
        BY <2>0, <3>2, <3>3, <4>1 DEF Abstract!Waste
      <4>3. QED
        BY <3>2, <4>2 DEF Abstract!Next
    <3>6. QED
      BY <1>2, <2>3, <3>1, <3>4, <3>5, UsableAfterLogin
  <2>4. ASSUME NEW r \in Requests, CommitReplace(r) PROVE Abstract!Next
    <3>1. PICK t, k, g : t = token[r] /\ k = newJti[r] /\ g = family[t]
      OBVIOUS
    <3>2. /\ k \in Jtis \ stored /\ stored' = stored \cup {k}
          /\ t \in Jtis /\ t # NULL /\ g \in Jtis
      BY <1>2, <2>0, <2>4, <3>1, UsableAfterReplace, NullAssumption
    <3>3. ASSUME NEW f \in Jtis \ {g} PROVE headBar'[f] = headBar[f]
      <4>1. UsableIn(f)' = UsableIn(f)
        BY <1>2, <2>4, <3>1, UsableAfterReplace
      <4>2. QED
        BY <2>2, <4>1
    <3>4. CASE UsableIn(g) = {t} /\ UsableIn(g)' = {k}
      <4>1. headBar[g] = t /\ headBar'[g] = k
        BY <2>1, <3>2, <3>4
      <4>2. Abstract!Rotate(g, k)
        BY <2>0, <3>2, <3>3, <4>1 DEF Abstract!Rotate
      <4>3. QED
        BY <3>2, <4>2 DEF Abstract!Next
    <3>5. CASE UsableIn(g)' = UsableIn(g)
      <4>1. headBar'[g] = headBar[g]
        BY <2>2, <3>2, <3>5
      <4>2. Abstract!Waste(k)
        BY <2>0, <3>2, <3>3, <4>1 DEF Abstract!Waste
      <4>3. QED
        BY <3>2, <4>2 DEF Abstract!Next
    <3>6. QED
      BY <1>2, <2>4, <3>1, <3>4, <3>5, UsableAfterReplace
  <2>5. CASE \/ \E r \in Requests : RevokeAll(r) \/ Revoke(r)
             \/ \E u \in Users : BumpTokenVersion(u)
    <3> DEFINE F == {f \in Jtis : UsableIn(f)' = {}}
    <3>1. ASSUME NEW f \in Jtis
          PROVE  headBar'[f] = IF f \in F THEN NULL ELSE headBar[f]
      <4>1. CASE UsableIn(f)' = {}
        BY <2>2, <4>1
      <4>2. CASE UsableIn(f)' # {}
        <5>1. PICK j : j \in UsableIn(f)'
          BY <4>2
        <5>2. j \in UsableIn(f)
          BY <1>2, <2>5, <5>1, UsableAfterClose
        <5>3. headBar'[f] = j /\ headBar[f] = j
          BY <2>1, <5>1, <5>2
        <5>4. QED
          BY <4>2, <5>3
      <4>3. QED
        BY <4>1, <4>2
    <3>2. UNCHANGED stored
      BY <1>2, <2>5, UsableAfterClose
    <3>3. Abstract!Close(F)
      BY <2>0, <3>1, <3>2 DEF Abstract!Close
    <3>4. F \in SUBSET Jtis
      OBVIOUS
    <3>5. QED
      BY <3>3, <3>4 DEF Abstract!Next
  <2>6. CASE UNCHANGED <<rowVars, tokenVersion>>
    <3>1. UNCHANGED <<headBar, stored>>
      BY <2>6 DEF rowVars, headBar, UsableIn, Usable, Live
    <3>2. QED
      BY <3>1
  <2>7. QED
    BY <1>2, <2>3, <2>4, <2>5, <2>6, OtherSteps
<1>3. QED
  BY <1>1, <1>2, InvariantInit, InvariantStep, PTL
     DEF Spec, ImplementsRotatingTokens, Abstract!Spec

(* What rotating tokens promise therefore holds of the rows: a usable      *)
(* session belongs to one login, and neither a session that was traded or  *)
(* revoked nor a login without a session ever becomes usable again.        *)
THEOREM RotationKeepsItsPromise ==
    Spec => []Abstract!HeadsOK /\ Abstract!NothingReturns
<1> USE DEF Abstract!vars, Abstract!HeadsOK
<1> DEFINE Gone ==
      /\ \A j \in stored : (\E f \in Jtis : headBar'[f] = j) => \E f \in Jtis : headBar[f] = j
      /\ \A f \in stored : headBar[f] = NULL => headBar'[f] = NULL
<1>1. Abstract!Init => Abstract!HeadsOK
  BY DEF Abstract!Init
<1>2. ASSUME Abstract!HeadsOK, [Abstract!Next]_(Abstract!vars)
      PROVE  Abstract!HeadsOK' /\ Gone
  <2> USE NullAssumption
  <2>1. ASSUME NEW j \in Jtis, Abstract!Open(j) \/ Abstract!Waste(j)
        PROVE  Abstract!HeadsOK' /\ Gone
    BY <1>2, <2>1 DEF Abstract!Open, Abstract!Waste
  <2>2. ASSUME NEW f \in Jtis, NEW k \in Jtis, Abstract!Rotate(f, k)
        PROVE  Abstract!HeadsOK' /\ Gone
    BY <1>2, <2>2 DEF Abstract!Rotate
  <2>3. ASSUME NEW F \in SUBSET Jtis, Abstract!Close(F)
        PROVE  Abstract!HeadsOK' /\ Gone
    BY <1>2, <2>3 DEF Abstract!Close
  <2>4. CASE UNCHANGED <<headBar, stored>>
    BY <1>2, <2>4
  <2>5. QED
    BY <1>2, <2>1, <2>2, <2>3, <2>4 DEF Abstract!Next
<1>3. QED
  BY <1>1, <1>2, Refinement, PTL
     DEF ImplementsRotatingTokens, Abstract!Spec, Abstract!NothingReturns
=============================================================================
