--------------------------- MODULE RefreshSessions --------------------------
(***************************************************************************)
(* Refresh sessions: AuthService.startSession / refresh / logout and       *)
(* RefreshSessionService over the table refresh_sessions.                  *)
(*                                                                         *)
(* Every request is one HTTP call; the calls interleave at every await.    *)
(* PostgreSQL runs READ COMMITTED: a statement sees what was committed     *)
(* when it started, an UPDATE waits for a row that another transaction     *)
(* has updated and then evaluates its WHERE clause again on the newest     *)
(* version of that row.  Only `replace' opens a transaction of two         *)
(* statements, so only its updated row is ever held across a step.         *)
(***************************************************************************)
EXTENDS Integers

CONSTANTS
    Requests,      \* HTTP calls, each made once
    Jtis,          \* session identifiers randomUUID() may return
    Users,         \* accounts
    MaxVersion,    \* bound on tokenVersion increments, per user
    NULL

ASSUME NullAssumption == NULL \notin Jtis /\ NULL \notin Users
ASSUME MaxVersionAssumption == MaxVersion \in Nat

VARIABLES
    \* committed rows of refresh_sessions
    stored,        \* ids of the rows
    revoked,       \* ids whose revokedAt is set
    replacedById,  \* successor written by replace(), or NULL
    userId,        \* owner of the row, or NULL when there is no row
    minted,        \* tokenVersion inside the signed token of the session
    family,        \* history: the session of the login the token stems from
    \* committed users.tokenVersion
    tokenVersion,
    \* requests
    pc,            \* where the handler is suspended
    token,         \* jti of the refresh token it presented
    newJti,        \* jti it drew
    user,          \* account it acts for
    version,       \* tokenVersion it read
    targets,       \* rows the mass revocation saw as live
    outcome        \* what the client was told

rowVars == <<stored, revoked, replacedById, userId, minted, family>>
reqVars == <<pc, token, newJti, user, version, targets, outcome>>
vars    == <<rowVars, tokenVersion, reqVars>>

PcStates == {"idle", "login", "checked", "found", "commit", "revoking",
             "logout", "done"}
Outcomes == {"none", "ok", "denied", "reuse", "loggedOut", "failed"}

Live(j) == j \in stored \ revoked

(* The row another request updated in a transaction it has not committed. *)
Locked(j) == \E r \in Requests : pc[r] = "commit" /\ token[r] = j

(* randomUUID() does not repeat. *)
Fresh(j) == j \notin stored /\ \A r \in Requests : newJti[r] # j

Finish(r, o) == /\ pc' = [pc EXCEPT ![r] = "done"]
                /\ outcome' = [outcome EXCEPT ![r] = o]

Goto(r, l) == /\ pc' = [pc EXCEPT ![r] = l]
              /\ UNCHANGED outcome

Init ==
    /\ stored = {} /\ revoked = {}
    /\ replacedById = [j \in Jtis |-> NULL]
    /\ userId = [j \in Jtis |-> NULL]
    /\ minted = [j \in Jtis |-> 0]
    /\ family = [j \in Jtis |-> NULL]
    /\ tokenVersion = [u \in Users |-> 0]
    /\ pc = [r \in Requests |-> "idle"]
    /\ token = [r \in Requests |-> NULL]
    /\ newJti = [r \in Requests |-> NULL]
    /\ user = [r \in Requests |-> NULL]
    /\ version = [r \in Requests |-> 0]
    /\ targets = [r \in Requests |-> {}]
    /\ outcome = [r \in Requests |-> "none"]

-----------------------------------------------------------------------------
(* create(): one row for a new session; rows are never deleted. *)
Insert(j, u, v, f) ==
    /\ stored' = stored \cup {j}
    /\ userId' = [userId EXCEPT ![j] = u]
    /\ minted' = [minted EXCEPT ![j] = v]
    /\ family' = [family EXCEPT ![j] = f]

(* issueTokens(): the pair is signed with a new jti and the tokenVersion   *)
(* of the user as the request has read it.                                 *)
IssueTokens(r, u, j) ==
    /\ Fresh(j)
    /\ user' = [user EXCEPT ![r] = u]
    /\ version' = [version EXCEPT ![r] = tokenVersion[u]]
    /\ newJti' = [newJti EXCEPT ![r] = j]

(* A login, by password or by its confirmation code, has accepted the      *)
(* credentials of u.                                                       *)
StartLogin(r, u, j) ==
    /\ pc[r] = "idle"
    /\ IssueTokens(r, u, j)
    /\ Goto(r, "login")
    /\ UNCHANGED <<rowVars, tokenVersion, token, targets>>

(* startSession(): the row is inserted and the login commits. *)
CommitLogin(r) ==
    /\ pc[r] = "login"
    /\ Insert(newJti[r], user[r], version[r], newJti[r])
    /\ Finish(r, "ok")
    /\ UNCHANGED <<revoked, replacedById, tokenVersion, token, newJti, user,
                   version, targets>>

(* refresh(): the signature holds and the account still has the version    *)
(* the token was signed with; the new pair is signed with that version.    *)
StartRefresh(r, t, j) ==
    /\ pc[r] = "idle"
    /\ t \in stored
    /\ minted[t] = tokenVersion[userId[t]]
    /\ IssueTokens(r, userId[t], j)
    /\ token' = [token EXCEPT ![r] = t]
    /\ Goto(r, "checked")
    /\ UNCHANGED <<rowVars, tokenVersion, targets>>

(* refresh(): an expired or forged token, or one of an account whose       *)
(* version has moved on.                                                   *)
RejectToken(r) ==
    /\ pc[r] = "idle"
    /\ Finish(r, "denied")
    /\ UNCHANGED <<rowVars, tokenVersion, token, newJti, user, version, targets>>

(* rotate(): the row is read, and what it says decides.  A live row goes   *)
(* on to replace(); a replaced one is the theft alarm; a row that was      *)
(* revoked without a successor is just refused.                            *)
FindLive(r) ==
    /\ pc[r] = "checked"
    /\ Live(token[r])
    /\ Goto(r, "found")
    /\ UNCHANGED <<rowVars, tokenVersion, token, newJti, user, version, targets>>

FindRevoked(r) ==
    /\ pc[r] = "checked"
    /\ token[r] \in revoked
    /\ replacedById[token[r]] = NULL
    /\ Finish(r, "denied")
    /\ UNCHANGED <<rowVars, tokenVersion, token, newJti, user, version, targets>>

(* Mutants: only the successor of the presented session is revoked, or     *)
(* every refused token raises the alarm.                                   *)
FindReplacedOnlySuccessor(r) ==
    /\ pc[r] = "checked"
    /\ token[r] \in revoked
    /\ replacedById[token[r]] # NULL
    /\ targets' = [targets EXCEPT ![r] = {j \in {replacedById[token[r]]} : Live(j)}]
    /\ Goto(r, "revoking")
    /\ UNCHANGED <<rowVars, tokenVersion, token, newJti, user, version>>

FindReplacedOrRevoked(r) ==
    /\ pc[r] = "checked"
    /\ token[r] \in revoked
    /\ targets' = [targets EXCEPT ![r] = {j \in stored : userId[j] = user[r] /\ Live(j)}]
    /\ Goto(r, "revoking")
    /\ UNCHANGED <<rowVars, tokenVersion, token, newJti, user, version>>

(* revokeAllForUser() is one UPDATE statement: the rows it will visit are  *)
(* those its snapshot shows as live, which is taken here ...               *)
FindReplaced(r) ==
    /\ pc[r] = "checked"
    /\ token[r] \in revoked
    /\ replacedById[token[r]] # NULL
    /\ targets' = [targets EXCEPT ![r] = {j \in stored : userId[j] = user[r] /\ Live(j)}]
    /\ Goto(r, "revoking")
    /\ UNCHANGED <<rowVars, tokenVersion, token, newJti, user, version>>

(* ... and it commits once no open transaction holds one of them; a row    *)
(* revoked in the meantime keeps its revokedAt.                            *)
RevokeAll(r) ==
    /\ pc[r] = "revoking"
    /\ \A j \in targets[r] : ~Locked(j)
    /\ revoked' = revoked \cup targets[r]
    /\ Finish(r, "reuse")
    /\ UNCHANGED <<stored, replacedById, userId, minted, family, tokenVersion,
                   token, newJti, user, version, targets>>

(* Mutant: the UPDATE of replace() without `revokedAt: IsNull()'. *)
ReplaceRowUnconditionally(r) ==
    /\ pc[r] = "found"
    /\ ~Locked(token[r])
    /\ Goto(r, "commit")
    /\ UNCHANGED <<rowVars, tokenVersion, token, newJti, user, version, targets>>

(* replace(): INSERT of the new row, invisible to others, and UPDATE of    *)
(* the old one where revokedAt is null.  The update takes the row lock.    *)
ReplaceRow(r) ==
    /\ pc[r] = "found"
    /\ ~Locked(token[r])
    /\ token[r] \notin revoked
    /\ Goto(r, "commit")
    /\ UNCHANGED <<rowVars, tokenVersion, token, newJti, user, version, targets>>

(* Mutants: `affected' is not looked at, or only another rotation counts   *)
(* as having lost.                                                         *)
LoseRaceUnnoticed(r) ==
    /\ pc[r] = "found"
    /\ ~Locked(token[r])
    /\ token[r] \in revoked
    /\ Finish(r, "ok")
    /\ UNCHANGED <<rowVars, tokenVersion, token, newJti, user, version, targets>>

LoseRaceToRotationOnly(r) ==
    /\ pc[r] = "found"
    /\ ~Locked(token[r])
    /\ replacedById[token[r]] # NULL
    /\ Finish(r, "denied")
    /\ UNCHANGED <<rowVars, tokenVersion, token, newJti, user, version, targets>>

(* `affected' is 0: the transaction rolls back with the new row. *)
LoseRace(r) ==
    /\ pc[r] = "found"
    /\ ~Locked(token[r])
    /\ token[r] \in revoked
    /\ Finish(r, "denied")
    /\ UNCHANGED <<rowVars, tokenVersion, token, newJti, user, version, targets>>

(* Mutant: the new pair is signed with the version of the user as it is    *)
(* when the rotation ends.                                                 *)
CommitReplaceNewVersion(r) ==
    /\ pc[r] = "commit"
    /\ Insert(newJti[r], user[r], tokenVersion[user[r]], family[token[r]])
    /\ revoked' = revoked \cup {token[r]}
    /\ replacedById' = [replacedById EXCEPT ![token[r]] = newJti[r]]
    /\ Finish(r, "ok")
    /\ UNCHANGED <<tokenVersion, token, newJti, user, version, targets>>

CommitReplace(r) ==
    /\ pc[r] = "commit"
    /\ Insert(newJti[r], user[r], version[r], family[token[r]])
    /\ revoked' = revoked \cup {token[r]}
    /\ replacedById' = [replacedById EXCEPT ![token[r]] = newJti[r]]
    /\ Finish(r, "ok")
    /\ UNCHANGED <<tokenVersion, token, newJti, user, version, targets>>

(* Mutant: logout() revokes `sub' instead of `jti'. *)
StartLogoutBySub(r, t) ==
    /\ pc[r] = "idle"
    /\ t \in stored
    /\ token' = [token EXCEPT ![r] = userId[t]]
    /\ Goto(r, "logout")
    /\ UNCHANGED <<rowVars, tokenVersion, newJti, user, version, targets>>

(* logout(): whatever the token's version, its session is revoked. *)
StartLogout(r, t) ==
    /\ pc[r] = "idle"
    /\ t \in stored
    /\ token' = [token EXCEPT ![r] = t]
    /\ Goto(r, "logout")
    /\ UNCHANGED <<rowVars, tokenVersion, newJti, user, version, targets>>

(* logout(): without a token that verifies there is nothing to revoke, and *)
(* it succeeds.                                                            *)
LogoutNothing(r) ==
    /\ pc[r] = "idle"
    /\ Finish(r, "loggedOut")
    /\ UNCHANGED <<rowVars, tokenVersion, token, newJti, user, version, targets>>

(* revoke(): one UPDATE where revokedAt is null. *)
Revoke(r) ==
    /\ pc[r] = "logout"
    /\ ~Locked(token[r])
    /\ revoked' = revoked \cup {token[r]}
    /\ Finish(r, "loggedOut")
    /\ UNCHANGED <<stored, replacedById, userId, minted, family, tokenVersion,
                   token, newJti, user, version, targets>>

(* anonymizeUser(): deleting the account raises the version. *)
BumpTokenVersion(u) ==
    /\ tokenVersion[u] < MaxVersion
    /\ tokenVersion' = [tokenVersion EXCEPT ![u] = @ + 1]
    /\ UNCHANGED <<rowVars, reqVars>>

(* The process dies or the database fails: an open transaction, and a      *)
(* statement that has not finished, leave nothing behind.                  *)
Abort(r) ==
    /\ pc[r] \notin {"idle", "done"}
    /\ Finish(r, "failed")
    /\ UNCHANGED <<rowVars, tokenVersion, token, newJti, user, version, targets>>

(* Nothing is left to do once every call has been answered. *)
Finished ==
    /\ \A r \in Requests : pc[r] = "done"
    /\ UNCHANGED vars

Progress(r) ==
    \/ CommitLogin(r)
    \/ FindLive(r) \/ FindRevoked(r) \/ FindReplaced(r)
    \/ RevokeAll(r)
    \/ ReplaceRow(r) \/ LoseRace(r) \/ CommitReplace(r)
    \/ Revoke(r)

Next ==
    \/ \E r \in Requests :
          \/ \E u \in Users, j \in Jtis : StartLogin(r, u, j)
          \/ \E t, j \in Jtis : StartRefresh(r, t, j)
          \/ \E t \in Jtis : StartLogout(r, t)
          \/ RejectToken(r) \/ LogoutNothing(r)
          \/ Progress(r)
          \/ Abort(r)
    \/ \E u \in Users : BumpTokenVersion(u)
    \/ Finished

Spec == Init /\ [][Next]_vars

-----------------------------------------------------------------------------
TypeOK ==
    /\ stored \in SUBSET Jtis
    /\ revoked \in SUBSET Jtis
    /\ replacedById \in [Jtis -> Jtis \cup {NULL}]
    /\ userId \in [Jtis -> Users \cup {NULL}]
    /\ minted \in [Jtis -> 0..MaxVersion]
    /\ family \in [Jtis -> Jtis \cup {NULL}]
    /\ tokenVersion \in [Users -> 0..MaxVersion]
    /\ pc \in [Requests -> PcStates]
    /\ token \in [Requests -> Jtis \cup {NULL}]
    /\ newJti \in [Requests -> Jtis \cup {NULL}]
    /\ user \in [Requests -> Users \cup {NULL}]
    /\ version \in [Requests -> 0..MaxVersion]
    /\ targets \in [Requests -> SUBSET Jtis]
    /\ outcome \in [Requests -> Outcomes]

(* The tokens of one login: at most one of them opens a session, however   *)
(* many refreshes of it run at the same time (refresh-session.service.ts   *)
(* 106: of two concurrent refreshes, only one updates the row).            *)
AtMostOneLivePerFamily ==
    \A i, j \in stored : Live(i) /\ Live(j) /\ family[i] = family[j] => i = j

(* Two clients never both get a new session for the same refresh token. *)
OneWinnerPerToken ==
    \A r, s \in Requests :
        /\ outcome[r] = "ok" /\ outcome[s] = "ok"
        /\ token[r] # NULL /\ token[r] = token[s]
        => r = s

(* The rotation history is a set of chains inside one family and one       *)
(* account: a successor exists, was made for the same user and under the   *)
(* same tokenVersion, and has no second predecessor.                       *)
ChainsAreSound ==
    \A j \in Jtis : replacedById[j] # NULL =>
        LET k == replacedById[j] IN
        /\ j \in stored \cap revoked /\ k \in stored /\ k # j
        /\ userId[k] = userId[j] /\ minted[k] = minted[j] /\ family[k] = family[j]
        /\ \A i \in Jtis : replacedById[i] = k => i = j

(* A session the service would accept: live, and of the account's present  *)
(* version.                                                                *)
Usable(j) == Live(j) /\ minted[j] = tokenVersion[userId[j]]

UsableIn(f) == {j \in stored : family[j] = f /\ Usable(j)}

(* A family that was logged out, revoked as stolen or cut off by the       *)
(* deletion of its account never has a usable session again, whatever      *)
(* login, refresh or logout was still in flight.  This is about versions   *)
(* that only grow: a save() of the users row that is older than a deletion *)
(* writes the old version back (UserAccount, DeletionIsFinal), and the     *)
(* sessions of that version with it.                                       *)
DeadFamilyStaysDead ==
    [][\A f \in stored : UsableIn(f) = {} => UsableIn(f)' = {}]_vars

(* revokedAt and replacedById are written once: neither a second rotation  *)
(* nor a late revocation rewrites what a row says about its past.          *)
RevocationIsFinal ==
    [][/\ stored \subseteq stored' /\ revoked \subseteq revoked'
       /\ \A j \in Jtis : (replacedById[j] # NULL \/ j \in revoked)
             => replacedById'[j] = replacedById[j]]_vars

(* The theft alarm (refresh-session.service.ts 48-52) may miss a session   *)
(* only when a session it saw as live was rotated by a refresh that was    *)
(* committing at that moment; otherwise the family is dead.                *)
AlarmKillsFamilyUnlessRaced ==
    \A r \in Requests : outcome[r] = "reuse" =>
        \/ ~(\E j \in stored : Live(j) /\ family[j] = family[token[r]])
        \/ \E t \in targets[r] : family[t] = family[token[r]] /\ replacedById[t] # NULL

(* What the comment at refresh-session.service.ts:49-51 says, for the      *)
(* family of the replayed token: when the alarm has been raised, no        *)
(* session of it is live.                                                  *)
ReplayKillsFamily ==
    \A r \in Requests : outcome[r] = "reuse" =>
        ~(\E j \in stored : Live(j) /\ family[j] = family[token[r]])

(* The alarm is raised only about a token that some refresh had already    *)
(* traded: a token that was merely logged out never costs the user the     *)
(* other sessions.                                                         *)
AlarmNeedsASecondUse ==
    \A r \in Requests : outcome[r] = "reuse" =>
        \E s \in Requests \ {r} : outcome[s] = "ok" /\ token[s] = token[r]

InFlight == {r \in Requests : pc[r] \notin {"idle", "done"}}

(* A request that finds its row and waits for no other: a handler only     *)
(* ever waits for a row that an open replace() has updated.                *)
Ready(r) ==
    /\ pc[r] = "checked" => token[r] \in stored
    /\ pc[r] \in {"found", "logout"} => ~Locked(token[r])
    /\ pc[r] = "revoking" => \A j \in targets[r] : ~Locked(j)

SomeoneIsReady == InFlight # {} => \E r \in InFlight : Ready(r)

ReadyCanMove == \A r \in InFlight : Ready(r) => ENABLED Progress(r)

(* Requests never all wait for each other, whatever rows they hold; and    *)
(* who waits for nobody can go on: a refresh that lost its row to a        *)
(* rotation, a logout or the alarm is answered.                            *)
SomeoneCanMove == SomeoneIsReady /\ ReadyCanMove

-----------------------------------------------------------------------------
(* What makes the invariants above inductive. *)

Holding == {"checked", "found", "commit", "revoking"}  \* a refresh in flight
Drawing == Holding \cup {"login"}                      \* has drawn a new jti

(* A row belongs to the account and the version of the login that opened   *)
(* its family, and no token is newer than its account.                     *)
RowsOK ==
    /\ revoked \subseteq stored
    /\ \A j \in stored :
          /\ userId[j] \in Users
          /\ family[j] \in stored
          /\ userId[j] = userId[family[j]]
          /\ minted[j] = minted[family[j]]
          /\ minted[j] <= tokenVersion[userId[j]]

(* Only the last session of a chain has no successor. *)
OneTailPerFamily ==
    \A i, j \in stored :
        /\ replacedById[i] = NULL /\ replacedById[j] = NULL
        /\ family[i] = family[j]
        => i = j

(* What a suspended handler remembers is still so. *)
RequestsOK ==
    \A r \in Requests :
        /\ pc[r] = "idle" => newJti[r] = NULL
        /\ pc[r] # "done" => outcome[r] = "none"
        /\ pc[r] \in Drawing => newJti[r] \in Jtis \ stored
        /\ pc[r] = "login" =>
              /\ user[r] \in Users
              /\ version[r] <= tokenVersion[user[r]]
              /\ token[r] = NULL
        /\ pc[r] = "idle" => token[r] = NULL
        /\ pc[r] \in Holding =>
              /\ token[r] \in stored
              /\ user[r] = userId[token[r]]
              /\ version[r] = minted[token[r]]
        /\ pc[r] = "logout" => token[r] \in stored
        /\ pc[r] = "commit" => token[r] \notin revoked

JtisDiffer ==
    \A r, s \in Requests : newJti[r] # NULL /\ newJti[r] = newJti[s] => r = s

(* Two open transactions never hold the same row. *)
LocksExclude ==
    \A r, s \in Requests :
        pc[r] = "commit" /\ pc[s] = "commit" /\ token[r] = token[s] => r = s

(* A successor was written by exactly the refresh that was told "ok". *)
WinnersOK ==
    /\ \A r \in Requests : outcome[r] = "ok" /\ token[r] # NULL =>
           newJti[r] # NULL /\ replacedById[token[r]] = newJti[r]
    /\ \A j \in Jtis : replacedById[j] # NULL =>
           \E s \in Requests : outcome[s] = "ok" /\ token[s] = j

(* The mass revocation misses only the successor of a row it saw. *)
AlarmsOK ==
    \A r \in Requests : pc[r] = "revoking" \/ outcome[r] = "reuse" =>
        /\ token[r] \in stored
        /\ replacedById[token[r]] # NULL
        /\ targets[r] \subseteq stored
        /\ outcome[r] = "reuse" => targets[r] \subseteq revoked
        /\ \A j \in stored :
              Live(j) /\ family[j] = family[token[r]] =>
                 \/ j \in targets[r]
                 \/ \E t \in targets[r] :
                       family[t] = family[token[r]] /\ replacedById[t] # NULL

IInv ==
    /\ TypeOK /\ RowsOK /\ ChainsAreSound /\ OneTailPerFamily
    /\ RequestsOK /\ JtisDiffer /\ LocksExclude /\ WinnersOK /\ AlarmsOK

-----------------------------------------------------------------------------
(* The usable session of each family, seen as the head of RotatingTokens.  *)
headBar == [f \in Jtis |-> IF UsableIn(f) = {} THEN NULL
                           ELSE CHOOSE j \in Jtis : j \in UsableIn(f)]

Abstract == INSTANCE RotatingTokens WITH head <- headBar, used <- stored

(* Rows, locks and requests implement rotating tokens, as long as the      *)
(* version of an account only grows (see DeadFamilyStaysDead).             *)
ImplementsRotatingTokens == Abstract!Spec
=============================================================================
