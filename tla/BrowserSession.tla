---------------------------- MODULE BrowserSession --------------------------
(***************************************************************************)
(* One browser in front of RefreshSessions: the cookies that AuthController *)
(* sets and clears, and the answers that carry them.  Tabs share the       *)
(* cookies, so calls overlap; an answer arrives in any order, late, or     *)
(* never, and the next call then presents the cookie of before.  The       *)
(* access and the refresh cookie are set and cleared together and are      *)
(* named here by the jti of the refresh token.                             *)
(***************************************************************************)
EXTENDS RefreshSessions

VARIABLES
    jar,        \* jti of the refresh_token cookie, or NULL
    route,      \* route[r]: what the call asks for
    delivered,  \* calls whose answer has reached the browser
    lost,       \* calls whose answer never will
    known,      \* history: known[r] is `delivered' when r was sent
    overlapped  \* history: a call was sent while another had no answer yet

browserVars == <<jar, route, delivered, lost, known, overlapped>>
bvars       == <<vars, browserVars>>

Routes == {"none", "login", "refresh", "logout"}

(* Sent, and the browser does not know yet how it ended. *)
Unanswered == {r \in Requests : pc[r] # "idle"} \ (delivered \cup lost)

BrowserInit ==
    /\ Init
    /\ jar = NULL
    /\ route = [r \in Requests |-> "none"]
    /\ delivered = {} /\ lost = {}
    /\ known = [r \in Requests |-> {}]
    /\ overlapped = FALSE

(* The call leaves with the cookies of this moment. *)
Send(r, to) ==
    /\ route' = [route EXCEPT ![r] = to]
    /\ known' = [known EXCEPT ![r] = delivered]
    /\ overlapped' = (overlapped \/ Unanswered # {})
    /\ UNCHANGED <<jar, delivered, lost>>

-----------------------------------------------------------------------------
(* login(), confirmLoginOtp() and confirmLoginLink(): the tokens of a new  *)
(* session become the cookies of the answer.                               *)
BrowserLogin(r, u, j) == StartLogin(r, u, j) /\ Send(r, "login")

(* refresh(): the token is whatever the jar holds.                         *)
BrowserRefresh(r, j) ==
    /\ jar # NULL
    /\ StartRefresh(r, jar, j)
    /\ Send(r, "refresh")

(* refresh() without the cookie, or with the token of a version that has   *)
(* passed, is 401 and sets no cookie.                                      *)
BrowserRefreshDenied(r) ==
    /\ jar # NULL => minted[jar] # tokenVersion[userId[jar]]
    /\ RejectToken(r)
    /\ Send(r, "refresh")

(* logout() with a cookie revokes the session of that cookie ...           *)
BrowserLogout(r) ==
    /\ jar # NULL
    /\ StartLogout(r, jar)
    /\ Send(r, "logout")

(* ... and without one has nothing to revoke, and succeeds.                *)
BrowserLogoutNoCookie(r) ==
    /\ jar = NULL
    /\ LogoutNothing(r)
    /\ Send(r, "logout")

(* Mutant: refresh() answers without applyAuthCookies(). *)
CookiesOfLoginOnly(r) ==
    CASE outcome[r] = "ok" /\ route[r] = "login" -> {newJti[r]}
      [] outcome[r] = "loggedOut" -> {NULL}
      [] OTHER -> {jar}

(* Mutant: logout() does not clear the cookies. *)
CookiesKeptAtLogout(r) ==
    IF outcome[r] = "ok" THEN {newJti[r]} ELSE {jar}

(* What the jar may hold after the answer of r: applyAuthCookies() on      *)
(* success, clearAuthCookies() before logout() touches the database, so    *)
(* that an error page of it clears the cookies too (or is a bare 500 of a  *)
(* proxy, which leaves them); every other answer leaves them.              *)
Cookies(r) ==
    CASE outcome[r] = "ok" -> {newJti[r]}
      [] outcome[r] = "loggedOut" -> {NULL}
      [] outcome[r] = "failed" /\ route[r] = "logout" -> {jar, NULL}
      [] OTHER -> {jar}

Deliver(r) ==
    /\ pc[r] = "done" /\ r \in Unanswered
    /\ jar' \in Cookies(r)
    /\ delivered' = delivered \cup {r}
    /\ UNCHANGED <<vars, route, lost, known, overlapped>>

(* The connection breaks: what the server did stands, the browser has not  *)
(* heard of it.                                                            *)
Lose(r) ==
    /\ pc[r] = "done" /\ r \in Unanswered
    /\ lost' = lost \cup {r}
    /\ UNCHANGED <<vars, jar, route, delivered, known, overlapped>>

(* The handler, a crash, and the deletion of the account happen on the     *)
(* server's side.                                                          *)
ServerStep ==
    /\ \/ \E r \in Requests : Progress(r) \/ Abort(r)
       \/ \E u \in Users : BumpTokenVersion(u)
    /\ UNCHANGED browserVars

BrowserFinished ==
    /\ \A r \in Requests : pc[r] = "done"
    /\ Unanswered = {}
    /\ UNCHANGED bvars

BrowserNext ==
    \/ \E r \in Requests :
          \/ \E u \in Users, j \in Jtis : BrowserLogin(r, u, j)
          \/ \E j \in Jtis : BrowserRefresh(r, j)
          \/ BrowserRefreshDenied(r)
          \/ BrowserLogout(r) \/ BrowserLogoutNoCookie(r)
          \/ Deliver(r) \/ Lose(r)
    \/ ServerStep
    \/ BrowserFinished

BrowserSpec == BrowserInit /\ [][BrowserNext]_bvars

-----------------------------------------------------------------------------
BrowserTypeOK ==
    /\ jar \in Jtis \cup {NULL}
    /\ jar # NULL => jar \in stored
    /\ route \in [Requests -> Routes]
    /\ delivered \in SUBSET Requests
    /\ lost \in SUBSET Requests
    /\ known \in [Requests -> SUBSET delivered]
    /\ overlapped \in BOOLEAN

(* What makes the properties below inductive.                              *)

(* What a call is told is true: the session of a token it is given is      *)
(* stored, and the session it was to end is revoked.                       *)
OutcomesOK ==
    \A r \in Requests :
        /\ outcome[r] = "ok" => newJti[r] \in stored
        /\ outcome[r] = "loggedOut" /\ token[r] # NULL => token[r] \in revoked

(* The browser has only the answers of calls that are over.                *)
AnswersOK == OutcomesOK /\ \A r \in delivered : pc[r] = "done"

(* The jar holds, and calls present, only what some answer has brought.    *)
Brought(j) == \E d \in delivered : outcome[d] = "ok" /\ newJti[d] = j

CookiesOK ==
    /\ jar # NULL => Brought(jar)
    /\ \A r \in Requests : token[r] # NULL => Brought(token[r])

(* The browser never goes back to a token of whose rotation it has heard.  *)
NeverBack ==
    /\ \A s \in delivered : outcome[s] = "ok" /\ jar # NULL => token[s] # jar
    /\ \A r \in Requests : \A s \in known[r] :
          outcome[s] = "ok" /\ token[s] # NULL => token[s] # token[r]

(* As long as the browser sends one call at a time and hears every answer, *)
(* its cookie works until an answer that replaces or clears it.            *)
JarOK ==
    ~overlapped /\ lost = {} =>
        /\ \A r, s \in Unanswered : r = s
        /\ Unanswered = {} /\ jar # NULL => Live(jar)
        /\ \A r \in Unanswered :
              /\ pc[r] \in {"checked", "found", "commit", "logout"} => token[r] = jar
              /\ pc[r] # "revoking" /\ outcome[r] # "reuse"
              /\ outcome[r] \notin {"ok", "loggedOut"} /\ jar # NULL => Live(jar)
              /\ outcome[r] = "ok" => Live(newJti[r])

(* The inductive invariant of the browser: that of the server, types, and  *)
(* what ties the jar to the answers that have come.                        *)
BrowserIInv == IInv /\ BrowserTypeOK /\ AnswersOK /\ CookiesOK /\ NeverBack /\ JarOK

(* A refresh of the cookie that the browser sends raises the theft alarm   *)
(* only when the answer of an earlier refresh of it had not reached the    *)
(* browser: two tabs, or a repetition after a lost answer, never a client  *)
(* that has seen every answer.                                             *)
AlarmNeedsUnseenAnswer ==
    \A r \in Requests : outcome[r] = "reuse" =>
        \E s \in Requests \ {r} :
            outcome[s] = "ok" /\ token[s] = token[r] /\ s \notin known[r]

(* Once logout() has answered, no session of that login is usable, except  *)
(* when a refresh of the same cookie succeeded whose answer the browser    *)
(* did not have when it sent the logout: that one's successor escapes.     *)
LogoutEndsFamily ==
    \A r \in Requests :
        outcome[r] = "loggedOut" /\ token[r] # NULL =>
            \/ UsableIn(family[token[r]]) = {}
            \/ \E s \in Requests :
                  outcome[s] = "ok" /\ token[s] = token[r] /\ s \notin known[r]

(* A browser that sends one call at a time and loses no answer is never    *)
(* left with a cookie whose session is revoked, whatever its calls         *)
(* answered and wherever one of them failed.                               *)
CookieWorksAlone ==
    ~overlapped /\ lost = {} /\ Unanswered = {} /\ jar # NULL
    => Live(jar)

=============================================================================
