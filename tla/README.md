# Verification of the NestJS application

TLA+ models of the parts of the application whose behaviour depends on what
happens *between* two awaits: refresh-token rotation, confirmation codes, the
users row, the RBAC tables with their in-memory copy and the calls they decide
about, the auth settings, the keyset-paged users list, and a browser whose cookies
depend on the answers it gets. TLC checks every model on small instances; TLAPS
proves the safety properties of every component for any number of requests, rows
and values.

Paths below are relative to the repository. `tlc -workers 2 -config <cfg> <MC
module>` repeats a run, `tlapm <component>Proofs.tla` the proofs about a component.

## 1. The system

One Node process serves HTTP with NestJS; PostgreSQL keeps all lasting state and
runs at READ COMMITTED. Handlers are asynchronous functions: they interleave at
every `await`, above all at every SQL statement. `@Transactional()` puts the
statements of a method into one transaction; `REQUIRES_NEW` opens a second one on
a second connection. `repository.save(entity)` is not one statement: TypeORM
selects the row again, compares, and updates the columns that differ.

| Component | State | Operations | Talks to |
|---|---|---|---|
| Refresh sessions (`auth/services/refresh-session.service.ts`, `auth.service.ts`) | `refresh_sessions` rows, `tokenVersion` in the signed token | startSession, refresh, logout, revokeAllForUser | users row (version), JWT signing |
| Confirmation codes (`core/email-verification`) | `email_verifications` rows, the clock | issueAndSend, canResend, confirm, recordFailedAttempt | called from auth and users inside their transactions; mailer |
| User account (`users.service.ts`, `auth.service.ts`, `jwt.strategy.ts`) | one `users` row: email, pendingEmail, lockout counters, tokenVersion, deletedAt | register, login, confirmOtp, updateUser, email change, deletion, recordFailedLoginAttempt | codes, sessions |
| RBAC (`rbac/services/*`) | `roles`, `permissions`, `grants`; `grantsByRoleName` in memory | create, update, remove of each; reload; hasPermission | guards of every protected route |
| Users list (`users-list.service.ts`, `users-list-cursor.ts`) | none of its own: the cursor is with the client | getUsersList | users rows |
| Access guards (`jwt.strategy.ts`, `self-only.guard.ts`, `rbac/access/*`) | `user_roles`; the role names a call carries | validate, canActivate of three guards | users row with its roles, the compiled grants |
| Cookies (`auth.controller.ts`, `cookie.util.ts`) | two cookies in the browser | set at login and refresh, cleared at logout | sessions |
| Auth settings (`modules/settings`) | `settings` rows over environment defaults | get, patch | register, login, resend |
| Profile policies, tokens, passwords, mailer, throttler, health, error filter, configuration, DTO validation | none, or a library's | | |

What is hard, and where it bites (all of it is listed with lines in
`PROJECT.json`, "hazards"):

* **check, await, write** — a code's attempt counter, its `consumedAt`, the resend
  interval, "no grant uses this role", the pending address;
* **a whole entity saved after a long await** — `login()` saves a user it read
  before argon2 ran;
* **a snapshot older than the statement's effect** — the mass revocation of a
  replayed token, the reload of the grants;
* **two transactions, two lock orders** — the users row and a code: `login()`, which
  writes the row and re-issues a code, against `confirmOtp()` and
  `confirmLoginOtp()`; the two steps of the email change; `REQUIRES_NEW` inside an
  open transaction;
* **failure between two steps** — a write whose reload fails, a successor session
  whose rotation loses;
* **answers that are late or lost** — a rotated cookie travels in the answer, so the
  browser may present the old one again;
* **names that tie two reads together** — role names read from the tables, looked up
  in a copy compiled at another time;
* **a pool that runs dry** — `REQUIRES_NEW` takes a second connection while the
  first is held;
* **boundaries** — expiry and resend in the very millisecond, the last page that
  is exactly full, ties in creation time.

What makes each component correct: a refresh token is traded once and a stolen
chain dies; a code is accepted once, in time, while it is the newest, and after a
bounded number of guesses; a deletion is final, a lockout comes neither early nor
late, an address is proved by its own code; memory decides as the tables say, and a call is allowed what its roles give;
a browser that sees its answers never looks like a thief, and a logout ends the login;
every account nobody touches is listed once, in order.

## 2. Modules

| Module | Models | How it corresponds to the code |
|---|---|---|
| `TypeOrm` | `Repository.save` of an existing row | `ChangedColumns` and `Saved` are the comparison and the UPDATE of TypeORM; used by the three modules that save entities |
| `RotatingTokens` | what rotation promises | abstract: one usable token (`head`) per login, used identifiers never come back |
| `RefreshSessions` | sessions with overlapping requests | `pc[r]` is the await a handler is suspended at. `StartRefresh` is `refresh()` up to `rotate()`; `FindLive/FindRevoked/FindReplaced` are the three branches of `rotate()`; `ReplaceRow/LoseRace/CommitReplace` are `replace()`; `FindReplaced` then `RevokeAll` is the snapshot and the effect of the one UPDATE of `revokeAllForUser()`; `LogoutNothing` is a logout without a token that verifies |
| `BrowserSession` | one browser in front of `RefreshSessions` (EXTENDS it) | `jar` is the cookie pair; `BrowserLogin`, `BrowserRefresh`, `BrowserRefreshDenied`, `BrowserLogout`, `BrowserLogoutNoCookie` are the handlers of `AuthController` up to the service; `Cookies` is what `setAuthCookies`/`clearAuthCookies` put into each answer, `Deliver` and `Lose` the fate of the answer |
| `OneTimeCode` | what a code promises | abstract: at most one pending code, spent at most once, bounded refusals |
| `EmailVerification` | the codes of one (account, purpose) | `FindForIssue` is `issue()` up to `save`; `Pending/Exhausted/Expired` are the checks of `confirm()` in its order; `Reload`, `Update`, `CommitUpdate`/`CommitInsert` are the statements of `save()` and the commit; `BeginRecording` is its wait for a second connection of the pool, `RecordFailedAttempt` the `REQUIRES_NEW` transaction |
| `UserAccount` | one users row | `op[r]` names the handler; `UpdateFields` is the policy of `updateUser()` for owner and administrator; every handler builds an `entity`, and `Reload`, `Update`, `Commit` save it. `ConsumeCode` and `IssueCode` are the writes of a code row before and after that, `StartSession` the INSERT of `confirmLoginOtp()`. `HoldsUser/HoldsCode/HoldsKey` and `WantsUser/WantsCode/WantsKey` are the row locks: `purpose[r]` says which code a handler writes, and the key lock is what the foreign key of a session waits for when an UPDATE changes the unique address. `BreakDeadlock` is PostgreSQL's deadlock detector |
| `RbacConfig` | RBAC tables and the compiled copy | `rows` holds the three tables, `Consistent` their constraints; `ReadGrants`, `InstallGrants` are the query and the assignment of `reload()`; `HasPermission` is the decision the guards ask for; `Seeded` is what the migrations insert |
| `AccessDecisions` | calls of one user while `RbacConfig` changes (EXTENDS it) | `Validate` is `JwtStrategy.validate()` reading the role names, `Access` the three guards (`Mine`, `Granted`), `Decide` the moment they answer; `Administer` is a step of `RbacConfig` with the cascade on `user_roles` |
| `AuthSettings` | overlapping patches of the settings | `First`, `Upsert`, `Delete`, `DeleteNothing` are the loop over the entries in the order the DTO declares them (its class fields fix the order of `Object.entries`, whatever the request's); `Answer` is `getEffectiveSettings()` inside the transaction, `Commit` its end |
| `UsersList` | one walk through the pages | `Page` is one call of `getUsersList`; `Beyond` is `applyCursor`, `Matches` search and status filter, `FirstOf` the sorting that decides which rows a page takes, `HasNextPage` the extra row, `LastOfPage` the row the cursor names, `DecodeUsersCursor` the comparison of the cursor with the sort and order asked for; accounts change between two pages |
| `RefreshSessionsProofs`, `BrowserSessionProofs`, `EmailVerificationProofs`, `UserAccountProofs`, `RbacConfigProofs`, `AccessDecisionsProofs`, `AuthSettingsProofs`, `UsersListProofs` | proofs about the module they name | section 5 |
| `MC*` | instances | only symmetry sets, the constants are in the `.cfg` files |

The components meet at four points. `BrowserSession` and `AccessDecisions` extend the
module they compose with: every step of theirs is a step of it or leaves it alone (proved:
`BrowserImplementsServer`, `AccessAdministers`). `UserAccount!DeleteUser` raises
`tokenVersion`, which is `RefreshSessions!BumpTokenVersion`; and the handlers of
`UserAccount` use the slot `EmailVerification` models, in `UserAccount` reduced to
"the mailbox the pending code of an email change was sent to" (`changeCode`) and the
locks on the code rows.

### Modelling decisions

* Requests are one-shot: each element of `Requests` is one HTTP call. Its client
  may be anybody, so two elements can present the same token or code.
* `randomUUID()` and generated codes do not repeat. A wrong submission is any
  string that is not the code, so guessing needs no model of digits.
* Time is a counter of ticks. Two codes are issued at the same instant (`Fresh`) only at
  the bound of the clock. There `lastSentAt` and the expiry
  coincide, `save()` finds those columns as it wants them and does not write them, and
  with enough overlapping requests the hash of one issue can end up beside the time of
  another. The code does the same within one millisecond, so `OnlyIssuedCodesInTime` promises
  the time only if no two issues share theirs (`SentApart`), and the origin of the
  code always.
* A page of the users list is the set of the items on it. Inside a page the order is
  that of the query's ORDER BY; which rows a page takes, where its cursor points and
  how the pages follow each other is what the code has to get right.
* A transaction holds one of `PoolSize` connections from its first statement on, and
  a wrong submission needs another for `recordFailedAttempt()`. The pool has no time
  limit for getting one (`database.module.ts` sets none).
* A browser sends the cookies it has when it sends; access and refresh cookie are set
  and cleared together and are one value in the model. Expiry of cookies is left out.
* Answers of the server do not mention a deletion of the account: it is done by an
  administrator or from elsewhere (`BumpTokenVersion`).
* `validate()` and the guards are two steps: other handlers' statements are answered
  between them. The user of `AccessDecisions` may have any one role; users share
  names of roles only through the roles themselves.
* READ COMMITTED: a statement sees what was committed when it starts; an UPDATE
  waits for a locked row and then re-evaluates its condition. An INSERT is
  invisible until the commit, which is why `replace()` has one step for insert and
  conditional update and one for the commit.
* In `RefreshSessions` the version of an account only grows. `UserAccount` shows
  (`users_undelete`) that an overlapping save can lower it again; the session
  properties hold under the assumption that this does not happen.
* Of the codes, `UserAccount` has what their locks do to the users row. A code row is
  taken to exist when it is issued (every issue but the first updates it). Requests
  that only issue a code, or submit a wrong one, wait for that row while they hold
  none, so they close no circle and are left out. Which code `login()` issues, if any,
  is a free choice, because the settings may change before it asks; for a verified
  account it is never that of the registration.
* Several reads before the first write are one step in RBAC and in the email
  change's checks; every write, every reload, and the read of a code against the
  read of its user are separate.
* `photo` and `passwordHash` decide nothing in these handlers and are left out; in
  a deletion they go the way of the email. The mail itself decides nothing:
  `sendMail` never throws, whether it goes out or not.
* Actions of a grant: `null` and `[]` are the same set `{}`, as in
  `hasPermission()`.
* `Abort` may end any suspended request: the process dies, the database fails, or
  a later step throws. Open transactions vanish, committed ones stay.
* History variables (`family`, `late`, `issued`, `streak`, `overlapped`, `born`,
  `behind`, `offered`, `touched`, `known`, `recent`,
  `steady`, `foreign` ...) are commented as such and guard nothing,
  except that `born` keeps primary keys fresh. A finished handler of `RbacConfig` has
  its local variables reset, which keeps the state space small.

### `...Alone` properties

Several promises of the code hold only while requests do not overlap. For those,
`overlapped` remembers whether two requests were ever under way at once, and the
property is stated for the behaviours in which they were not (in
`EmailVerification` the bound `MaxInFlight = 1` does the same). They are not empty:
between the requests the processes fail, restart, time passes, other accounts
register, and administrators change the same rows. Four of the
unrestricted promises are written down in the repository and have a violation run that
shows how they fail (`ReplayKillsFamily`, `AttemptsBounded`, `DecisionsFollowTables`,
`DeletionIsFinal`). The others that fail under overlap — `CodeUsedOnce`,
`OldCodeIsRefused`, `ResendInterval`, the two about removals in RBAC and
`AddressIsProvedAlone` — are described at the end of section 4. These properties do not
cover the hazards that need an overlap; in `PROJECT.json` such a hazard names no property
and says so.

## 3. Runs

| Run | Instance | What it shows |
|---|---|---|
| `sessions_safety` | 5 calls, 4 sessions, 2 accounts, one version bump each | the inductive invariant `IInv` (types, sound chains, locks, alarms), at most one live session per login, one winner per token, the reach and the cause of the theft alarm, dead families stay dead, locks never block everybody, and the table implements `RotatingTokens` |
| `sessions_replay` | 4 calls | *violation*: a replay that overlaps a committing refresh leaves the new session alive |
| `browser_cookies` | 4 calls of one browser, 4 sessions, one deletion, every answer late, lost or in time | the inductive invariant `BrowserIInv`; the alarm about one's own cookie, and a session that outlives its logout, need the answer of an overlapping or unheard refresh; a browser that sends one call at a time and hears every answer never holds the cookie of a revoked session |
| `codes_serial` | 5 requests one at a time, 3 codes, 2 attempts, interval 2, clock to 4 | attempts bounded, a code used once and only while newest, a resend at least the interval after every code sent before it (an issue and two resends fit the clock), and the slot implements `OneTimeCode` |
| `codes_overlap` | 3 requests, 2 at once, a pool of 2 connections, 3 rows, fair | the inductive invariant `EmailIInv` (types, and rows and held entities that each come from one issue); only a mailed code is accepted and only in time, and no request waits for ever — `recordFailedAttempt()` never waits for its own caller — unless wrong submissions hold every connection (`PoolStalled`, which this run reaches) |
| `codes_attempts` | 3 requests, 2 at once, 1 attempt | *violation*: two wrong guesses count once |
| `rbac_config` | 3 changes, all at once, failures, one restart, a user with one of 2 roles calling | the inductive invariants of the tables and of the calls (`AccessIInv`, of which `RbacIInv` is a part); without overlap: memory follows the tables, removals are final and touch no grant, a call is allowed nothing its roles did not give since memory last agreed with the tables and denied nothing they gave all that time; always: grants never name an action their permission never had and never dangle |
| `rbac_stale` | 2 changes | *violation*: the older reload is installed last |
| `users_account` | 3 calls, 2 at once, 3 addresses, 2 attempts | the inductive invariant `AccountIInv`; deletedAt and tokenVersion move together, no early lockout, somebody can always move and only the three known pairs wait for each other, all of which occur (always); deletions final, lockouts hold, an address comes only from its own code, an administrator or a deletion (alone) |
| `users_undelete` | 2 calls | *violation*: a failed login undoes a deletion |
| `settings_patches` | 3 patches of 2 keys, all at once, aborts, fair | of two patches the later to commit decides every key both wrote, each answers with the settings it leaves, and none waits for ever |
| `users_pages` | 4 accounts, 2 creation times, page sizes 1–2 and a refused 3, one change | the inductive invariant `ListIInv`; untouched accounts are listed once, in order |

**Why the bounds are enough to be interesting.** Two refreshes of one token, a
third call that replays or logs out, the login that opened the family and one
more suffice for every race over a chain: five calls with four identifiers reach
login, rotate, rotate, replay with a rotation in flight. Codes need an issue, a
second issue, and submissions of either, with one more attempt than is allowed; two
resends of a code need an issue before them and a clock of twice the interval.
A browser needs a login, two refreshes of one cookie and a logout, which is four. With two connections two wrong
submissions stall the pool, with one connection each would stall alone.
RBAC needs a change that reads before and installs after another one, with a failure and
a restart around it, and names that pass from one
role to the other between `Validate` and the guards; the account a deletion or a second email change between read
and save, and two requests for each circle of locks. Two settings are the least that can be written in two orders,
and a third patch makes a chain of waits. In the list, ties of creation time, walks of up to four pages and every
combination of search, filter, sort and order occur.

**Symmetry.** Requests, identifiers, codes, addresses and names are
interchangeable and nothing compares them, so the safety runs use symmetry; the
`CHOOSE` in the two refinement mappings picks from sets that have at most one
element in those runs. The fair runs use none.

**Deadlock** is checked in all runs: `Finished` (`Ended`) lets a model rest only
when every request has been answered.

**Fairness.** `FairSpec` (codes, settings) is weak fairness of `Progress(r)` for each request: the
event loop resumes a handler whose promise settled, and PostgreSQL answers a
statement that is not waiting for a lock. In `codes_overlap` also `Tick`: time
passes. Nothing makes a client send a request, and `Abort` is not fair: answers do
not rest on failures. The sessions and the account, whose fair graphs are too large
for a run, state the absence of circular waits as an invariant (`SomeoneCanMove`):
some request waits for no lock (`SomeoneIsReady`, proved), and whoever waits for none
has an enabled step (`ReadyCanMove`, left to TLC); every handler has finitely many steps.

## 4. Where code and documents disagree

1. `sessions_replay` — `revokeAllForUser()` is one UPDATE; the successor that a
   concurrent `replace()` has inserted but not committed is not in its snapshot.
   After the theft alarm that session lives on. `AlarmKillsFamilyUnlessRaced`
   (proved) says this is the only way to escape.
2. `codes_attempts` — `recordFailedAttempt()` increments what `confirm()` read;
   overlapping guesses are counted once.
3. `rbac_stale` — two reloads are not ordered; the older result may be installed
   last and stays until the next change or restart.
4. `users_undelete` — `login()` saves (through `recordFailedLoginAttempt()` or
   after a right password) the entity it read before argon2 ran; a deletion
   committed in between is written back: address, hash, version and deletedAt.

Of the same kind, and visible by setting `MaxInFlight = 2` in
`MCEmailVerification_serial.cfg`: two right submissions are both accepted
(`CodeUsedOnce`), two issues insert two rows so that an old code is still accepted
(`OldCodeIsRefused`), two resends both send (`ResendInterval`). And by dropping
`~overlapped` in `RbacConfig`: a grant update brings a removed grant back, and a
removal cascades over a grant created after the count. And by dropping `~overlapped`
from `AddressIsProvedAlone`: `confirmEmailChange()` reads `pendingEmail` and the code
in two statements, so a second `initiateEmailChange()` in between makes the code sent
to one address confirm the other.

`PoolStalled` is not a disagreement with a document but a limit the code does not
mention: as many simultaneous wrong submissions as the pool has connections (ten by
default) wait for one more, each holding its own, and nothing ends the wait.

In `AuthSettings` a reset that finds no row locks nothing, so an overlapping patch
may set the key before the reset commits; the settings README (`null` "resets a
field: its database row is deleted") does not speak of overlaps, and the two
properties leave these resets out (`missed`) instead of refuting it.

## 5. Proofs

Every safety property the runs check is proved, except what the two `SomeoneCanMove`
say of `ENABLED`, for any sets of requests, rows, codes, names, keys and values and
any bounds; and of the two liveness properties, that the requests never all wait
(for codes: unless the pool is stalled).

| Component | Theorem | Says |
|---|---|---|
| `RefreshSessions` | `Invariance` | `Spec => []IInv` |
| | `SingleLiveSession`, `SingleWinner`, `AlarmReach`, `NoFalseAlarm`, `DeadFamilies` | the properties of `sessions_safety` |
| | `TypeCorrect`, `SoundChains`, `FinalRevocation` | types; successors form chains; revocations and successors are written once |
| | `Refinement`, `RotationKeepsItsPromise` | it implements `RotatingTokens`, whose `HeadsOK` and `NothingReturns` therefore hold of the rows |
| | `NobodyWaitsInACircle` | some request always waits for no lock |
| `BrowserSession` | `BrowserInvariance` | `BrowserSpec => []BrowserIInv` |
| | `BrowserImplementsServer` | `BrowserSpec => Spec`: the theorems above hold with a browser in front |
| | `BrowserRotatesTokens` | four of them stated for it: the refinement, one live session, one winner, dead families |
| | `AlarmUnseen`, `LogoutEnds`, `CookieWorks` | the properties of `browser_cookies` |
| `EmailVerification` | `EmailInvariance`, `EmailTypes`, `IssuedCodesInTime` | `EmailIInv`, types and `OnlyIssuedCodesInTime`, under any overlap |
| | `OnlyWrongSubmissionsStall` | under any overlap, all requests wait only if wrong submissions hold the whole pool |
| | `SerialInvariance`, `AttemptsAreBounded`, `CodeAcceptedOnce`, `ReplacedCodeIsRefused`, `ResendsKeepInterval` | the properties of `codes_serial`, under `MaxInFlight = 1` |
| | `ImplementsCode`, `CodeKeepsItsPromise` | under `MaxInFlight = 1` it implements `OneTimeCode`, whose `PendingOK` and `AcceptedForGood` therefore hold of the rows |
| `UserAccount` | `AccountInvariance`, `DeletionAndVersion`, `LockoutIsEarned` | `AccountIInv`, `DeletionMovesVersion`, `NoFalseLockout`, under any overlap |
| | `DeletionsAreFinal`, `LockoutsHold`, `AddressesAreProved` | the `...Alone` properties of `users_account` |
| | `OnlyKnownCirclesWait` | some request always waits for no lock, or PostgreSQL ends it; only a login with a confirmation of its registration or of another login, and the two steps of an email change, wait for each other |
| `RbacConfig` | `RbacInvariance`, `RbacTypes`, `GrantsOfferOnlyThat` | `RbacIInv`, types and `OnlyOfferedActions`, under any overlap |
| | `MemoryDecidesByTablesAlone`, `RemovedStaysRemoved`, `RemovalDeletesNoGrant` | the `...Alone` properties of the tables |
| `AccessDecisions` | `AccessAdministers` | `AccessSpec => Spec`: the theorems about `RbacConfig` hold while calls are decided |
| | `CallsLeaveAdministrationSafe` | the four of them that speak of the tables, stated for it |
| | `AccessInvariance`, `NothingNew`, `NothingMissing` | `AccessIInv` and the `...Alone` properties of the calls |
| | `RolesAddUp` | roles together are refused exactly what each alone is refused; no role opens a `@SelfOnly` route of somebody else |
| `AuthSettings` | `SettingsInvariance`, `LaterPatchesDecide`, `AnswersShowPatches` | `SettingsIInv` and the invariants of `settings_patches`, for any overlap |
| | `WaitsNeverCircle`, `SomePatchGoesOn` | no circle of patches that wait for each other; some open patch waits for nobody |
| `UsersList` | `ListInvariance`, `PagesAreOrdered`, `UntouchedAreListedOnce` | the invariants of `users_pages` |

**Assumptions** on the constants, all evaluated by TLC in the runs: `NULL` is none of
the values or rows a variable may hold otherwise (`NullAssumption`,
`RowsAssumption`, `AddressAssumption`, `MarksAssumption`), bounds are natural
numbers (`BoundsAssumption`, `MaxVersionAssumption`), the three kinds of ids of
`RbacConfig` differ (`IdsAssumption`), the keys of the settings are a finite set of
numbers (`KeysAssumption`: their order in the DTO), and what the list compares are
natural numbers (`NumbersAssumption`). `Requests`, `Jtis`, `Codes`, `Ids`, `Emails` and the
others may be infinite. The serial theorems about codes have the hypothesis
`OneAtATime` (`MaxInFlight = 1`), which is the instance of `codes_serial`.

Each proof has the same layout. Lemmas `...Cases` say once what a step does to the
parts of the state the properties read; `...Step` lemmas prove one conjunct of the
invariant each; the theorems follow from the invariant. What the invariants add to
the properties, and why it is needed:

**Refresh sessions.** "At most one live session per family" is not inductive: a
refresh that has locked its row is about to make another session live, and nothing
in the property says that the locked row is the live one. `IInv` adds what the
handlers rely on:

* `RowsOK` — a session belongs to the account and the version of the login that
  opened its family;
* `ChainsAreSound`, `OneTailPerFamily` — successors form chains, and each family
  has exactly one session without successor. A live session has none, so at most
  one is live;
* `RequestsOK` — what a suspended handler remembers is still so: its new identifier
  is not stored, and at "commit" its row is still live, *because* it holds the lock;
* `JtisDiffer`, `LocksExclude` — two handlers never insert the same identifier or
  hold the same row;
* `WinnersOK` — a successor was written by exactly the refresh that was told "ok",
  which gives one winner per token and the cause of the alarm;
* `AlarmsOK` — a mass revocation in flight sees every live session of the family, or
  saw one that has been rotated since.

`DeadFamilyStaysDead` follows, for a `tokenVersion` that only grows, because the only steps
that make a session live are a login, which opens a new family, and
`CommitReplace`, which trades a live session for one of the same version. The
refinement maps the head of a family to its usable session (`headBar`) and the used
identifiers to the rows: a commit of a login is `Open`, or `Waste` if the account
was deleted meanwhile; a commit of a refresh is `Rotate` or `Waste`; a logout, an
alarm and a deletion are `Close`; everything else stutters. `RotationKeepsItsPromise`
proves what the abstract tokens promise by an induction over its three actions, and
carries it over. Two handlers that wait, wait for rows a `replace()` has updated, and
`RequestsOK` says that a handler in that place only has its COMMIT left
(`NobodyWaitsInACircle`).

**The browser.** `BrowserImplementsServer` shows each call, answer and loss to be a
step of the server or a stutter, so `IInv` holds there too. `BrowserIInv` adds: an
answer the browser has is that of a call that is over, and is true (`AnswersOK`,
`OutcomesOK`); the jar and the calls only hold tokens some answer has brought
(`CookiesOK`); and the browser never returns to a token of whose rotation it has
heard (`NeverBack`). The last needs the others: an answer puts a token into the jar
that no answer had brought before, because no two calls drew the same identifier, so
no call has presented it. A theft alarm means that a refresh of that token
succeeded (`WinnersOK`), and `NeverBack` says its answer was not known: `AlarmUnseen`.
A session that was logged out either has no successor, and is then the last and
only candidate of its family (`OneTailPerFamily`), or has one that such a refresh
wrote: `LogoutEnds`. For `CookieWorks`, `JarOK` follows the only call under way: until
it is answered its cookie's session is live, unless it was answered "ok" — then
its successor is — or logged out.

**Confirmation codes.** Under overlap the question is what a row may contain when
`save()` writes only the columns that differ from what it selected again. `EmailIInv`
answers it: hash and time in every row, in every entity a request holds and in every
row it selected again are those of one committed issue (`Given`), and a confirmation
holds an entity that was in time when it looked. A save therefore moves a whole pair
or nothing of it — provided two issues do not share their time, because then only one
of the two columns differs. `PoolOK` counts the connections: `FreeConnections` is never
negative, so that a pool without a free one is one in which every connection is held;
if each holder waits for another connection, all of them are wrong submissions
(`OnlyWrongSubmissionsStall`). The first attempt to prove `OnlyIssuedCodesInTime`
failed on exactly that state; the property now says so (`SentApart`). One request at a time,
`SerialIInv` adds that there is one row (`AloneOK`), that what the request has read of it is
still so (`Sees`), and that the row knows the past of its code (`LedgerOK`):
`attemptsUsed` is at least the number of refusals, `consumed` is set if it was
accepted, no replaced code is in it. `ResendsKeepInterval` is about the step that sends:
the row then holds the time of the last code sent, and `MayResend` compared with it. The refinement maps the pending code, the refusals and
the accepted codes; a read or a failed call stutters. What `OneTimeCode` promises over
several of its steps is proved of it alone and carried over (`CodeKeepsItsPromise`).

**The account.** Every version of the row anybody holds — the stored one, the entity
of a suspended handler, the row selected again — has moved `tokenVersion` with
`deletedAt` and counts no more failures than wrong passwords were answered
(`Whole`, `Earned`). A save mixes columns of three such versions; it
nevertheless preserves both, because the columns that belong together differ together.
That is why an overlap can undo a deletion (`users_undelete`) but never separate it from
its version, and lose a failed attempt but never invent one. Without overlap `AloneOK` says
that the handler holds the row as it is but for what is its own to change (`Intends`), from
which deletions, lockouts and addresses follow. For the locks, `LocksOK` says
that the users row has one holder, and `RequestsOK` ties the purpose of the code a handler
writes to the handler (`Purposes`). Who holds the row waits at most for one code; who
holds that code waits for nobody, or is confirming it and waits for the row or its key, that
is, for the same holder — then the two are a pair PostgreSQL ends (`Victim`), and their
purposes leave only the three pairs of `OnlyKnownCircles`. Who holds a code only waits
for the holder of the row, so no circle is longer than two.

**Roles and grants.** `OnlyOfferedActions` under overlap needs what suspended
handlers are about to write (`OfferedOK`): a grant about to be saved names actions
that its permission has offered, and is about the permission its row has, since `update()` never
changes it. Without overlap, `AloneOK` says that the copy about to be
installed is the compiled tables. For the calls, `CoveredOK` and `SteadyOK` tie the
copy to the window between the reading of the names and the decision: a grant in
memory was given in the window, and what was given all through it is in memory.

**Settings.** An open transaction has written what its patch asks for as far as it
has come, except for resets that found no row (`PatchOK`), and a committed patch has decided
its keys: as a written row is locked until the commit, the later commit is also the
later write. The invariant also has what the safety half of `EveryPatchIsAnswered`
needs: a patch that has ended holds no row (`PatchOK`), and a transaction has written
nothing that comes after the key whose turn it is (`InOrder`), so whoever is waited
for is further along (`WaitsAreOrdered`, theorem `WaitsNeverCircle`) and no
waits close a circle: the open patch whose turn is the last of the keys, a finite set,
waits for nobody (`SomePatchGoesOn`). That a patch is then answered is left to TLC.

**Users list.** `ListIInv` is about the place of the cursor, not about the rows: every
item listed lies at or before the cursor, and an account nobody touched is on a page
exactly if it matches and does not lie beyond it. A page of the first rows beyond the
cursor moves that boundary without a gap, because (value, id) is a strict total order
(`BeforeTotal`, `BeforeBeyond`), whether or not the row of the cursor still exists.

TLC checked all of this before it was proved: `IInv`, `BrowserIInv`, `EmailIInv`,
`AccessIInv` with `RbacIInv`, `AccountIInv` and `ListIInv` in the runs; `SerialIInv`,
and `SettingsIInv` with `WaitsAreOrdered`, by adding them to the `.cfg` of `codes_serial` and
`settings_patches`, as were `OnlyThePoolStalls` and `SomeoneIsReady` of `AuthSettings`
in their runs. Proved and in no run of their own are these, `SoundChains` and `TypeCorrect`
(parts of `IInv`), `FinalRevocation`, the types of the other components (parts of their
invariants), and what follows from a refinement or from an operator alone.

**Only model-checked.** `EveryCallIsAnswered` and `EveryPatchIsAnswered`, because
liveness under fairness is out of the prover's reach: proved is that never all
requests wait (unless `PoolStalled`), and TLC adds that each is answered. `ReadyCanMove` (sessions and
account), the half of `SomeoneCanMove` that speaks of `ENABLED`. The violation runs
refute what they state and need no proof.

## 6. Not modelled

* **What the settings decide**: the modules other than `AuthSettings` take it as a
  free choice. Invalid stored values, which no operation can write, are left out.
* **Connections of other handlers**: the pool is counted where `REQUIRES_NEW` meets
  codes; `recordFailedLoginAttempt()` takes a second connection in the same way.
* **What a profile shows**: a function of the reader's access, without state,
  enumerated by its unit tests. `JwtAuthGuard` only lets `@Public` routes pass.
* **JWT, argon2, cookie attributes and lifetimes, SMTP, throttling, health, Swagger,
  migrations beyond what they seed, seeding by hand**: library calls, pure I/O or
  one-off scripts.
* **Malformed cursors, DTO validation and normalisation**: stateless, and they
  answer before any state is read.
* **Giving roles to an account**: no operation of the application does, apart from
  the default role at registration. That this role may have been renamed or removed
  (registration then answers 500), and that an administrator may remove the grant that
  lets anybody administer, are legal sequences without a promise to check.
* **A deletion written back, seen from the sessions**: `DeadFamilyStaysDead` and the
  refinement of `RotatingTokens` assume that `tokenVersion` only grows; see the decision
  above.

## 7. Plan

Done: `TypeOrm`, `RotatingTokens`, `RefreshSessions`, `BrowserSession`, `OneTimeCode`,
`EmailVerification` with the pool, `RbacConfig`, `AccessDecisions`, `UserAccount`,
`AuthSettings` and `UsersList`, each with the proofs of its safety properties.

What would come next:

1. `AccountSessions` — `UserAccount` with `RefreshSessions` over one `tokenVersion`,
   to state what a deletion means for sessions when an overlapping save writes the
   old version back; its invariant from `AccountIInv` and `IInv`.
2. Refinements of further abstract specifications: the account as a lifecycle
   (registered, deleted) without overlap, and the settings as a register whose
   patches are atomic, each proved step by step as `OneTimeCode` and `RotatingTokens`
   are.
