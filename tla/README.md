# A formal model of email-summary-tool

This directory holds TLA+ modules that model the program, TLC configurations
that check them on small instances, and proofs that TLAPS checks for every
value of the constants.

## The system

The program receives mail for projects and shows it to their owners. A Go
process serves an HTTP API (echo, port 8080) and an SMTP server (go-smtp) over
one PostgreSQL database; a Vue frontend talks to the API.

| Component | State | Operations | Module |
|---|---|---|---|
| SMTP server, `mailserver/` | per connection: envelope sender, accepted recipients | NewSession, Mail, Rcpt, Data, Reset, Logout | `InboundMail` |
| Inbound store, `services/inbound/store.go` | the `emails` table | FindProjectID, Deliver | `InboundMail`, `MailFormat` |
| Project storage, `database/models`, migrations | the `projects` table, its unique index, soft deletes | INSERT, UPDATE, soft delete | `ProjectStore` |
| Project handlers, `server/handlers/project_handlers.go/` | the requests under way | List, Get, Create, Update, Delete | `ProjectApi`, `ProjectsPage` (List) |
| Addresses, `services/inbound/address.go` | none | GenerateAddress, NormalizeAddress, AddressDomain | `Address` |
| MIME parsing, `services/inbound/parse.go` | none | Parse, clean | `MailFormat` |
| Pagination, `pkg/pagniate.go` | none | Paginate | `Pagination` |
| Email listing, `project_email_handler.go` | none | List | an answer in `ProjectDetailPage` |
| Accounts, `auth_handler.go`, `middleware.go`, `jwt.go`, `token_service.go` | the `users` table; tokens are kept by the browser only | SignUp, Login, Refresh, Logout, RequireAuth, GetProfile | `Accounts` |
| Migrations, `database/migrations/runner.go` | version and dirty flag, golang-migrate's lock | New, Up | `Startup` |
| Project page, `frontend/src/pages/ProjectDetail.vue` | per visit: what is shown, requests under way, timer, dialogs | load, refresh, poll, update, delete, leave | `ProjectDetailPage` |
| Session of the frontend, `authService.ts`, `main.ts`, `Login.vue`, `Signup.vue` | cookies; per tab: the page, the authentication flag, the form waiting | restore, guard, sign in, sign up, sign out | `Accounts` |
| Project list, `Projects.vue` | what is shown, requests under way, the dialog | load, turn pages, create | `ProjectsPage` |
| Start-up, `main/main.go`, `server/server.go` | the step a process is at | configure, connect, migrate, serve, stop | `Startup` |

How they interact: SMTP sessions and HTTP handlers share nothing but the
database. An SMTP transaction looks a recipient up in one statement (RCPT) and
stores mail in a later one (the end of DATA); a project is edited or deleted by
an HTTP request in two statements of its own (SELECT, then UPDATE). None of
them runs in a database transaction or takes a lock, so everything in between
can interleave. A fatal error of either server ends the process, and the
sending mail servers outside retry what was not acknowledged.

What is hard about it, and what each component must get right:

* **Mail** must not be lost once it was acknowledged, must reach the project
  that owns the address, must not mix two transactions of a connection, must not
  be bounced by a passing failure, and must be settled in the end. At-least-once
  delivery makes duplicates unavoidable; the claim is that only faults cause
  them.
* **Projects** must keep an address for ever (even deleted), be written by
  their owner only, and a positive answer must be true.
* **The project page** waits for answers while the user, the timer and other
  tabs go on: late answers must not take it back, it must keep polling while it is
  open and stop when it is not, and no button may stay busy.
* **Accounts**: the tabs of a browser share two cookies that answers to any of
  them set in any order, and each has its own idea of being signed in. Access
  must need the password and end in time, one user's cookies must not mix with
  another's, and no page load may hang.
* **The project list** is read in two statements that no transaction holds
  together, and the page adds to it what it created itself: list and total must
  stay true without another load.
* **Start-up**: a deployment starts a release beside another one. Whatever fails,
  migrations must run once and in order, who serves must have the migrations of its
  release (those merged late, which are never run, excepted), and no start may hang.
* **Text**: mail must find its project however its address is spelled, and what a
  sender writes should not make PostgreSQL refuse the row, for every retry would fail
  again. One thing does: a Date of the year 0.

## Modules

### `ProjectStore` — the projects table

One variable, `projects`: a row or `NoRow` for each key. `InsertProject`,
`SetContent` and `SoftDelete` are the three statements of the handlers, with the
ownership condition (`VisibleTo`), Bun's soft-delete condition (`Active`) and
the unique index over all rows (`Taken`). It serves twice: as the environment
of the mail server (`ProjectStep` of `InboundMail`) and as the abstract
specification that `ProjectApi` implements.

A row's `content` stands for title, description and status; timestamps are
left out.

### `InboundMail` — SMTP sessions, the inbound store, and the senders

* `phase`, `from`, `recipients`, `raw` are the session: go-smtp's transaction
  state, the fields of `session` and the local variable of `Data`.
* `emails` is the table; `transfers` counts INSERTs, so that
  `<<transfer, item>>` stands for a row's generated key.
* `sending`, `tried`, `accepted`, `queue`, `delivered`, `bounced` are the
  sending mail servers: the transaction they are in, and per message the
  recipients still queued, acknowledged, and given up.

Actions: `Connect` (NewSession), `Mail`, `RcptAccepted` / `RcptUnknown` (550) /
`RcptFails` (451) / `RcptTooMany` (452, by go-smtp), `Rset` and `Abort` (Reset),
`Data` / `DataTooLarge` / `DataUnread` (ReadAll and its errors, which are answered with
552 and 554), `Deliver` / `DeliverRefused` / `DeliverFails` (the INSERT; `Unstorable` are
the messages whose row PostgreSQL never takes, see `MailFormat`; another failure
may leave the rows behind), `AnsweredOk` / `AnsweredTemporary` /
`AnsweredPermanent` / `AnswerLost` (the answer, then Reset), `Drop`,
`DropInData` (Deliver goes on, under `context.Background()`), `Crash`, and
`ProjectStep` (any HTTP write). RCPT and DATA are separate steps because the
program releases everything in between; FindProjectID and Deliver are single
steps because each is one SQL statement.

Assumptions about the outside: go-smtp refuses RCPT before MAIL and DATA before
an accepted RCPT, calls Reset after DATA, on RSET and EHLO, and answers 452
beyond MaxRecipients; a sender works on one message on one connection at a time,
asks for each recipient once per transaction, and keeps to RFC 5321 in what it
does with 250, 4xx and 5xx.

### `MailPromise` — what senders may rely on

Three variables (who owns which address, the copies stored, the recipients
acknowledged) and three steps: a project comes into being, one transfer stores
copies of one message all at once, recipients are acknowledged when one transfer
has stored a copy for each of them. `InboundMail` implements it (`KeepsPromise`)
with the refinement mapping at its end: sessions, answers and failures vanish.

### `ProjectApi` — the HTTP handlers

One variable `request` per handler goroutine: the statement it is at, the
attempt, the answer. `Begin` is Bind and the checks before the first statement,
then `Inserted` / `AddressTaken` / `InsertFails` (Create and its retry loop),
`Selected` / `SelectFails` (Get, Update, Delete), `Written` / `WriteFails` (the
UPDATE or soft delete; the number of rows is not looked at), `Finish`, `Crash`.
A malformed id is answered like an unknown one and has no action of its own.

### `ProjectDetailPage` — the page of one project

One instance of the page per visit (`App.vue` keys it by the path), with what it
shows (`project`, `emails`), who waits for `load`, `isRefreshing`, the timer, and
the two dialogs (`editing` is isEditOpen with isUpdating, `deleting` is
isDeleteOpen with isDeleting). Each `await` splits its function in two actions:
the part before it sends a request (`call`, `refreshes`), the server answers it
when it likes (`Answer`, `AnswerRefresh`) or it fails (`CallFails`,
`RefreshFails`), and the part after it runs then (`LoadSucceeds`, `LoadFails`,
`RefreshAnswered`, `UpdateAnswered`, `DeleteFailed`, `Deleted`), even when the
page was left. Around it, mail arrives and another tab edits or deletes.
`Leave`, `Open` and `Replaced` unmount the page shown. `access` says whether the server
takes the browser's access cookie: it lives for 15 minutes and the session is restored
once per page load, so a page that stays open is refused whatever it asks for from then
on (`Refused`), unless another page of the browser brings the cookie back
(`AccessChanges`).

An answer is computed in one step of the server; what happens inside an Update
or a Delete is the subject of `ProjectApi`. An Update answered 200 although its row was
removed after its SELECT is one whose row is removed right after it: nothing the page
sees tells the two apart. The guard of the router has nothing
to wait for once a session was restored and is left out.

### `Accounts` — who is signed in

* `users` and `now` are the server's: the table and the clock that tokens are
  judged by. The server keeps no sessions.
* `access` and `refresh` are the browser's cookies `Authorization` and
  `RefreshToken`; `page`, `authenticated` and `waits` are per tab: what it shows,
  the flag of `authService.ts`, and the request its page or form waits for.
* `call` holds the requests under way, each with the cookie it was sent with and
  the cookies its answer sets. `proved` is history: when the password of an
  account was last given.

The server: `SignUpLooksUp` and `SignUpInserts` are two statements, and the error
of the first is dropped (`SignUpLookUpFails`); `users.email` has no unique index, so
two accounts can have one address, and `LoginLooksUp` then gets any of them.
`RefreshLooksUp` sets a new access cookie and leaves the refresh cookie,
`RequireAuth` is the middleware with the handler behind it (`Serves`), `Logout`
clears both cookies. The tabs send: `Open` (a page load, whose guard waits for
`restoreAuthentication`), `Navigate` (the guard afterwards), `Submit`, `SignOut`
(the sidebar is there while the first page loads, too) and `GetProfile`. The browser drops
a cookie when its Max-Age is over (`CookieExpires`). The tabs
receive: `RestoreSucceeds`, `LoginSucceeds`, `SignUpSucceeds` (which asks for
the first login), `FirstLoginSucceeds`, `LogoutSucceeds`, `ProfileArrives`,
`RefusalArrives`, and `ConnectionBreaks`, with the answer's cookies stored or not.

`SessionPromise` is what stands behind it: a clock, when each password was last given,
and the tokens there are, wherever they are. A token comes from a password or from a
refresh token of the same account that has not run out; any may get lost. `Accounts`
implements it (`KeepsSessions`): `tokens` collects those in the cookies and in every
request under way, and all else vanishes.

Abstractions: `projects` stands for every page that needs a session, `welcome` for
the sign-up page once `isComplete` is set. The address a load is opened with is
chosen when the load is over, as pages may be pushed meanwhile. Cookies are set
and the tab goes on in one step: in between, only the cookies could be read,
and a request sent then could as well be sent right after. `RoomForSignUp` keeps
a sign-up from running out of ids, which the database never does. Accounts are
never deleted by this program.

### `Startup` — a start, and the migrations it applies

`pc`, `release` and `todo` are per process: the statement it is at, the binary it runs
and the migration at hand. `recorded` and `dirty` are the row of the table
`migrations`, `holder` the session lock golang-migrate takes in PostgreSQL, and
`applied` is history: the migrations whose SQL was committed, in order.

`Starts`, `Connects` (configuration and ping), `EnsuresTable` (`New`: waits for the
lock however long), `Locks` / `LockTimesOut` (15 s) and `Reads` (a dirty table or a
version without a file ends the start), then for each pending migration `Marks`,
`Runs`, `Clears`, then `Listens`. `Stops` ends a process anywhere, for an error or
a crash, with the statement at hand carried out or not. `Embedded` says which
migrations a release carries; it is any function, so a release may have a migration with
an earlier timestamp that the one before it did not have (a branch merged late),
or lack the latest one (a rollback).

Migrations with a statement that cannot run in a transaction do not exist in `sql/`
and are left out, as are the `down` files, which the program never runs.

### `Pagination` and `ProjectsPage` — the list of projects

`Pagination` is `Paginate` on machine integers (`MaxInt` bounds them): the defaults,
the offset with its overflow, and the rows that LIMIT and OFFSET select, given
that Bun leaves both out unless they are positive.

`ProjectsPage` is the page over it: `result`, `load` (the request under way with
what List has read so far), `error`, `requested`, `open` and `create`; `isLoading` and
`isCreating` are the flags that disable its buttons, set before a request and reset in
`finally` (`StopLoading`, `StopCreating`). List is two
actions, `Selects` (any order: the query has none) and `Counts` / `CountFails`.
`LoadSucceeds` and `CreateSucceeds` run after the awaits; the latter puts the project in
front of the list and counts it, without loading again. `OtherCreates` and
`OtherDeletes` are other tabs. `fresh` and `calm` are history, and say of what the
page shows, and of the load under way, that nothing else was written meanwhile.

### `Address` and `MailFormat` — what is made of text

`Address` describes an address by what surrounds it, its case and its domain, and
says what GenerateAddress, NormalizeAddress and AddressDomain make of that.
`MailFormat` follows one message: RCPT (`RcptFound`, `RcptUnknown`), `ReadHeader`,
`ReadPart` and `Stops` / `EndOfMessage` (Parse), `Inserts` (Deliver). A text is the
word that can be read in it, if any, whether it holds something that a
TEXT column refuses (`Clean` takes that away), and whether it is whole: `readBody` cuts
a body at maxBodyBytes. The date of the header is missing, fine, or one that Go has and
PostgreSQL has not. CreateReader reads a message or fails (`top`), the latter for a
header it cannot make out, or for an encoding it does not know behind a readable one.

### Proof modules

`ProjectStoreProofs` (the table), `InboundMailProofs` (the mail side: its invariants, its
action properties and refinement, and the copies of a message), `MailFormatProofs`,
`ProjectApiProofs`, `AccountsProofs`, `StartupProofs`, `ProjectDetailPageProofs` and
`ProjectsPageProofs`, see below.

Definitions commented *Faulty variant* in the modules are not part of the model:
each is a mutation of the definition that follows it, kept to show that the
properties notice it.

## Runs

Each module with runs has an `MC` module of its name.

| Run | Instance | Checks |
|---|---|---|
| `mail_safety` | 2 sessions, 2 messages, 2 projects, 2 faults | `TypeOK`, `MailReachesOwner`, `OneCopyPerTransfer`, `NothingLeaks`, `AckedIsStored`, `CopiesExplained`, `KeepsPromise` |
| `mail_live` | one domain not ours, one oversized message, one that cannot be stored, 1 fault, fairness | `EveryMessageSettles`, `NoFalseBounce` |
| `mail_deleted` | no fault | `OnlyExistingProjectsGetMail` is violated |
| `api_requests` | 2 handlers, 2 users, 2 projects, 2 addresses, 3 contents, 1 fault, fairness | `TypeOK`, `AddressesUnique`, `OneProjectPerCreate`, `ConfirmedIsDone`, `StoreSpec`, `OnlyOwnerWrites`, `EveryRequestEnds` |
| `api_lostrow` | no fault | `ConfirmedWritesFindTheirRow` is violated |
| `page` | 1 visit, 3 emails, 2 edits, 2 failing requests, access that comes and goes, fairness | `OpenPagePolls`, `DeletedPageStops`, `ShownNeverGoesBack`, `MailShowsUp`, `NothingStaysBusy`, `DeleteSettles` |
| `page_leak` | 2 visits, no fault | `PollsOnlyWhileOpen` is violated |
| `accounts_safety` | 2 tabs, 2 accounts of one address, 2 requests at once, lifetimes of 1 and 2 | `TypeOK`, `ProtectedPagesGuarded`, `KeepsSessions`, `SessionsEnd`, `OnlyLateRefreshMixes` |
| `accounts_live` | 1 tab, 1 account, 2 passwords, 1 fault, fairness | `TokensEarned`, `NothingHangs` |
| `startup_deploy` | 2 processes, 4 releases, 4 migrations, 4 starts, fairness | `ServesItsSchema`, `AppliedOnceInOrder`, `StartsEnd` |
| `projects_list` | 4 projects on pages of 2, integers up to 4, 1 fault, 1 change elsewhere, fairness | `TypeOK`, `ShownIsTrue`, `NothingStaysBusy` |
| `mail_text` | every address and domain, messages of up to 3 parts with any date, bodies of any length | `MailFindsAddress`, `NoTextIsRefused`, `ReadableIsKept` |

Bounds. `MaxFaults` bounds crashes, lost connections and database errors
together; two are enough for a message to be stored, lost as an answer,
retried and interrupted again (`mail_safety`). One is enough where they interrupt a message
beside others that are refused or tried for ever (`mail_live`). Message `m1` names one address in two spellings
and a second address, and `MaxRecipients = 2`, so that duplicates within a
transaction, two projects in one transfer and a 452 all happen. Two sessions
are the least at which a delivery outlives its connection and races its retry.
`Attempts` is 2 (5 in the code): a taken address, a retry, and running out of
attempts all happen. `MaxCreates` bounds the requests that grow the table.
Symmetry is used for safety only (invariants, action properties and the safety
part of a refinement), over sets the modules treat alike. On the project page one
visit is enough for the run, for the safety properties are proved for any number
(`page_leak` has two); three emails, two edits and two failures let an older answer
arrive after a newer one and a failure follow a failure. `Startup` has
a release with the first migrations, one with more, one with a migration merged
late, and the last; two processes, so that a start waits for another's lock. `ProjectsPage` has
two pages of two and a bound of 4 on integers, so that every page and every product that
overflows is among the parameters. In `MailFormat` three parts are the least at which a
second body, an attachment and a broken part come in every order.
All runs check for deadlock but two: the processes of `startup_deploy` have a bounded
number of starts, and a message of `mail_text` ends.
In `Accounts` lifetimes are 1 and 2 and the clock runs to 3 (to 2 in `accounts_live`),
so that a refreshed access token outlives the refresh token it came from and runs
out, too, within a behaviour; two tabs and two requests under way are the least at which an answer is
overtaken by one of another tab, and two accounts the least that can mix. The
second password, which makes wrong ones possible, is in the smaller instance, and so is the
fault: what fails changes no cookie but by being answered late or not at all, and the
proofs of the safety properties hold for any number of faults.

Fairness. `Fairness` in `InboundMail` asks that the server's steps happen (a
goroutine that is not blocked runs; the contexts of 5 s and 30 s and the
connection timeouts of a minute end what is), that a sender goes on with the
dialogue it began, and that it retries what stays queued (strong fairness of
`Mail`, since other traffic may keep connections busy now and then). Faults are not fair
and are finite in number. In `ProjectApi` it asks that each handler takes its next
step. In `ProjectDetailPage` it asks that each request is answered (or fails: the
connection ends at some point), that the browser runs what is ready, and that
the timer fires; the user need do nothing. In `Accounts` it asks that the server
handles a request and that the browser takes an answer that has arrived; time
need not pass and nobody need click. In `ProjectsPage` a request is answered or fails. In
`Startup` a process that can go on does, and `EnsuresTable` is strongly fair: PostgreSQL
queues those who wait for an advisory lock, so one that is free again and again is
taken. Nothing asks that a process starts, or that it never crashes.

## What the violated runs show

* `mail_deleted`: README.md:172 promises that mail is accepted "only for existing
  project addresses". Rcpt checks this; Deliver does not check it again, so a
  project deleted between RCPT and the end of DATA gets a row and the sender a
  250.
* `api_lostrow`: Update and Delete answer 200 and 204 when another request
  deleted the project after their SELECT, though the statement changed no row;
  `tests/projects_test.go` expects 404 of a project that is not there.
* `page_leak`: a comment at `ProjectDetail.vue:17` says that mail is checked for
  "while the page is open". A page that is left during its first load clears its
  timer before there is one; the watcher then starts it, and nothing stops it.

Create never evaluates the tags `validate:"required"` of `CreateProjectRequest` either
(it binds and checks the status only), so blank names and descriptions are stored;
`Accepted` of `ProjectApi` says so.

What follows are behaviours a reader should know of. They are not findings of a run.
Properties are stated so that they name them, or the hazards in `PROJECT.json` say why
none does.

* A sender that is slow within DATA runs into `ReadTimeout`. Data returns the error of
  ReadAll as it is, go-smtp answers any error that is no `SMTPError` with 554, and the
  accepted recipients bounce (`DataUnread`; `NoFalseBounce` names it). An INSERT that
  fails is answered with 451 instead.
* A Date of the year 0 parses, is not the zero time, and is refused by PostgreSQL, so the
  sender is answered 451 until it gives up (`NoTextIsRefused` names it,
  `DeliverRefused` carries it out).
* `Parse` excuses an unknown charset of the whole message but not an unknown
  Content-Transfer-Encoding: such a message, if it has no parts, loses its readable header as
  well, although the comment at `parse.go:36-38` says that a partly broken message
  "still returns whatever could be read". It is stored all the same, and its raw bytes
  are kept (`ReadableIsKept` names it).
* A project page that stays open for more than 15 minutes shows no more mail: its polls
  are answered 401 and nothing refreshes the cookie, although the page says at
  `ProjectDetail.vue:262` that new mail appears by itself (`MailShowsUp` ends with
  `access`). A project deleted in another tab does not stop the page either; its polls
  fail from then on.
* `confirmDelete` resets `isDeleting` only after an error. After a success the page is
  left, which is why `NothingStaysBusy` holds.
* List selects without an ORDER BY (`project_handler.go:40-44`), so that the pages of a list
  need not be pages of one order: a project may be on two of them, or none. `Pages` lets a
  page hold any rows, and nothing is claimed of two pages together.

The runs of `Accounts` show two more behaviours a reader should know of. They are not
findings, since nothing in the repository denies them, and the properties are
stated so that they name them: two sign-ups at once leave two accounts of one
address (each keeps its own projects, which go by id, but a login looks at
either row and may refuse the right password of the other), and a refresh that is answered after a sign-out or another tab's
login leaves an access cookie of the old session behind
(`OnlyLateRefreshMixes`), for one access lifetime at most (`SessionsEnd`). An access cookie
also outlives its session when it was refreshed shortly before the refresh cookie ran out
(`SessionRunsOut`).

The same holds of what the newer modules name in their properties. A load of the project list
that overlaps a create shows the new project twice or counts it twice, a COUNT
that fails shows a total of 0 and hides the pages, and a later page that has become empty says "No
projects yet" (`ShownIsTrue` excludes the first two). Negative values of `page` and
`page_size`, and products beyond the machine integer, select other rows than the
page they name (`PagesPartition` excludes them; it is about positions in the list). A migration merged after a later one was
deployed is skipped for ever (`MergedLate` in `ServesItsSchema`), and a start that
failed within a migration leaves the table dirty, so that every later start exits until
somebody repairs it. A domain configured with blanks, brackets or an "@" makes addresses that
no mail reaches (`Plain` in `MailFindsAddress`).

## What is proved

`InboundMailProofs` proves, for any sets of sessions, messages, projects and
addresses and any bounds, from the assumptions `MailAssumption` and
`NoRowAssumption` alone: `TypeOK`, `MailReachesOwner`, `AckedIsStored`,
`OneCopyPerTransfer`, `NothingLeaks` and `CopiesExplained`.

None of the claims about mail is inductive. That an acknowledged recipient is stored depends on
what the session remembered while the answer was under way, so the inductive
invariant `IInv` adds `TransactionsConsistent`: recipients in a session are
owned by the project they were resolved to (`RecipientsOwned`), the sender's
idea of the transaction is covered by the session's (`SenderAgrees`), the
message read is the one MAIL announced (`RawIsFromSender`), a 250 that is on its
way is backed by one transfer (`OkIsStored`), and transfer numbers are not ahead
of the counter. Three facts carry the argument: rows and their addresses stay
(`StepKeepsRows`), stored mail stays (`EmailsStay`), and dropping duplicates
leaves every listed project one recipient (`FirstExists`). Every other session
is untouched by a session's step (`OthersUntouched`, `OthersConsistent`).

It also proves that `InboundMail` implements `MailPromise` (`PromiseKept`), and the
action property `NoFalseBounce`, for the same constants. Every step is one that stores (`StoreRefines`: the
project's INSERT, `InsertRefines`: Deliver), one that tells the sender 250
(`AnswerRefines`), or changes nothing the promise speaks of; the invariant
`IInv` supplies that an acknowledgement is covered by one transfer, and what the
sender believes of an answer under way (`SenderAgrees`) is what makes a bounce
right.

That a project has a message more than once only for a fault (`CopiesExplained`) is a
balance. A copy is paid for by a spelling of the project's address that was acknowledged
(`Settled`), by an answer of 250 on its way to the sender (`AnswerDue`), or by a
fault; a session that still delivers for a sender who has gone (`Strays`) has
its fault behind it and its copy ahead. `Accounted` says, for each message and
project, that copies and strays together do not exceed faults, settled spellings and the
answer due. Each step keeps the balance: Deliver adds a copy and owes an answer
(`CopyAdded`), a 250 settles a spelling that was not settled before (`OkSettles`, which
needs `DialogueConsistent`: what a sender asks for in a transaction is still queued), a
lost connection or a crash is a fault that pays for what the sender will now repeat
(`SenderGone`, `CrashPays`). `CopiesInv` adds it to `IInv`. TLC checked it on small
instances first. Counting needs
that a message has finitely many recipients, which `MailAssumption` says.

`MailFormatProofs` proves, for any words and headers and messages of any number of
parts, from `FormatAssumption`: `TypeOK`, `MailFindsAddress`, `NoTextIsRefused` and
`ReadableIsKept`. `FindsSpelling` decides which spellings are found. For the text, the
invariant (`ReadInv`) says that `parsed` holds what the parts before `next` and the header
say (`Kept`), that no part before `next` is broken, that nothing soiled is left once Parse
has returned (`Unsoiled`), and that there is a date only if the header was read
(`DateKept`), which leaves the date as the only thing an INSERT can fail for. `ReadableIsKept` speaks of parts by their place (`Place` counts the
listed parts up to one), so that no recursion is needed: a part that is read leaves the
places before it as they are (`PlacesExtended`), and when the reading ends the
parts read are the readable ones (`ReadAll`).

`ProjectStoreProofs` proves `AddressesUnique` and `RowsAreStable` of the table
alone. `ProjectApiProofs` proves, for any numbers of handlers, users, projects,
attempts and faults, that `ProjectApi` implements `ProjectStore`, so that both
hold of the handlers too; and `TypeOK`, `StatusIsValid`, `OnlyOwnerWrites`,
`OneProjectPerCreate` and `ConfirmedIsDone`. Each needs what a request relies on between two
statements. `RequestsConsistent` says that content about to be written was
checked, and that the row about to be written was selected for this user and is
still theirs; it is inductive because rows keep their owner (`StepKeepsRows`).
`CreatesCovered` counts rows and requests that are about to insert against the
Create requests begun. `AnswersTrue` says that requests of Create name rows of
their own. From `ConfirmedIsDone` it is visible why an unchecked number of rows
does no harm to Delete: the row is gone either way.

`AccountsProofs` proves, for any numbers of accounts, tabs and requests, any
lifetimes and bounds, from `AccountsAssumption`: `TypeOK`, `TokensEarned`,
`SessionsEnd`, `OnlyLateRefreshMixes` and `ProtectedPagesGuarded`. That access ends
is not visible from the cookies alone, since a token may be anywhere on its way:
`IInv` says of every request under way (`Sound`) that each token it carries was
earned (`EarnedBy`), and which cookies its answer may set for whom (`SetsCookies`):
a login both, of one user; a refresh the access cookie only, of the user whose
token it was sent with. A refresh thus prolongs access by one lifetime but never the session
(`RefreshStep`). The clock only goes on, so earned tokens stay earned
(`EarnedStays`); passwords were given in the past (`ProvedBefore`). From
`SetsCookies` it follows that cookies mix only when a refresh is answered after the
cookie it was sent with was replaced; a cookie that the browser drops can only leave
access without its session, and only the refresh cookie does
(`CookieExpiresStep`). `SessionsKept` proves that `Accounts` implements
`SessionPromise`: a step that touches one request makes no tokens but those of the
request (`TokensOfOneCall`), so only Login and Refresh can make any. `PagesAreGuarded` needs no more than types: each
step that shows a protected page sets or has read the flag.

`StartupProofs` proves `TypeOK`, `ServesItsSchema` and `AppliedOnceInOrder` for any
processes, releases and migrations, from `StartupAssumption`. The inductive invariant
says what a process relies on between two statements (`ProcessSound`: whoever migrates
holds the lock, the migration at hand is the next of its release, and nothing before it
is missing unless it was merged late), what the table of versions means
(`RecordSound`: nothing later than the recorded version was applied, and that one was
unless the table is dirty), and that every applied migration came from a release that had
what precedes it (`SchemaCovered`), which makes the recorded version alone enough
for a binary that finds it among its files.

`ProjectDetailPageProofs` proves `TypeOK`, `OpenPagePolls`, `DeletedPageStops` and
`ShownNeverGoesBack` for any number of visits, emails and failures. `TimersRight` is
the two claims about timers together. `Orders` says what an instance does not do at once
(it sends no refresh while one is under way, no update while it loads), `Freshness` that
what it shows is no newer than the answers under way to a later question, and those no newer than the
rows. `EditsCounted`
bounds the versions by the edits begun, counting the updates that the server has still
to carry out.

`ProjectsPageProofs` proves `TypeOK`, `ShownIsTrue` and `PagesArePartition` for any
projects, sizes of pages and machine integers, from `PaginationAssumption` and
`PageAssumption`. That the flags say what is under way (`FlagsRight`), which is what keeps
requests from overlapping, is part of the invariant. `PagesArePartition` is arithmetic on
positions, and no claim about List, whose query has no order: without overflow the offset is what
Paginate computed (`WrappedFits`), and a position lies on the page that division gives.
`ShownIsTrue` says nothing while a create is under way, so the invariant relates
the page to the rows without the one that is made and not yet shown (`FreshShown`), and
says of a load that nothing disturbed what it has read (`CalmLoads`). `WithIsTrue` is the heart
of it: a full first page stays full, and a later one never grows too long.

Only model-checked: liveness (`EveryMessageSettles`, `EveryRequestEnds`, `MailShowsUp`,
`NothingStaysBusy`, `DeleteSettles`, `NothingHangs`, `StartsEnd`), which the prover does not
reach. Every other property of a passing run is a theorem. `TypeOK` of
`Startup`, `ProjectDetailPage` and `MailFormat`, and `StatusIsValid` and `RowsAreStable` of the
projects, and `PagesPartition` are proved and in no run.

## Plan

1. `ProjectStore`, `MailPromise`, `InboundMail`, `ProjectApi` and the invariant
   of `InboundMail`: done.
2. Proofs of `KeepsPromise`, `CopiesExplained`, `NoFalseBounce`; of the invariants
   of `ProjectStore` and of `ProjectApi` implementing it: done.
3. `ProjectDetailPage`, its safety proved for any visits: done. `ProjectsPage` with
   `Pagination`: modelled and its safety proved.
4. `Accounts` (sign-up race, token lifetimes, refresh against logout, the
   navigation guard): modelled and its safety proved, `SessionPromise` included.
5. `Startup` (lock, dirty flag, crash, late timestamps, older binary): done and proved.
6. `Address`, `MailFormat`: done and proved.
7. `System`: mail, projects and a page that polls, composed. The email listing's limit
   of 100 belongs there.

## Not modelled

The wording of answers and logs (the migration logger included), rendering, HTTP and
SMTP syntax, and timestamps; the stateless wrappers (`apiRequest`'s parsing, `responses.go`,
`validator.go`), which appear as the answers they give; the email reader, forms and
formatting of the frontend; test fixtures and scripts.
Echo, go-smtp, Bun, PostgreSQL and the browser are modelled from how the program
uses them.
