------------------------------ MODULE Accounts ------------------------------
(***************************************************************************)
(* Who is signed in: the handlers of accounts and tokens on the server     *)
(* (auth_handler.go, middleware.go, jwt.go, token_service.go), one         *)
(* browser's two cookies, and the tabs that share them, each with its own  *)
(* idea of whether it is signed in (authService.ts, main.ts).              *)
(*                                                                         *)
(* A request takes its cookie along when it is sent, is handled by the     *)
(* server at some later time, and sets cookies when the answer arrives.    *)
(* Tabs and requests go on in between; nothing orders the answers.         *)
(***************************************************************************)
EXTENDS Naturals, FiniteSets

CONSTANTS
    User,               \* ids of accounts
    Email, Password,
    Tab,
    Call,               \* requests the browser has under way at once
    None,               \* no account, no token, no request, no tab
    AccessLifetime, RefreshLifetime,
    MaxTime,            \* bound on the clock
    MaxFaults           \* bound on the faults of a behaviour

\* "firstlogin" is the login that Signup.vue asks for itself.
Op == {"signup", "login", "firstlogin", "logout", "refresh", "profile"}
TokenType == {"access", "refresh"}

\* "projects" is every page that needs a session, "welcome" the sign-up page once
\* isComplete is set.
Target == {"login", "signup", "projects"}
Page == Target \cup {"closed", "loading", "welcome"}

Account == [email : Email, password : Password]
TokenOf(type) == [type : {type}, user : User, until : Nat]
Token == [type : TokenType, user : User, until : Nat]

\* `tab` is None when the tab has been reloaded or has given up: the server goes
\* on.  `sent` is the cookie sent, `access` and `refresh` are the cookies the
\* answer sets.
CallState ==
    [op : Op, tab : Tab \cup {None}, step : {"sent", "insert", "answered"},
     email : Email \cup {None}, password : Password \cup {None},
     sent : Token \cup {None}, ok : BOOLEAN,
     access : TokenOf("access") \cup {None}, refresh : TokenOf("refresh") \cup {None}]

ASSUME AccountsAssumption ==
    /\ None \notin Account \cup Token \cup CallState \cup Tab \cup Call \cup Nat
    /\ AccessLifetime \in Nat
    /\ RefreshLifetime \in Nat
    /\ MaxTime \in Nat
    /\ MaxFaults \in Nat

VARIABLES
    users,          \* the users table
    now,            \* the clock
    access,         \* the browser's cookie Authorization
    refresh,        \* the browser's cookie RefreshToken
    call,           \* requests under way
    page,           \* per tab: what it shows
    authenticated,  \* per tab: `authenticated` of authService.ts
    waits,          \* per tab: the request its page or form waits for
    proved,         \* history: when an account's password was last given
    faults          \* faults so far

server == <<users, now, proved>>
browser == <<access, refresh, page, authenticated, waits>>
vars == <<server, browser, call, faults>>

TypeOK ==
    /\ users \in [User -> Account \cup {None}]
    /\ now \in 0..MaxTime
    /\ access \in TokenOf("access") \cup {None}
    /\ refresh \in TokenOf("refresh") \cup {None}
    /\ call \in [Call -> CallState \cup {None}]
    /\ page \in [Tab -> Page]
    /\ authenticated \in [Tab -> BOOLEAN]
    /\ waits \in [Tab -> Call \cup {None}]
    /\ proved \in [User -> 0..MaxTime \cup {None}]
    /\ faults \in 0..MaxFaults

Init ==
    /\ users = [u \in User |-> None]
    /\ now = 0
    /\ access = None
    /\ refresh = None
    /\ call = [c \in Call |-> None]
    /\ page = [t \in Tab |-> "closed"]
    /\ authenticated = [t \in Tab |-> FALSE]
    /\ waits = [t \in Tab |-> None]
    /\ proved = [u \in User |-> None]
    /\ faults = 0

Fault == faults < MaxFaults /\ faults' = faults + 1

-----------------------------------------------------------------------------
(* Tokens.                                                                  *)

\* Faulty variant: both kinds of tokens say that they are access tokens.
SignAnyAsAccess(type, u) ==
    [type |-> "access", user |-> u,
     until |-> now + (IF type = "access" THEN AccessLifetime ELSE RefreshLifetime)]

Sign(type, u) ==
    [type |-> type, user |-> u,
     until |-> now + (IF type = "access" THEN AccessLifetime ELSE RefreshLifetime)]

\* Faulty variant: the expiry is not looked at.
VerifiesForEver(token, type) == token # None /\ token.type = type

Verifies(token, type) == token # None /\ token.type = type /\ now < token.until

\* What RequireAuth and Refresh ask of a cookie.
Accepts(token, type) == Verifies(token, type) /\ users[token.user] # None

-----------------------------------------------------------------------------
(* Requests.                                                                *)
Free(c) == call[c] = None
At(c, op, step) == ~Free(c) /\ call[c].op = op /\ call[c].step = step
Becomes(c, r) == call' = [call EXCEPT ![c] = r]

Request(op, t, e, pw, token) ==
    [op |-> op, tab |-> t, step |-> "sent", email |-> e, password |-> pw,
     sent |-> token, ok |-> FALSE, access |-> None, refresh |-> None]

Stepped(r, step) == [r EXCEPT !.step = step]
Left(r) == [r EXCEPT !.tab = None]
Refused(r) == Stepped(r, "answered")
Granted(r, a, f) ==
    [r EXCEPT !.step = "answered", !.ok = TRUE, !.access = a, !.refresh = f]

-----------------------------------------------------------------------------
(* The server.                                                              *)
Having(email) == {u \in User : users[u] # None /\ users[u].email = email}

SignUpLooksUp(c) ==
    /\ At(c, "signup", "sent")
    /\ Becomes(c, IF Having(call[c].email) # {}
                  THEN Refused(call[c])
                  ELSE Stepped(call[c], "insert"))
    /\ UNCHANGED <<server, browser, faults>>

\* The error of the SELECT is not looked at: nobody seems to have the address.
SignUpLookUpFails(c) ==
    /\ At(c, "signup", "sent")
    /\ Fault
    /\ Becomes(c, Stepped(call[c], "insert"))
    /\ UNCHANGED <<server, browser>>

InsertUser(c, u) ==
    /\ users[u] = None
    /\ users' = [users EXCEPT ![u] = [email |-> call[c].email,
                                      password |-> call[c].password]]

SignUpInserts(c, u) ==
    /\ At(c, "signup", "insert")
    /\ InsertUser(c, u)
    /\ Becomes(c, Granted(call[c], None, None))
    /\ UNCHANGED <<now, proved, browser, faults>>

\* The INSERT returns an error; it may have been carried out.
SignUpInsertFails(c) ==
    /\ At(c, "signup", "insert")
    /\ Fault
    /\ UNCHANGED users \/ \E u \in User : InsertUser(c, u)
    /\ Becomes(c, Refused(call[c]))
    /\ UNCHANGED <<now, proved, browser>>

\* History: the password of u is given.
Proves(u, pw) ==
    proved' = IF users[u].password = pw THEN [proved EXCEPT ![u] = now] ELSE proved

\* Faulty variant: the password is not compared.
LoginLooksUpUnchecked(c) ==
    /\ At(c, "login", "sent") \/ At(c, "firstlogin", "sent")
    /\ \/ /\ Having(call[c].email) = {}
          /\ Becomes(c, Refused(call[c]))
          /\ UNCHANGED proved
       \/ \E u \in Having(call[c].email) :
             /\ Proves(u, call[c].password)
             /\ Becomes(c, Granted(call[c], Sign("access", u), Sign("refresh", u)))
    /\ UNCHANGED <<users, now, browser, faults>>

\* Bun takes the first row of the answer; the statement asks for no order.
LoginLooksUp(c) ==
    /\ At(c, "login", "sent") \/ At(c, "firstlogin", "sent")
    /\ \/ /\ Having(call[c].email) = {}
          /\ Becomes(c, Refused(call[c]))
          /\ UNCHANGED proved
       \/ \E u \in Having(call[c].email) :
             /\ Proves(u, call[c].password)
             /\ Becomes(c, IF users[u].password = call[c].password
                           THEN Granted(call[c], Sign("access", u), Sign("refresh", u))
                           ELSE Refused(call[c]))
    /\ UNCHANGED <<users, now, browser, faults>>

\* Faulty variant: the session slides, each refresh renews both cookies.
RefreshLooksUpSliding(c) ==
    /\ At(c, "refresh", "sent")
    /\ Becomes(c, IF Accepts(call[c].sent, "refresh")
                  THEN Granted(call[c], Sign("access", call[c].sent.user),
                                        Sign("refresh", call[c].sent.user))
                  ELSE Refused(call[c]))
    /\ UNCHANGED <<server, browser, faults>>

RefreshLooksUp(c) ==
    /\ At(c, "refresh", "sent")
    /\ Becomes(c, IF Accepts(call[c].sent, "refresh")
                  THEN Granted(call[c], Sign("access", call[c].sent.user), None)
                  ELSE Refused(call[c]))
    /\ UNCHANGED <<server, browser, faults>>

\* RequireAuth and, as the handler behind it, GetProfile.
Serves(c, u) ==
    /\ At(c, "profile", "sent")
    /\ Accepts(call[c].sent, "access")
    /\ u = call[c].sent.user
    /\ Becomes(c, Granted(call[c], None, None))

RequireAuth(c) ==
    /\ \/ \E u \in User : Serves(c, u)
       \/ /\ At(c, "profile", "sent")
          /\ ~Accepts(call[c].sent, "access")
          /\ Becomes(c, Refused(call[c]))
    /\ UNCHANGED <<server, browser, faults>>

\* A failing SELECT: Login and RequireAuth answer 401, Refresh 500.
LookUpFails(c) ==
    /\ \E op \in Op \ {"signup", "logout"} : At(c, op, "sent")
    /\ Fault
    /\ Becomes(c, Refused(call[c]))
    /\ UNCHANGED <<server, browser>>

Logout(c) ==
    /\ At(c, "logout", "sent")
    /\ Becomes(c, Granted(call[c], None, None))
    /\ UNCHANGED <<server, browser, faults>>

Handle(c) ==
    \/ SignUpLooksUp(c)
    \/ \E u \in User : SignUpInserts(c, u)
    \/ LoginLooksUp(c)
    \/ RefreshLooksUp(c)
    \/ RequireAuth(c)
    \/ Logout(c)

-----------------------------------------------------------------------------
(* The tabs send.                                                           *)

\* router.beforeEach, once the session is restored.
Guarded(to, in) ==
    IF to \in {"login", "signup"} /\ in THEN "projects"
    ELSE IF to = "projects" /\ ~in THEN "login"
    ELSE to

Shows(t, p) == page' = [page EXCEPT ![t] = p]
Awaits(t, c) == waits' = [waits EXCEPT ![t] = c]

\* A page load, the first or another: requests of the page before are aborted.
\* App.vue mounts, and the guard waits for restoreAuthentication.
Open(t, c) ==
    /\ page[t] # "loading"
    /\ Free(c)
    /\ call' = [d \in Call |->
                  IF d = c THEN Request("refresh", t, None, None, refresh)
                  ELSE IF ~Free(d) /\ call[d].tab = t THEN Left(call[d])
                  ELSE call[d]]
    /\ Shows(t, "loading")
    /\ Awaits(t, c)
    /\ authenticated' = [authenticated EXCEPT ![t] = FALSE]
    /\ UNCHANGED <<server, access, refresh, faults>>

\* A link, or the address bar's back and forward: another component is mounted.
Navigate(t, to) ==
    /\ page[t] \notin {"closed", "loading"}
    /\ Guarded(to, authenticated[t]) # page[t]
    /\ Shows(t, Guarded(to, authenticated[t]))
    /\ Awaits(t, None)
    /\ UNCHANGED <<server, access, refresh, authenticated, call, faults>>

\* The ids still to be given out cover the sign-ups under way.
RoomForSignUp ==
    Cardinality({c \in Call : ~Free(c) /\ call[c].op = "signup"})
      < Cardinality({u \in User : users[u] = None})

Submit(t, c, e, pw) ==
    /\ page[t] \in {"login", "signup"}
    /\ waits[t] = None
    /\ Free(c)
    /\ page[t] = "signup" => RoomForSignUp
    /\ Becomes(c, Request(page[t], t, e, pw, None))
    /\ Awaits(t, c)
    /\ UNCHANGED <<server, access, refresh, page, authenticated, faults>>

\* The menu of the sidebar; App.vue shows it before the first page, too.
SignOut(t, c) ==
    /\ page[t] \in {"loading", "projects"}
    /\ Free(c)
    /\ Becomes(c, Request("logout", t, None, None, None))
    /\ UNCHANGED <<server, browser, faults>>

\* The sidebar, mounted with the app, or the account page; any other request for
\* the user's data goes the same way.
GetProfile(t, c) ==
    /\ page[t] \in {"loading", "projects"}
    /\ Free(c)
    /\ Becomes(c, Request("profile", t, None, None, access))
    /\ UNCHANGED <<server, browser, faults>>

-----------------------------------------------------------------------------
(* The tabs receive.                                                        *)
Answered(c) == ~Free(c) /\ call[c].step = "answered" /\ call[c].tab # None
Succeeded(c, op) == Answered(c) /\ call[c].op = op /\ call[c].ok
Done(c) == Becomes(c, None)

\* Faulty variant: ClearAuthCookies forgets the access cookie.
StoreCookiesKeepingAccess(c) ==
    /\ access' = IF call[c].access # None THEN call[c].access ELSE access
    /\ refresh' = IF call[c].op = "logout" THEN None
                  ELSE IF call[c].refresh # None THEN call[c].refresh ELSE refresh

\* Set-Cookie of an answer that granted the request.
StoreCookies(c) ==
    /\ access' = IF call[c].op = "logout" THEN None
                 ELSE IF call[c].access # None THEN call[c].access ELSE access
    /\ refresh' = IF call[c].op = "logout" THEN None
                  ELSE IF call[c].refresh # None THEN call[c].refresh ELSE refresh

SignedIn(t, in) == authenticated' = [authenticated EXCEPT ![t] = in]

\* router.push; going where one is mounts nothing.
Push(t, p) ==
    /\ Shows(t, p)
    /\ waits' = IF p = page[t] THEN waits ELSE [waits EXCEPT ![t] = None]

\* The `finally` of the form that waits for c, if it is still there.
Release(t, c) == waits' = IF waits[t] = c THEN [waits EXCEPT ![t] = None] ELSE waits

\* The page load goes on to the address it was opened with, or was sent to since.
Restored(t, in, to) ==
    /\ SignedIn(t, in)
    /\ Shows(t, Guarded(to, in))
    /\ Awaits(t, None)

RestoreSucceeds(c, to) ==
    /\ Succeeded(c, "refresh")
    /\ StoreCookies(c)
    /\ Restored(call[c].tab, TRUE, to)
    /\ Done(c)
    /\ UNCHANGED <<server, faults>>

\* Login.vue, even when the user is on another page by now.
LoginSucceeds(c) ==
    /\ Succeeded(c, "login")
    /\ StoreCookies(c)
    /\ SignedIn(call[c].tab, TRUE)
    /\ Push(call[c].tab, "projects")
    /\ Done(c)
    /\ UNCHANGED <<server, faults>>

\* Signup.vue asks for the session of its new account.
SignUpSucceeds(c) ==
    /\ Succeeded(c, "signup")
    /\ Becomes(c, Request("firstlogin", call[c].tab, call[c].email, call[c].password, None))
    /\ UNCHANGED <<server, browser, faults>>

FirstLoginSucceeds(c) ==
    LET t == call[c].tab IN
    /\ Succeeded(c, "firstlogin")
    /\ StoreCookies(c)
    /\ SignedIn(t, TRUE)
    /\ IF waits[t] = c THEN Shows(t, "welcome") ELSE UNCHANGED page
    /\ Release(t, c)
    /\ Done(c)
    /\ UNCHANGED <<server, faults>>

\* Faulty variant: the user stays on the page.
LogoutSucceedsInPlace(c) ==
    /\ Succeeded(c, "logout")
    /\ StoreCookies(c)
    /\ SignedIn(call[c].tab, FALSE)
    /\ Done(c)
    /\ UNCHANGED <<server, page, waits, faults>>

\* While the page loads, the push waits in the guard as the load does.
LogoutSucceeds(c) ==
    /\ Succeeded(c, "logout")
    /\ StoreCookies(c)
    /\ SignedIn(call[c].tab, FALSE)
    /\ IF page[call[c].tab] = "loading"
       THEN UNCHANGED <<page, waits>>
       ELSE Push(call[c].tab, "login")
    /\ Done(c)
    /\ UNCHANGED <<server, faults>>

ProfileArrives(c) ==
    /\ Succeeded(c, "profile")
    /\ Done(c)
    /\ UNCHANGED <<server, browser, faults>>

\* Faulty variant: restoreAuthentication passes the error on to the guard.
FailedInTheGuard(c, to) ==
    /\ IF call[c].op = "refresh"
       THEN SignedIn(call[c].tab, FALSE) /\ UNCHANGED waits
       ELSE UNCHANGED authenticated /\ Release(call[c].tab, c)
    /\ UNCHANGED page

\* The `catch` of the tab: a load goes on without a session, a form waits no more.
Failed(c, to) ==
    IF call[c].op = "refresh"
    THEN Restored(call[c].tab, FALSE, to)
    ELSE Release(call[c].tab, c) /\ UNCHANGED <<page, authenticated>>

RefusalArrives(c, to) ==
    /\ Answered(c) /\ ~call[c].ok
    /\ Failed(c, to)
    /\ Done(c)
    /\ UNCHANGED <<server, access, refresh, faults>>

\* The connection breaks: before the server has answered, or while the answer is
\* read, with its cookies stored or not.
ConnectionBreaks(c, to) ==
    /\ ~Free(c) /\ call[c].tab # None
    /\ Fault
    /\ \/ UNCHANGED <<access, refresh>>
       \/ call[c].ok /\ StoreCookies(c)
    /\ Failed(c, to)
    /\ Becomes(c, Left(call[c]))
    /\ UNCHANGED server

\* The server is through with, or cancels, a request that nobody waits for.
Forget(c) ==
    /\ ~Free(c) /\ call[c].tab = None
    /\ Done(c)
    /\ UNCHANGED <<server, browser, faults>>

Tick ==
    /\ now < MaxTime
    /\ now' = now + 1
    /\ UNCHANGED <<users, proved, browser, call, faults>>

\* A cookie lives as long as its token, but from the moment it arrives: the browser
\* drops it some time after the token has run out, each cookie for itself.
CookieExpires ==
    /\ \/ access # None /\ access.until <= now /\ access' = None /\ UNCHANGED refresh
       \/ refresh # None /\ refresh.until <= now /\ refresh' = None /\ UNCHANGED access
    /\ UNCHANGED <<server, page, authenticated, waits, call, faults>>

-----------------------------------------------------------------------------
Receive(c) ==
    \/ LoginSucceeds(c) \/ SignUpSucceeds(c) \/ FirstLoginSucceeds(c)
    \/ LogoutSucceeds(c) \/ ProfileArrives(c)
    \/ \E to \in Target : RestoreSucceeds(c, to) \/ RefusalArrives(c, to)

Disturb(c) ==
    \/ SignUpLookUpFails(c) \/ SignUpInsertFails(c) \/ LookUpFails(c) \/ Forget(c)
    \/ \E to \in Target : ConnectionBreaks(c, to)

Send(t, c) ==
    \/ Open(t, c) \/ SignOut(t, c) \/ GetProfile(t, c)
    \/ \E e \in Email, pw \in Password : Submit(t, c, e, pw)

Next ==
    \/ \E c \in Call : Handle(c) \/ Receive(c) \/ Disturb(c)
    \/ \E t \in Tab, c \in Call : Send(t, c)
    \/ \E t \in Tab, to \in Target : Navigate(t, to)
    \/ Tick \/ CookieExpires

Spec == Init /\ [][Next]_vars

\* The server's goroutines run, and the browser runs what is ready.
FairSpec == Spec /\ \A c \in Call : WF_vars(Handle(c)) /\ WF_vars(Receive(c))

-----------------------------------------------------------------------------
(* Properties.                                                              *)

\* Access dies with the session, and a session is started by a password only.
\* Every token there is, in the cookies or on its way, is of an account whose
\* password was given, and runs out at most a refresh token's lifetime, and for
\* an access token one more lifetime of its own, after that.
Earned(token) ==
    token # None =>
      /\ proved[token.user] # None
      /\ token.until <= proved[token.user] + RefreshLifetime
                         + (IF token.type = "access" THEN AccessLifetime ELSE 0)

TokensEarned ==
    /\ Earned(access)
    /\ Earned(refresh)
    /\ \A c \in Call : ~Free(c) =>
          Earned(call[c].sent) /\ Earned(call[c].access) /\ Earned(call[c].refresh)

\* No request is served for a user who has not given the password for so long
\* that both lifetimes are over, however often the session was refreshed and in
\* whatever order the answers came (RequireAuth, Refresh).
SessionsEnd ==
    [][\A c \in Call, u \in User : Serves(c, u) =>
          /\ proved[u] # None
          /\ now < proved[u] + RefreshLifetime + AccessLifetime]_vars

\* Both cookies are one user's, or there is no session at all.
CookiesAgree == access # None => refresh # None /\ access.user = refresh.user

\* The browser drops the cookie of a refresh token that has run out, and keeps access.
SessionRunsOut ==
    /\ refresh # None /\ refresh.until <= now
    /\ refresh' = None /\ UNCHANGED access

\* Two things leave access without its session, and only the first mixes two users: a
\* refresh that a login of another tab or the end of the session overtook, and the end
\* of a session whose access token was refreshed shortly before.  A sign-out, a login,
\* a failure or an expired access cookie never does.
\* (Set-Cookie and Max-Age of Login, Refresh and Logout.)
OnlyLateRefreshMixes ==
    [][CookiesAgree /\ ~CookiesAgree' =>
         \/ \E c \in Call : /\ ~Free(c) /\ call[c].op = "refresh"
                            /\ call[c].sent # refresh
         \/ SessionRunsOut]_vars

\* A page that needs a session is shown only in a tab that believes to have one,
\* in whatever order logins, sign-outs and moves between pages are answered
\* (router.beforeEach, signOut, submit of Login.vue and Signup.vue).
ProtectedPagesGuarded ==
    \A t \in Tab : page[t] \in {"projects", "welcome"} => authenticated[t]

\* Every page load comes to show a page and every form is usable again, also
\* when requests fail (restoreAuthentication, `finally` of the forms).
NothingHangs ==
    \A t \in Tab, c \in Call : waits[t] = c ~> waits[t] # c

(* The tokens there are, in the cookies and on their way.                   *)
tokens ==
    ({access, refresh}
       \cup UNION {{call[c].sent, call[c].access, call[c].refresh} : c \in {d \in Call : ~Free(d)}})
      \ {None}

Promise == INSTANCE SessionPromise WITH clock <- now, given <- proved

\* Every token comes from the password of its account or from a refresh token of
\* the same account that had not run out, whatever the tabs do and in whatever order
\* requests are answered (Login, Refresh).
KeepsSessions == Promise!Spec
=============================================================================
