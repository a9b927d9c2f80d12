---------------------------- MODULE AccountsProofs ----------------------------
(***************************************************************************)
(* Proofs about Accounts, for any numbers of accounts, tabs and requests,  *)
(* any lifetimes and any bounds.                                           *)
(***************************************************************************)
EXTENDS Accounts, TLAPS

-----------------------------------------------------------------------------
(* What is known of a request, whatever its state.  `pr` stands for proved. *)
EarnedBy(pr, token) ==
    token # None =>
      /\ pr[token.user] # None
      /\ token.until <= pr[token.user] + RefreshLifetime
                        + (IF token.type = "access" THEN AccessLifetime ELSE 0)

LoginOp == {"login", "firstlogin"}

\* A sign-up carries an address and a password.
Filled(r) == r.op = "signup" => r.email \in Email /\ r.password \in Password

\* Only a granted login sets both cookies, of one user; only a granted refresh sets
\* one, of the user whose token it was sent with.
SetsCookies(r) ==
    /\ ~r.ok \/ r.op \in {"signup", "logout", "profile"} => r.access = None /\ r.refresh = None
    /\ r.op \in LoginOp /\ r.ok => /\ r.access # None /\ r.refresh # None
                                   /\ r.access.user = r.refresh.user
    /\ r.op = "refresh" /\ r.ok => /\ r.access # None /\ r.refresh = None /\ r.sent # None
                                   /\ r.access.user = r.sent.user

Sound(pr, r) ==
    /\ r \in CallState
    /\ Filled(r)
    /\ SetsCookies(r)
    /\ EarnedBy(pr, r.sent) /\ EarnedBy(pr, r.access) /\ EarnedBy(pr, r.refresh)

CallsSound == \A c \in Call : call[c] # None => Sound(proved, call[c])

\* Passwords were given in the past.
ProvedBefore == \A u \in User : proved[u] # None => proved[u] \in 0..now

IInv ==
    /\ TypeOK
    /\ ProvedBefore
    /\ CallsSound
    /\ EarnedBy(proved, access)
    /\ EarnedBy(proved, refresh)

-----------------------------------------------------------------------------
(* How a request is updated.                                                *)
LEMMA NewRequest ==
  ASSUME NEW op \in Op, NEW t \in Tab, NEW e \in Email \cup {None},
         NEW pw \in Password \cup {None}, NEW token \in Token \cup {None},
         NEW pr, EarnedBy(pr, token),
         op = "signup" => e \in Email /\ pw \in Password
  PROVE  Sound(pr, Request(op, t, e, pw, token))
<1>. DEFINE r == Request(op, t, e, pw, token)
<1>1. r \in CallState
  BY DEF Request, CallState
<1>2. Filled(r) /\ SetsCookies(r)
  BY DEF Request, Filled, SetsCookies, LoginOp
<1>3. EarnedBy(pr, r.sent) /\ EarnedBy(pr, r.access) /\ EarnedBy(pr, r.refresh)
  BY DEF Request, EarnedBy
<1>. QED
  BY <1>1, <1>2, <1>3 DEF Sound

LEMMA SteppedRequest ==
  ASSUME NEW pr, NEW r, Sound(pr, r), NEW step \in {"sent", "insert", "answered"}
  PROVE  Sound(pr, Stepped(r, step))
<1>. DEFINE s == Stepped(r, step)
<1>1. /\ s \in CallState /\ s.op = r.op /\ s.email = r.email /\ s.password = r.password
      /\ s.sent = r.sent /\ s.ok = r.ok /\ s.access = r.access /\ s.refresh = r.refresh
  BY DEF Sound, Stepped, CallState
<1>. HIDE DEF s
<1>2. Sound(pr, s)
  BY <1>1 DEF Sound, Filled, SetsCookies
<1>. QED
  BY <1>2 DEF s

LEMMA LeftRequest ==
  ASSUME NEW pr, NEW r, Sound(pr, r)
  PROVE  Sound(pr, Left(r))
<1>. DEFINE s == Left(r)
<1>1. /\ s \in CallState /\ s.op = r.op /\ s.email = r.email /\ s.password = r.password
      /\ s.sent = r.sent /\ s.ok = r.ok /\ s.access = r.access /\ s.refresh = r.refresh
  BY DEF Sound, Left, CallState
<1>. HIDE DEF s
<1>2. Sound(pr, s)
  BY <1>1 DEF Sound, Filled, SetsCookies
<1>. QED
  BY <1>2 DEF s

LEMMA GrantedRequest ==
  ASSUME NEW pr, NEW r, Sound(pr, r),
         NEW a \in TokenOf("access") \cup {None}, NEW f \in TokenOf("refresh") \cup {None},
         EarnedBy(pr, a), EarnedBy(pr, f),
         r.op \in {"signup", "logout", "profile"} => a = None /\ f = None,
         r.op \in LoginOp => a # None /\ f # None /\ a.user = f.user,
         r.op = "refresh" => a # None /\ f = None /\ r.sent # None /\ a.user = r.sent.user
  PROVE  Sound(pr, Granted(r, a, f))
<1>. DEFINE s == Granted(r, a, f)
<1>1. /\ s \in CallState /\ s.op = r.op /\ s.email = r.email /\ s.password = r.password
      /\ s.sent = r.sent /\ s.ok = TRUE /\ s.access = a /\ s.refresh = f
  BY DEF Sound, Granted, CallState, TokenOf
<1>. HIDE DEF s
<1>2. Filled(s) /\ SetsCookies(s)
  BY <1>1 DEF Sound, Filled, SetsCookies, LoginOp
<1>3. Sound(pr, s)
  BY <1>1, <1>2 DEF Sound
<1>. QED
  BY <1>3 DEF s

\* Tokens that were earned stay earned when passwords are given again.
Later(pr) ==
    \A u \in User : proved[u] # None => pr[u] # None /\ pr[u] \in Nat /\ proved[u] <= pr[u]

LEMMA EarnedStays ==
  ASSUME IInv, NEW pr, Later(pr), NEW token \in Token \cup {None}, EarnedBy(proved, token)
  PROVE  EarnedBy(pr, token)
<1>. SUFFICES ASSUME token # None
              PROVE  EarnedBy(pr, token)
  BY DEF EarnedBy
<1>1. token.user \in User /\ token.until \in Nat
  BY DEF Token
<1>2. proved[token.user] \in Nat
  BY <1>1 DEF EarnedBy, IInv, ProvedBefore, TypeOK
<1>. QED
  BY <1>1, <1>2, AccountsAssumption DEF EarnedBy, Later

LEMMA SoundStays ==
  ASSUME IInv, NEW pr, Later(pr), NEW r, Sound(proved, r)
  PROVE  Sound(pr, r)
<1>1. r.sent \in Token \cup {None} /\ r.access \in Token \cup {None} /\ r.refresh \in Token \cup {None}
  BY DEF Sound, CallState, TokenOf, Token, TokenType
<1>. QED
  BY <1>1, EarnedStays DEF Sound

\* A step that touches one request.
LEMMA OneCall ==
  ASSUME IInv, Later(proved'), NEW c \in Call, NEW r,
         Becomes(c, r), r = None \/ Sound(proved', r)
  PROVE  CallsSound' /\ call' \in [Call -> CallState \cup {None}]
<1>1. call' \in [Call -> CallState \cup {None}]
  BY DEF Becomes, Sound, IInv, TypeOK
<1>2. ASSUME NEW d \in Call, call'[d] # None
      PROVE  Sound(proved', call'[d])
  <2>1. CASE d = c
    BY <1>2, <2>1 DEF Becomes, IInv, TypeOK
  <2>2. CASE d # c
    <3>1. call'[d] = call[d]
      BY <2>2 DEF Becomes, IInv, TypeOK
    <3>. QED
      BY <1>2, <3>1, SoundStays DEF IInv, CallsSound
  <2>. QED
    BY <2>1, <2>2
<1>. QED
  BY <1>1, <1>2 DEF CallsSound

LEMMA SameProved ==
  ASSUME IInv, UNCHANGED proved
  PROVE  Later(proved')
  BY DEF Later, IInv, ProvedBefore, TypeOK

-----------------------------------------------------------------------------
(* IInv is inductive.                                                       *)
LEMMA FaultType ==
  ASSUME TypeOK, Fault \/ UNCHANGED faults
  PROVE  faults' \in 0..MaxFaults
  BY AccountsAssumption DEF TypeOK, Fault

\* A step of a request that touches nothing the server keeps.
LEMMA BrowserStep ==
  ASSUME IInv, NEW c \in Call, NEW r, Becomes(c, r), r = None \/ Sound(proved, r),
         UNCHANGED server, Fault \/ UNCHANGED faults,
         access' \in TokenOf("access") \cup {None}, EarnedBy(proved, access'),
         refresh' \in TokenOf("refresh") \cup {None}, EarnedBy(proved, refresh'),
         page' \in [Tab -> Page], authenticated' \in [Tab -> BOOLEAN],
         waits' \in [Tab -> Call \cup {None}]
  PROVE  IInv'
<1>1. Later(proved') /\ proved' = proved
  BY SameProved DEF server
<1>2. CallsSound' /\ call' \in [Call -> CallState \cup {None}]
  BY <1>1, OneCall
<1>3. TypeOK'
  BY <1>2, FaultType DEF IInv, TypeOK, server
<1>4. ProvedBefore'
  BY DEF IInv, ProvedBefore, server
<1>. QED
  BY <1>1, <1>2, <1>3, <1>4 DEF IInv

LEMMA CallStep ==
  ASSUME IInv, NEW c \in Call, NEW r, Becomes(c, r), r = None \/ Sound(proved, r),
         UNCHANGED <<server, browser>>, Fault \/ UNCHANGED faults
  PROVE  IInv'
  BY BrowserStep DEF browser, IInv, TypeOK

LEMMA SoundCall ==
  ASSUME IInv, NEW c \in Call, ~Free(c)
  PROVE  Sound(proved, call[c]) /\ call[c] \in CallState
  BY DEF IInv, CallsSound, Free, Sound

LEMMA SignedToken ==
  ASSUME TypeOK, NEW u \in User, NEW type \in TokenType
  PROVE  /\ Sign(type, u) \in TokenOf(type) /\ Sign(type, u) # None
         /\ Sign(type, u).user = u /\ Sign(type, u).type = type
         /\ Sign(type, u).until
              = now + (IF type = "access" THEN AccessLifetime ELSE RefreshLifetime)
<1>1. Sign(type, u) \in TokenOf(type) /\ Sign(type, u) \in Token
  BY AccountsAssumption DEF Sign, TokenOf, Token, TypeOK
<1>. QED
  BY <1>1, AccountsAssumption DEF Sign

\* Where the tabs may be.
LEMMA TabTypes ==
  ASSUME TypeOK, NEW t \in Tab, NEW c \in Call
  PROVE  /\ \A p \in Page : Shows(t, p) => page' \in [Tab -> Page]
         /\ \A d \in Call \cup {None} : Awaits(t, d) => waits' \in [Tab -> Call \cup {None}]
         /\ \A in \in BOOLEAN : SignedIn(t, in) => authenticated' \in [Tab -> BOOLEAN]
         /\ Release(t, c) => waits' \in [Tab -> Call \cup {None}]
         /\ \A p \in Page : Push(t, p) => waits' \in [Tab -> Call \cup {None}]
                                       /\ page' \in [Tab -> Page]
  BY DEF TypeOK, Shows, Awaits, SignedIn, Release, Push

LEMMA GuardedPage ==
  ASSUME NEW to \in Target, NEW in \in BOOLEAN
  PROVE  Guarded(to, in) \in Page
  BY DEF Guarded, Target, Page

LEMMA RestoredTypes ==
  ASSUME TypeOK, NEW t \in Tab, NEW in \in BOOLEAN, NEW to \in Target, Restored(t, in, to)
  PROVE  /\ page' \in [Tab -> Page] /\ authenticated' \in [Tab -> BOOLEAN]
         /\ waits' \in [Tab -> Call \cup {None}]
  BY GuardedPage DEF TypeOK, Restored, SignedIn, Shows, Awaits

LEMMA CookiesStored ==
  ASSUME IInv, NEW c \in Call, ~Free(c), StoreCookies(c)
  PROVE  /\ access' \in TokenOf("access") \cup {None} /\ EarnedBy(proved, access')
         /\ refresh' \in TokenOf("refresh") \cup {None} /\ EarnedBy(proved, refresh')
<1>1. Sound(proved, call[c]) /\ call[c] \in CallState
  BY SoundCall
<1>2. EarnedBy(proved, None)
  BY DEF EarnedBy
<1>. QED
  BY <1>1, <1>2 DEF StoreCookies, Sound, CallState, IInv, TypeOK

\* The server.
LEMMA LoginStep ==
  ASSUME IInv, NEW c \in Call, LoginLooksUp(c)
  PROVE  IInv'
<1>1. ~Free(c) /\ call[c].op \in LoginOp /\ Sound(proved, call[c])
  BY SoundCall DEF LoginLooksUp, At, LoginOp
<1>2. UNCHANGED <<users, now, browser, faults>>
  BY DEF LoginLooksUp
<1>3. CASE UNCHANGED proved /\ Becomes(c, Refused(call[c]))
  BY <1>1, <1>2, <1>3, CallStep, SteppedRequest DEF Refused, server
<1>4. ASSUME NEW u \in Having(call[c].email), Proves(u, call[c].password),
             Becomes(c, IF users[u].password = call[c].password
                        THEN Granted(call[c], Sign("access", u), Sign("refresh", u))
                        ELSE Refused(call[c]))
      PROVE  IInv'
  <2>1. u \in User
    BY DEF Having
  <2>2. CASE users[u].password # call[c].password
    BY <1>1, <1>2, <1>4, <2>2, CallStep, SteppedRequest DEF Proves, Refused, server
  <2>3. CASE users[u].password = call[c].password
    <3>1. proved' = [proved EXCEPT ![u] = now]
      BY <1>4, <2>3 DEF Proves
    <3>2. now \in Nat /\ now \in 0..MaxTime /\ now # None
      BY AccountsAssumption DEF IInv, TypeOK
    <3>3. Later(proved') /\ proved'[u] = now
      BY <2>1, <3>1, <3>2 DEF Later, IInv, ProvedBefore, TypeOK
    <3>. DEFINE a == Sign("access", u)
                f == Sign("refresh", u)
    <3>4. /\ a \in TokenOf("access") /\ a # None /\ a.user = u /\ a.type = "access"
          /\ a.until = now + AccessLifetime
          /\ f \in TokenOf("refresh") /\ f # None /\ f.user = u /\ f.type = "refresh"
          /\ f.until = now + RefreshLifetime
      BY <2>1, SignedToken DEF IInv, TokenType
    <3>. HIDE DEF a, f
    <3>5. EarnedBy(proved', a) /\ EarnedBy(proved', f)
      BY <3>2, <3>3, <3>4, AccountsAssumption DEF EarnedBy
    <3>6. Sound(proved', call[c])
      BY <1>1, <3>3, SoundStays
    <3>7. Sound(proved', Granted(call[c], a, f))
      BY <1>1, <3>4, <3>5, <3>6, GrantedRequest DEF LoginOp
    <3>8. Becomes(c, Granted(call[c], a, f))
      BY <1>4, <2>3 DEF a, f
    <3>9. CallsSound' /\ call' \in [Call -> CallState \cup {None}]
      BY <3>3, <3>7, <3>8, OneCall
    <3>10. TypeOK'
      BY <1>2, <2>1, <3>1, <3>2, <3>9 DEF IInv, TypeOK, browser
    <3>11. ProvedBefore'
      BY <1>2, <2>1, <3>1, <3>2 DEF IInv, ProvedBefore, TypeOK
    <3>12. EarnedBy(proved', access) /\ EarnedBy(proved', refresh)
      BY <3>3, EarnedStays DEF IInv, TypeOK, TokenOf, Token, TokenType
    <3>. QED
      BY <1>2, <3>9, <3>10, <3>11, <3>12 DEF IInv, browser
  <2>. QED
    BY <2>2, <2>3
<1>. QED
  BY <1>3, <1>4 DEF LoginLooksUp

LEMMA SignUpStep ==
  ASSUME IInv, NEW c \in Call,
         \/ SignUpLooksUp(c) \/ SignUpLookUpFails(c)
         \/ SignUpInsertFails(c) \/ \E u \in User : SignUpInserts(c, u)
  PROVE  IInv'
<1>1. /\ ~Free(c) /\ call[c].op = "signup"
      /\ Sound(proved, call[c]) /\ call[c] \in CallState
  BY SoundCall DEF SignUpLooksUp, SignUpLookUpFails, SignUpInsertFails, SignUpInserts, At
<1>2. CASE SignUpLooksUp(c) \/ SignUpLookUpFails(c)
  BY <1>1, <1>2, CallStep, SteppedRequest DEF SignUpLooksUp, SignUpLookUpFails, Refused
<1>3. CASE SignUpInsertFails(c) \/ \E u \in User : SignUpInserts(c, u)
  <2>1. PICK r : Becomes(c, r) /\ Sound(proved, r)
    <3>1. Sound(proved, Refused(call[c]))
      BY <1>1, SteppedRequest DEF Refused
    <3>2. Sound(proved, Granted(call[c], None, None))
      BY <1>1, GrantedRequest DEF EarnedBy, LoginOp
    <3>. QED
      BY <1>3, <3>1, <3>2 DEF SignUpInsertFails, SignUpInserts
  <2>2. UNCHANGED <<now, proved, browser>> /\ (Fault \/ UNCHANGED faults)
    BY <1>3 DEF SignUpInsertFails, SignUpInserts
  <2>3. users' \in [User -> Account \cup {None}]
    <3>1. call[c].email \in Email /\ call[c].password \in Password
      BY <1>1 DEF Sound, Filled
    <3>2. \A u \in User : InsertUser(c, u) => users' \in [User -> Account \cup {None}]
      BY <3>1 DEF InsertUser, Account, IInv, TypeOK
    <3>. QED
      BY <1>3, <3>2 DEF SignUpInsertFails, SignUpInserts, IInv, TypeOK
  <2>4. CallsSound' /\ call' \in [Call -> CallState \cup {None}]
    BY <2>1, <2>2, SameProved, OneCall
  <2>5. TypeOK'
    BY <2>2, <2>3, <2>4, FaultType DEF IInv, TypeOK, browser
  <2>. QED
    BY <2>2, <2>4, <2>5 DEF IInv, ProvedBefore, browser
<1>. QED
  BY <1>2, <1>3

LEMMA RefreshStep ==
  ASSUME IInv, NEW c \in Call, RefreshLooksUp(c)
  PROVE  IInv'
<1>1. ~Free(c) /\ call[c].op = "refresh" /\ Sound(proved, call[c]) /\ call[c] \in CallState
  BY SoundCall DEF RefreshLooksUp, At
<1>2. UNCHANGED <<server, browser, faults>>
  BY DEF RefreshLooksUp
<1>3. CASE ~Accepts(call[c].sent, "refresh")
  BY <1>1, <1>2, <1>3, CallStep, SteppedRequest DEF RefreshLooksUp, Refused
<1>4. CASE Accepts(call[c].sent, "refresh")
  <2>1. PICK old : old = call[c].sent
    OBVIOUS
  <2>2. /\ old \in Token /\ old # None /\ old.user \in User /\ old.until \in Nat
        /\ old.type = "refresh" /\ now < old.until /\ EarnedBy(proved, old)
    BY <1>1, <1>4, <2>1 DEF Accepts, Verifies, CallState, Token, Sound
  <2>. DEFINE a == Sign("access", old.user)
  <2>3. /\ a \in TokenOf("access") /\ a # None /\ a.user = old.user /\ a.type = "access"
        /\ a.until = now + AccessLifetime
    BY <2>2, SignedToken DEF IInv, TokenType
  <2>. HIDE DEF a
  <2>4. proved[old.user] \in Nat /\ now \in Nat
    BY <2>2 DEF EarnedBy, IInv, ProvedBefore, TypeOK
  <2>5. EarnedBy(proved, a) /\ EarnedBy(proved, None)
    BY <2>2, <2>3, <2>4, AccountsAssumption DEF EarnedBy
  <2>6. Sound(proved, Granted(call[c], a, None))
    BY <1>1, <2>1, <2>2, <2>3, <2>5, GrantedRequest DEF LoginOp
  <2>7. Becomes(c, Granted(call[c], a, None))
    BY <1>4, <2>1 DEF RefreshLooksUp, a
  <2>. QED
    BY <1>2, <2>6, <2>7, CallStep
<1>. QED
  BY <1>3, <1>4

LEMMA OtherAnswers ==
  ASSUME IInv, NEW c \in Call, RequireAuth(c) \/ Logout(c) \/ LookUpFails(c) \/ Forget(c)
  PROVE  IInv'
<1>1. ~Free(c) /\ Sound(proved, call[c])
  BY SoundCall DEF RequireAuth, Serves, Logout, LookUpFails, Forget, At
<1>2. Sound(proved, Refused(call[c]))
  BY <1>1, SteppedRequest DEF Refused
<1>3. CASE RequireAuth(c) \/ Logout(c)
  <2>1. call[c].op \in {"profile", "logout"}
    BY <1>3 DEF RequireAuth, Serves, Logout, At
  <2>2. Sound(proved, Granted(call[c], None, None))
    BY <1>1, <2>1, GrantedRequest DEF EarnedBy, LoginOp
  <2>. QED
    BY <1>2, <1>3, <2>2, CallStep DEF RequireAuth, Serves, Logout
<1>4. CASE LookUpFails(c)
  BY <1>2, <1>4, CallStep DEF LookUpFails
<1>5. CASE Forget(c)
  BY <1>5, CallStep DEF Forget, Done
<1>. QED
  BY <1>3, <1>4, <1>5

\* The tabs send.
LEMMA OpenStep ==
  ASSUME IInv, NEW t \in Tab, NEW c \in Call, Open(t, c)
  PROVE  IInv'
<1>1. UNCHANGED <<server, access, refresh, faults>> /\ Later(proved')
  BY SameProved DEF Open, server
<1>2. Sound(proved, Request("refresh", t, None, None, refresh))
  BY NewRequest DEF IInv, TypeOK, Op, Token, TokenOf, TokenType
<1>3. ASSUME NEW d \in Call, call'[d] # None
      PROVE  Sound(proved, call'[d])
  <2>1. CASE d = c
    BY <1>2, <2>1 DEF Open
  <2>2. CASE d # c /\ ~Free(d) /\ call[d].tab = t
    BY <2>2, SoundCall, LeftRequest DEF Open
  <2>3. CASE d # c /\ (Free(d) \/ call[d].tab # t)
    <3>1. call'[d] = call[d]
      BY <2>3 DEF Open
    <3>. QED
      BY <1>3, <3>1, SoundCall DEF Free
  <2>. QED
    BY <2>1, <2>2, <2>3
<1>4. call' \in [Call -> CallState \cup {None}]
  <2>1. \A d \in Call : call'[d] \in CallState \cup {None}
    BY <1>3 DEF Sound
  <2>2. PICK f : call' = [d \in Call |-> f[d]]
    BY DEF Open
  <2>. QED
    BY <2>1, <2>2
<1>5. page' \in [Tab -> Page] /\ waits' \in [Tab -> Call \cup {None}]
  BY TabTypes DEF Open, IInv, Page
<1>6. authenticated' \in [Tab -> BOOLEAN]
  BY DEF Open, IInv, TypeOK
<1>7. TypeOK'
  BY <1>1, <1>4, <1>5, <1>6 DEF IInv, TypeOK, server
<1>. QED
  BY <1>1, <1>3, <1>7 DEF IInv, ProvedBefore, CallsSound, server

LEMMA SendStep ==
  ASSUME IInv, NEW t \in Tab, NEW c \in Call,
         \/ SignOut(t, c) \/ GetProfile(t, c)
         \/ \E e \in Email, pw \in Password : Submit(t, c, e, pw)
  PROVE  IInv'
<1>0. EarnedBy(proved, None) /\ access \in Token \cup {None} /\ EarnedBy(proved, access)
  BY DEF EarnedBy, IInv, TypeOK, Token, TokenOf, TokenType
<1>1. CASE SignOut(t, c)
  BY <1>0, <1>1, NewRequest, CallStep DEF SignOut, Op
<1>2. CASE GetProfile(t, c)
  BY <1>0, <1>2, NewRequest, CallStep DEF GetProfile, Op
<1>3. ASSUME NEW e \in Email, NEW pw \in Password, Submit(t, c, e, pw)
      PROVE  IInv'
  <2>1. page[t] \in {"login", "signup"}
    BY <1>3 DEF Submit
  <2>2. Sound(proved, Request(page[t], t, e, pw, None))
    BY <1>0, <2>1, NewRequest DEF Op
  <2>3. waits' \in [Tab -> Call \cup {None}]
    BY <1>3, TabTypes DEF Submit, IInv
  <2>. QED
    BY <1>3, <2>2, <2>3, BrowserStep DEF Submit, IInv, TypeOK
<1>. QED
  BY <1>1, <1>2, <1>3

LEMMA NavigateStep ==
  ASSUME IInv, NEW t \in Tab, NEW to \in Target, Navigate(t, to)
  PROVE  IInv'
<1>1. page' \in [Tab -> Page]
  BY GuardedPage DEF Navigate, Shows, IInv, TypeOK
<1>2. waits' \in [Tab -> Call \cup {None}]
  BY DEF Navigate, Awaits, IInv, TypeOK
<1>3. TypeOK'
  BY <1>1, <1>2 DEF Navigate, IInv, TypeOK, server
<1>. QED
  BY <1>3 DEF Navigate, IInv, ProvedBefore, CallsSound, server

LEMMA TickStep ==
  ASSUME IInv, Tick
  PROVE  IInv'
<1>1. TypeOK'
  BY AccountsAssumption DEF Tick, IInv, TypeOK, browser
<1>2. ProvedBefore'
  BY AccountsAssumption DEF Tick, IInv, TypeOK, ProvedBefore
<1>. QED
  BY <1>1, <1>2 DEF Tick, IInv, CallsSound, browser

LEMMA CookieExpiresStep ==
  ASSUME IInv, CookieExpires
  PROVE  IInv'
<1>1. TypeOK'
  BY DEF CookieExpires, IInv, TypeOK, server
<1>2. ProvedBefore' /\ CallsSound'
  BY DEF CookieExpires, IInv, ProvedBefore, CallsSound, server
<1>3. EarnedBy(proved, access)' /\ EarnedBy(proved, refresh)'
  BY DEF CookieExpires, IInv, EarnedBy, server
<1>. QED
  BY <1>1, <1>2, <1>3 DEF IInv

\* The tabs receive.
LEMMA FailedTypes ==
  ASSUME IInv, NEW c \in Call, ~Free(c), call[c].tab # None, NEW to \in Target, Failed(c, to)
  PROVE  /\ page' \in [Tab -> Page] /\ authenticated' \in [Tab -> BOOLEAN]
         /\ waits' \in [Tab -> Call \cup {None}]
<1>1. call[c].tab \in Tab
  BY SoundCall DEF CallState
<1>2. CASE call[c].op = "refresh"
  <2>1. Restored(call[c].tab, FALSE, to)
    BY <1>2 DEF Failed
  <2>. QED
    BY <1>1, <2>1, RestoredTypes DEF IInv
<1>3. CASE call[c].op # "refresh"
  BY <1>1, <1>3 DEF Failed, Release, IInv, TypeOK
<1>. QED
  BY <1>2, <1>3

LEMMA ReceiveStep ==
  ASSUME IInv, NEW c \in Call, Receive(c)
  PROVE  IInv'
<1>1. /\ ~Free(c) /\ call[c].tab \in Tab /\ call[c].tab # None
      /\ Sound(proved, call[c]) /\ call[c] \in CallState
  <2>1. Answered(c)
    BY DEF Receive, LoginSucceeds, SignUpSucceeds, FirstLoginSucceeds, LogoutSucceeds,
           ProfileArrives, RestoreSucceeds, RefusalArrives, Succeeded
  <2>. QED
    BY <2>1, SoundCall DEF Answered, CallState
<1>2. TypeOK /\ {"projects", "login", "welcome"} \subseteq Page
  BY DEF IInv, Page, Target
<1>3. ASSUME StoreCookies(c), Done(c), UNCHANGED <<server, faults>>,
             page' \in [Tab -> Page], authenticated' \in [Tab -> BOOLEAN],
             waits' \in [Tab -> Call \cup {None}]
      PROVE  IInv'
  BY <1>1, <1>3, CookiesStored, BrowserStep DEF Done
<1>4. CASE LoginSucceeds(c)
  BY <1>1, <1>2, <1>3, <1>4, TabTypes DEF LoginSucceeds
<1>5. CASE SignUpSucceeds(c)
  <2>. DEFINE r == Request("firstlogin", call[c].tab, call[c].email, call[c].password, None)
  <2>1. Sound(proved, r)
    BY <1>1, NewRequest DEF Op, CallState, EarnedBy
  <2>. HIDE DEF r
  <2>2. Becomes(c, r) /\ UNCHANGED <<server, browser, faults>>
    BY <1>5 DEF SignUpSucceeds, r
  <2>. QED
    BY <2>1, <2>2, CallStep
<1>6. CASE FirstLoginSucceeds(c)
  <2>1. page' \in [Tab -> Page]
    BY <1>1, <1>2, <1>6, TabTypes DEF FirstLoginSucceeds, TypeOK
  <2>2. authenticated' \in [Tab -> BOOLEAN] /\ waits' \in [Tab -> Call \cup {None}]
    BY <1>1, <1>2, <1>6, TabTypes DEF FirstLoginSucceeds
  <2>. QED
    BY <1>3, <1>6, <2>1, <2>2 DEF FirstLoginSucceeds
<1>7. CASE LogoutSucceeds(c)
  BY <1>1, <1>2, <1>3, <1>7, TabTypes DEF LogoutSucceeds, TypeOK
<1>8. CASE ProfileArrives(c)
  BY <1>8, CallStep DEF ProfileArrives, Done
<1>9. ASSUME NEW to \in Target, RestoreSucceeds(c, to)
      PROVE  IInv'
  BY <1>1, <1>2, <1>3, <1>9, RestoredTypes DEF RestoreSucceeds
<1>10. ASSUME NEW to \in Target, RefusalArrives(c, to)
       PROVE  IInv'
  BY <1>1, <1>10, FailedTypes, BrowserStep DEF RefusalArrives, Done, IInv, TypeOK
<1>. QED
  BY <1>4, <1>5, <1>6, <1>7, <1>8, <1>9, <1>10 DEF Receive

LEMMA BreaksStep ==
  ASSUME IInv, NEW c \in Call, NEW to \in Target, ConnectionBreaks(c, to)
  PROVE  IInv'
<1>1. ~Free(c) /\ call[c].tab # None /\ Sound(proved, call[c])
  BY SoundCall DEF ConnectionBreaks
<1>2. /\ access' \in TokenOf("access") \cup {None} /\ EarnedBy(proved, access')
      /\ refresh' \in TokenOf("refresh") \cup {None} /\ EarnedBy(proved, refresh')
  BY <1>1, CookiesStored DEF ConnectionBreaks, IInv, TypeOK
<1>3. /\ page' \in [Tab -> Page] /\ authenticated' \in [Tab -> BOOLEAN]
      /\ waits' \in [Tab -> Call \cup {None}]
  BY <1>1, FailedTypes DEF ConnectionBreaks
<1>4. Sound(proved, Left(call[c]))
  BY <1>1, LeftRequest
<1>. QED
  BY <1>2, <1>3, <1>4, BrowserStep DEF ConnectionBreaks

LEMMA InitIInv == Init => IInv
<1>. SUFFICES ASSUME Init
              PROVE  IInv
  OBVIOUS
<1>1. TypeOK
  BY AccountsAssumption DEF Init, TypeOK, Page
<1>. QED
  BY <1>1 DEF Init, IInv, ProvedBefore, CallsSound, EarnedBy

LEMMA IInvStep == IInv /\ [Next]_vars => IInv'
<1>. SUFFICES ASSUME IInv, [Next]_vars
              PROVE  IInv'
  OBVIOUS
<1>1. ASSUME NEW c \in Call, Handle(c)
      PROVE  IInv'
  BY <1>1, SignUpStep, LoginStep, RefreshStep, OtherAnswers DEF Handle
<1>2. ASSUME NEW c \in Call, Disturb(c)
      PROVE  IInv'
  BY <1>2, SignUpStep, OtherAnswers, BreaksStep DEF Disturb
<1>3. ASSUME NEW t \in Tab, NEW c \in Call, Send(t, c)
      PROVE  IInv'
  BY <1>3, OpenStep, SendStep DEF Send
<1>4. CASE UNCHANGED vars
  BY <1>4 DEF vars, server, browser, IInv, TypeOK, ProvedBefore, CallsSound
<1>. QED
  BY <1>1, <1>2, <1>3, <1>4, ReceiveStep, NavigateStep, TickStep, CookieExpiresStep DEF Next

-----------------------------------------------------------------------------
(* The theorems.                                                            *)

\* The inductive invariant holds in every reachable state: types, what a request
\* on its way may carry, and where each token comes from (Login, Refresh).
THEOREM Invariance == Spec => []IInv
<1>. QED
  BY InitIInv, IInvStep, PTL DEF Spec

\* The variables keep their types; an access token is never kept as a refresh
\* token or the other way round (signToken, SetAccessCookie, SetRefreshCookie).
THEOREM TypeCorrect == Spec => []TypeOK
<1>1. IInv => TypeOK
  BY DEF IInv
<1>. QED
  BY <1>1, Invariance, PTL

\* Every token is earned with a password and runs out in time after it (Login,
\* Refresh, signToken).
THEOREM OnlyEarnedTokens == Spec => []TokensEarned
<1>1. IInv => TokensEarned
  BY DEF IInv, CallsSound, Sound, Free, TokensEarned, Earned, EarnedBy
<1>. QED
  BY <1>1, Invariance, PTL

\* RequireAuth serves nobody whose last password is older than both lifetimes.
THEOREM EverySessionEnds == Spec => SessionsEnd
<1>. DEFINE Fresh == \A c \in Call, u \in User : Serves(c, u) =>
                        /\ proved[u] # None
                        /\ now < proved[u] + RefreshLifetime + AccessLifetime
<1>1. IInv => Fresh
  <2>. SUFFICES ASSUME IInv, NEW c \in Call, NEW u \in User, Serves(c, u)
                PROVE  /\ proved[u] # None
                       /\ now < proved[u] + RefreshLifetime + AccessLifetime
    OBVIOUS
  <2>1. PICK token : token = call[c].sent
    OBVIOUS
  <2>2. Sound(proved, call[c])
    BY SoundCall DEF Serves, At
  <2>3. /\ token \in Token /\ token # None /\ token.type = "access" /\ token.user = u
        /\ now < token.until /\ EarnedBy(proved, token)
    BY <2>1, <2>2 DEF Serves, Accepts, Verifies, Sound, CallState
  <2>4. proved[u] \in Nat /\ proved[u] # None /\ now \in Nat /\ token.until \in Nat
    BY <2>3 DEF EarnedBy, IInv, ProvedBefore, TypeOK, Token
  <2>. QED
    BY <2>3, <2>4, AccountsAssumption DEF EarnedBy
<1>2. IInv /\ [Next]_vars => [Fresh]_vars
  BY <1>1
<1>. QED
  BY <1>2, Invariance, PTL DEF Spec, SessionsEnd

\* Storing the cookies of an answer keeps both cookies one user's, unless it is the
\* answer to a refresh that was sent with another refresh cookie.
LEMMA StoredCookiesAgree ==
  ASSUME IInv, CookiesAgree, NEW c \in Call, ~Free(c), StoreCookies(c),
         call[c].op = "refresh" => call[c].ok /\ call[c].sent = refresh
  PROVE  CookiesAgree'
<1>1. SetsCookies(call[c]) /\ call[c] \in CallState
  BY SoundCall DEF Sound
<1>2. CASE call[c].op = "logout"
  BY <1>2 DEF StoreCookies, CookiesAgree
<1>3. CASE call[c].op \in {"signup", "profile"}
  BY <1>1, <1>3 DEF SetsCookies, StoreCookies, CookiesAgree
<1>4. CASE call[c].op \in LoginOp
  BY <1>1, <1>4 DEF SetsCookies, StoreCookies, CookiesAgree, LoginOp
<1>5. CASE call[c].op = "refresh"
  BY <1>1, <1>5 DEF SetsCookies, StoreCookies, CookiesAgree, LoginOp
<1>. QED
  BY <1>1, <1>2, <1>3, <1>4, <1>5 DEF CallState, Op, LoginOp

\* Nothing but StoreCookies and the end of a cookie touches the cookies.
LEMMA CookiesTouched ==
  ASSUME [Next]_vars, ~CookieExpires, ~UNCHANGED <<access, refresh>>
  PROVE  \E c \in Call : ~Free(c) /\ call[c].ok /\ StoreCookies(c)
<1>1. PICK c \in Call :
        \/ Receive(c)
        \/ \E to \in Target : ConnectionBreaks(c, to)
  BY DEF Next, vars, server, browser, Handle, SignUpLooksUp, SignUpInserts, LoginLooksUp,
         RefreshLooksUp, RequireAuth, Logout, Disturb, SignUpLookUpFails, SignUpInsertFails,
         LookUpFails, Forget, Send, Open, SignOut, GetProfile, Submit, Navigate, Tick
<1>. QED
  BY <1>1 DEF Receive, LoginSucceeds, SignUpSucceeds, FirstLoginSucceeds, LogoutSucceeds,
              ProfileArrives, RestoreSucceeds, RefusalArrives, ConnectionBreaks,
              Succeeded, Answered, browser

\* Sessions of two users are mixed, or outlive a sign-out, only by a refresh that
\* was overtaken; otherwise access is left alone only when its session's cookie ran out
\* (Set-Cookie and Max-Age of Login, Refresh, Logout).
THEOREM OnlyRacesMix == Spec => OnlyLateRefreshMixes
<1>. DEFINE Late == CookiesAgree /\ ~CookiesAgree' =>
                      \/ \E c \in Call : /\ ~Free(c) /\ call[c].op = "refresh"
                                         /\ call[c].sent # refresh
                      \/ SessionRunsOut
<1>1. IInv /\ [Next]_vars => Late
  <2>. SUFFICES ASSUME IInv, [Next]_vars, CookiesAgree, ~CookiesAgree'
                PROVE  \/ \E c \in Call : /\ ~Free(c) /\ call[c].op = "refresh"
                                          /\ call[c].sent # refresh
                       \/ SessionRunsOut
    OBVIOUS
  <2>1. ~UNCHANGED <<access, refresh>>
    BY DEF CookiesAgree
  <2>2. CASE CookieExpires
    BY <2>2 DEF CookieExpires, CookiesAgree, SessionRunsOut
  <2>3. CASE ~CookieExpires
    <3>1. PICK c \in Call : ~Free(c) /\ call[c].ok /\ StoreCookies(c)
      BY <2>1, <2>3, CookiesTouched
    <3>. QED
      BY <3>1, StoredCookiesAgree
  <2>. QED
    BY <2>2, <2>3
<1>. QED
  BY <1>1, Invariance, PTL DEF Spec, OnlyLateRefreshMixes

-----------------------------------------------------------------------------
(* Pages and the flag of a tab.                                             *)

\* A tab that comes to a page with the flag in hand.
LEMMA TabGuarded ==
  ASSUME TypeOK, ProtectedPagesGuarded, NEW t \in Tab,
         \A s \in Tab \ {t} : page'[s] = page[s] /\ authenticated'[s] = authenticated[s],
         page'[t] \in {"projects", "welcome"} => authenticated'[t]
  PROVE  ProtectedPagesGuarded'
  BY DEF ProtectedPagesGuarded

LEMMA RestoredGuarded ==
  ASSUME TypeOK, ProtectedPagesGuarded, NEW t \in Tab, NEW in \in BOOLEAN, NEW to \in Target,
         Restored(t, in, to)
  PROVE  ProtectedPagesGuarded'
<1>1. \A s \in Tab \ {t} : page'[s] = page[s] /\ authenticated'[s] = authenticated[s]
  BY DEF Restored, SignedIn, Shows, TypeOK
<1>2. page'[t] = Guarded(to, in) /\ authenticated'[t] = in
  BY DEF Restored, SignedIn, Shows, TypeOK
<1>3. Guarded(to, in) \in {"projects", "welcome"} => in
  BY DEF Guarded, Target
<1>. QED
  BY <1>1, <1>2, <1>3, TabGuarded

LEMMA GuardedStep == IInv /\ ProtectedPagesGuarded /\ [Next]_vars => ProtectedPagesGuarded'
<1>. SUFFICES ASSUME IInv, ProtectedPagesGuarded, [Next]_vars
              PROVE  ProtectedPagesGuarded'
  OBVIOUS
<1>0. TypeOK
  BY DEF IInv
<1>1. CASE UNCHANGED <<page, authenticated>>
  BY <1>1 DEF ProtectedPagesGuarded
<1>2. ASSUME NEW t \in Tab, NEW c \in Call, Open(t, c)
      PROVE  ProtectedPagesGuarded'
  BY <1>0, <1>2 DEF Open, Shows, TypeOK, ProtectedPagesGuarded
<1>3. ASSUME NEW t \in Tab, NEW to \in Target, Navigate(t, to)
      PROVE  ProtectedPagesGuarded'
  BY <1>0, <1>3 DEF Navigate, Shows, Guarded, Target, TypeOK, ProtectedPagesGuarded
<1>4. ASSUME NEW c \in Call, ~Free(c), call[c].tab # None, NEW to \in Target, Failed(c, to)
      PROVE  ProtectedPagesGuarded'
  <2>1. call[c].tab \in Tab
    BY <1>4, SoundCall DEF CallState
  <2>2. CASE call[c].op = "refresh"
    BY <1>0, <1>4, <2>1, <2>2, RestoredGuarded DEF Failed
  <2>3. CASE call[c].op # "refresh"
    BY <1>1, <1>4, <2>3 DEF Failed
  <2>. QED
    BY <2>2, <2>3
<1>5. ASSUME NEW c \in Call, Answered(c), call[c].ok,
             LoginSucceeds(c) \/ FirstLoginSucceeds(c) \/ LogoutSucceeds(c)
                \/ \E to \in Target : RestoreSucceeds(c, to)
      PROVE  ProtectedPagesGuarded'
  <2>1. PICK t \in Tab : t = call[c].tab
    BY <1>5, SoundCall DEF Answered, CallState
  <2>2. CASE LoginSucceeds(c)
    BY <1>0, <2>1, <2>2 DEF LoginSucceeds, SignedIn, Push, Shows, TypeOK, ProtectedPagesGuarded
  <2>3. CASE FirstLoginSucceeds(c)
    BY <1>0, <2>1, <2>3 DEF FirstLoginSucceeds, SignedIn, Shows, TypeOK, ProtectedPagesGuarded
  <2>4. CASE LogoutSucceeds(c)
    BY <1>0, <2>1, <2>4 DEF LogoutSucceeds, SignedIn, Push, Shows, TypeOK, ProtectedPagesGuarded
  <2>5. ASSUME NEW to \in Target, RestoreSucceeds(c, to)
        PROVE  ProtectedPagesGuarded'
    BY <1>0, <2>1, <2>5, RestoredGuarded DEF RestoreSucceeds
  <2>. QED
    BY <1>5, <2>2, <2>3, <2>4, <2>5
<1>6. ASSUME NEW c \in Call, Receive(c)
      PROVE  ProtectedPagesGuarded'
  <2>1. CASE \E to \in Target : RefusalArrives(c, to)
    BY <1>4, <2>1 DEF RefusalArrives, Answered
  <2>2. CASE SignUpSucceeds(c) \/ ProfileArrives(c)
    BY <1>1, <2>2 DEF SignUpSucceeds, ProfileArrives, browser
  <2>3. CASE \/ LoginSucceeds(c) \/ FirstLoginSucceeds(c) \/ LogoutSucceeds(c)
             \/ \E to \in Target : RestoreSucceeds(c, to)
    BY <1>5, <2>3 DEF LoginSucceeds, FirstLoginSucceeds, LogoutSucceeds, RestoreSucceeds, Succeeded
  <2>. QED
    BY <1>6, <2>1, <2>2, <2>3 DEF Receive
<1>7. ASSUME NEW c \in Call, Disturb(c)
      PROVE  ProtectedPagesGuarded'
  <2>1. CASE \E to \in Target : ConnectionBreaks(c, to)
    BY <1>4, <2>1 DEF ConnectionBreaks
  <2>. QED
    BY <1>1, <1>7, <2>1 DEF Disturb, SignUpLookUpFails, SignUpInsertFails, LookUpFails,
                            Forget, browser
<1>8. ASSUME NEW c \in Call, Handle(c)
      PROVE  ProtectedPagesGuarded'
  BY <1>1, <1>8 DEF Handle, SignUpLooksUp, SignUpInserts, LoginLooksUp, RefreshLooksUp,
                    RequireAuth, Logout, browser
<1>9. ASSUME NEW t \in Tab, NEW c \in Call, Send(t, c)
      PROVE  ProtectedPagesGuarded'
  BY <1>1, <1>2, <1>9 DEF Send, SignOut, GetProfile, Submit, browser
<1>. QED
  BY <1>1, <1>3, <1>6, <1>7, <1>8, <1>9 DEF Next, Tick, CookieExpires, vars, browser

\* A tab shows a page that needs a session only while it believes to have one
\* (router.beforeEach and every answer that moves a tab).
THEOREM PagesAreGuarded == Spec => []ProtectedPagesGuarded
<1>1. Init => ProtectedPagesGuarded
  BY DEF Init, ProtectedPagesGuarded
<1>. QED
  BY <1>1, GuardedStep, Invariance, PTL DEF Spec

-----------------------------------------------------------------------------
(* Tokens and where they come from.                                         *)

\* A step that touches one request makes no tokens but those of the request.
LEMMA TokensOfOneCall ==
  ASSUME IInv, NEW c \in Call, NEW r, Becomes(c, r), NEW S, tokens \subseteq S,
         r = None \/ {r.sent, r.access, r.refresh} \subseteq S \cup {None},
         {access', refresh'} \subseteq S \cup {None}
  PROVE  tokens' \subseteq S
<1>. SUFFICES ASSUME NEW x \in tokens'
              PROVE  x \in S
  OBVIOUS
<1>1. x # None
  BY DEF tokens
<1>2. CASE x \in {access', refresh'}
  BY <1>1, <1>2
<1>3. ASSUME NEW d \in Call, ~Free(d)', x \in {call'[d].sent, call'[d].access, call'[d].refresh}
      PROVE  x \in S
  <2>1. CASE d = c
    <3>1. call'[d] = r /\ r # None
      BY <1>3, <2>1 DEF Becomes, Free, IInv, TypeOK
    <3>. QED
      BY <1>1, <1>3, <3>1
  <2>2. CASE d # c
    <3>1. call'[d] = call[d] /\ ~Free(d)
      BY <1>3, <2>2 DEF Becomes, Free, IInv, TypeOK
    <3>2. x \in tokens
      BY <1>1, <1>3, <3>1 DEF tokens
    <3>. QED
      BY <3>2
  <2>. QED
    BY <2>1, <2>2
<1>. QED
  BY <1>2, <1>3 DEF tokens

\* The tokens of a request under way, and of the browser.
LEMMA TokensThere ==
  /\ {access, refresh} \subseteq tokens \cup {None}
  /\ \A c \in Call : ~Free(c) =>
        {call[c].sent, call[c].access, call[c].refresh} \subseteq tokens \cup {None}
  BY DEF tokens

\* What the updates of a request do to its tokens.
LEMMA UpdatedTokens ==
  ASSUME NEW r \in CallState
  PROVE  /\ \A step \in {"sent", "insert", "answered"} :
               /\ Stepped(r, step).sent = r.sent
               /\ Stepped(r, step).access = r.access
               /\ Stepped(r, step).refresh = r.refresh
         /\ Left(r).sent = r.sent /\ Left(r).access = r.access /\ Left(r).refresh = r.refresh
         /\ \A a, f : /\ Granted(r, a, f).sent = r.sent
                      /\ Granted(r, a, f).access = a
                      /\ Granted(r, a, f).refresh = f
  BY DEF CallState, Stepped, Left, Granted

LEMMA RequestTokens ==
  ASSUME NEW op, NEW t, NEW e, NEW pw, NEW token
  PROVE  /\ Request(op, t, e, pw, token).sent = token
         /\ Request(op, t, e, pw, token).access = None
         /\ Request(op, t, e, pw, token).refresh = None
  BY DEF Request

\* A request that is answered without a token, given up or forgotten makes none.
LEMMA LosingStep ==
  ASSUME IInv, NEW c \in Call, ~Free(c), NEW r, Becomes(c, r),
         \/ r = None
         \/ \E step \in {"sent", "insert", "answered"} : r = Stepped(call[c], step)
         \/ r = Left(call[c])
         \/ r = Granted(call[c], None, None),
         UNCHANGED <<access, refresh>> \/ StoreCookies(c),
         UNCHANGED <<now, proved>>
  PROVE  Promise!Lose
<1>1. call[c] \in CallState
  BY SoundCall
<1>2. r = None \/ {r.sent, r.access, r.refresh} \subseteq tokens \cup {None}
  BY <1>1, TokensThere, UpdatedTokens
<1>3. {access', refresh'} \subseteq tokens \cup {None}
  BY TokensThere DEF StoreCookies
<1>4. tokens' \subseteq tokens
  BY <1>2, <1>3, TokensOfOneCall
<1>. QED
  BY <1>4 DEF Promise!Lose

LEMMA LoginRefines ==
  ASSUME IInv, NEW c \in Call, LoginLooksUp(c)
  PROVE  Promise!Next
<1>1. ~Free(c) /\ call[c] \in CallState
  BY SoundCall DEF LoginLooksUp, At
<1>2. UNCHANGED <<now, access, refresh>>
  BY DEF LoginLooksUp, browser
<1>3. CASE UNCHANGED proved /\ Becomes(c, Refused(call[c]))
  BY <1>1, <1>2, <1>3, LosingStep DEF Refused, Promise!Next
<1>4. ASSUME NEW u \in Having(call[c].email), Proves(u, call[c].password),
             Becomes(c, IF users[u].password = call[c].password
                        THEN Granted(call[c], Sign("access", u), Sign("refresh", u))
                        ELSE Refused(call[c]))
      PROVE  Promise!Next
  <2>1. CASE users[u].password # call[c].password
    BY <1>3, <1>4, <2>1 DEF Proves
  <2>2. CASE users[u].password = call[c].password
    <3>. DEFINE a == Sign("access", u)
                f == Sign("refresh", u)
                S == tokens \cup {a, f}
    <3>1. a = Promise!AccessFor(u) /\ f = Promise!RefreshFor(u)
      BY DEF Sign, Promise!AccessFor, Promise!RefreshFor
    <3>2. proved' = [proved EXCEPT ![u] = now] /\ u \in User
      BY <1>4, <2>2 DEF Proves, Having
    <3>3. Becomes(c, Granted(call[c], a, f))
      BY <1>4, <2>2
    <3>. HIDE DEF a, f
    <3>4. {call[c].sent, a, f} \subseteq S \cup {None} /\ {access', refresh'} \subseteq S \cup {None}
      BY <1>1, <1>2, TokensThere
    <3>5. tokens \subseteq S
      OBVIOUS
    <3>. HIDE DEF S
    <3>6. tokens' \subseteq S
      BY <1>1, <3>3, <3>4, <3>5, UpdatedTokens, TokensOfOneCall
    <3>. QED
      BY <1>2, <3>1, <3>2, <3>6 DEF Promise!Next, Promise!GivePassword, S
  <2>. QED
    BY <2>1, <2>2
<1>. QED
  BY <1>3, <1>4 DEF LoginLooksUp

LEMMA RefreshRefines ==
  ASSUME IInv, NEW c \in Call, RefreshLooksUp(c)
  PROVE  Promise!Next
<1>1. ~Free(c) /\ call[c] \in CallState
  BY SoundCall DEF RefreshLooksUp, At
<1>2. UNCHANGED <<now, proved, access, refresh>>
  BY DEF RefreshLooksUp, server, browser
<1>3. CASE ~Accepts(call[c].sent, "refresh")
  BY <1>1, <1>2, <1>3, LosingStep DEF RefreshLooksUp, Refused, Promise!Next
<1>4. CASE Accepts(call[c].sent, "refresh")
  <2>1. PICK old : old = call[c].sent
    OBVIOUS
  <2>2. /\ old \in tokens /\ old.type = "refresh" /\ old.user \in User /\ now < old.until
    BY <1>1, <1>4, <2>1, TokensThere DEF Accepts, Verifies, CallState, Token
  <2>. DEFINE a == Sign("access", old.user)
              S == tokens \cup {a}
  <2>3. a = Promise!AccessFor(old.user)
    BY DEF Sign, Promise!AccessFor
  <2>4. Becomes(c, Granted(call[c], a, None))
    BY <1>4, <2>1 DEF RefreshLooksUp
  <2>. HIDE DEF a
  <2>5. {call[c].sent, a, None} \subseteq S \cup {None} /\ {access', refresh'} \subseteq S \cup {None}
    BY <1>1, <1>2, TokensThere
  <2>6. tokens \subseteq S
    OBVIOUS
  <2>. HIDE DEF S
  <2>7. tokens' \subseteq S
    BY <1>1, <2>4, <2>5, <2>6, UpdatedTokens, TokensOfOneCall
  <2>8. Promise!Refresh(old.user)
    BY <1>2, <2>2, <2>3, <2>7 DEF Promise!Refresh, S
  <2>. QED
    BY <2>2, <2>8 DEF Promise!Next
<1>. QED
  BY <1>3, <1>4

LEMMA SendRefines ==
  ASSUME IInv, NEW t \in Tab, NEW c \in Call, Send(t, c)
  PROVE  Promise!Lose
<1>1. UNCHANGED <<now, proved, access, refresh>>
  BY DEF Send, Open, SignOut, GetProfile, Submit, server, browser
<1>2. CASE Open(t, c)
  <2>. SUFFICES ASSUME NEW x \in tokens' PROVE x \in tokens
    BY <1>1 DEF Promise!Lose
  <2>1. x # None
    BY DEF tokens
  <2>2. CASE x \in {access', refresh'}
    BY <1>1, <2>1, <2>2, TokensThere
  <2>3. ASSUME NEW d \in Call, ~Free(d)', x \in {call'[d].sent, call'[d].access, call'[d].refresh}
        PROVE  x \in tokens
    <3>1. CASE d = c
      <4>1. call'[d] = Request("refresh", t, None, None, refresh)
        BY <1>2, <3>1 DEF Open
      <4>. QED
        BY <2>1, <2>3, <4>1, RequestTokens, TokensThere
    <3>2. CASE d # c /\ ~Free(d) /\ call[d].tab = t
      <4>1. call'[d] = Left(call[d]) /\ call[d] \in CallState
        BY <1>2, <3>2, SoundCall DEF Open
      <4>. QED
        BY <2>1, <2>3, <3>2, <4>1, UpdatedTokens, TokensThere
    <3>3. CASE d # c /\ (Free(d) \/ call[d].tab # t)
      <4>1. call'[d] = call[d] /\ ~Free(d)
        BY <1>2, <2>3, <3>3 DEF Open, Free
      <4>. QED
        BY <2>1, <2>3, <4>1, TokensThere
    <3>. QED
      BY <3>1, <3>2, <3>3
  <2>. QED
    BY <2>2, <2>3 DEF tokens
<1>3. CASE \/ SignOut(t, c) \/ GetProfile(t, c)
           \/ \E e \in Email, pw \in Password : Submit(t, c, e, pw)
  <2>1. PICK r : Becomes(c, r) /\ {r.sent, r.access, r.refresh} \subseteq {access, None}
    BY <1>3, RequestTokens DEF SignOut, GetProfile, Submit
  <2>2. tokens' \subseteq tokens
    BY <1>1, <2>1, TokensThere, TokensOfOneCall
  <2>. QED
    BY <1>1, <2>2 DEF Promise!Lose
<1>. QED
  BY <1>2, <1>3 DEF Send

LEMMA ReceiveRefines ==
  ASSUME IInv, NEW c \in Call,
         Receive(c) \/ \E to \in Target : ConnectionBreaks(c, to)
  PROVE  Promise!Lose
<1>1. ~Free(c) /\ UNCHANGED <<now, proved>>
  BY DEF Receive, LoginSucceeds, SignUpSucceeds, FirstLoginSucceeds, LogoutSucceeds,
         ProfileArrives, RestoreSucceeds, RefusalArrives, ConnectionBreaks,
         Succeeded, Answered, server
<1>2. CASE SignUpSucceeds(c)
  <2>1. PICK r : Becomes(c, r) /\ {r.sent, r.access, r.refresh} \subseteq {None}
    BY <1>2, RequestTokens DEF SignUpSucceeds
  <2>2. UNCHANGED <<access, refresh>>
    BY <1>2 DEF SignUpSucceeds, browser
  <2>3. tokens' \subseteq tokens
    BY <2>1, <2>2, TokensThere, TokensOfOneCall
  <2>. QED
    BY <1>1, <2>3 DEF Promise!Lose
<1>3. CASE ~SignUpSucceeds(c)
  <2>1. Becomes(c, None) \/ Becomes(c, Left(call[c]))
    BY <1>3 DEF Receive, LoginSucceeds, FirstLoginSucceeds, LogoutSucceeds,
         ProfileArrives, RestoreSucceeds, RefusalArrives, ConnectionBreaks, Done
  <2>2. UNCHANGED <<access, refresh>> \/ StoreCookies(c)
    BY <1>3 DEF Receive, LoginSucceeds, FirstLoginSucceeds, LogoutSucceeds,
         ProfileArrives, RestoreSucceeds, RefusalArrives, ConnectionBreaks, browser
  <2>. QED
    BY <1>1, <2>1, <2>2, LosingStep
<1>. QED
  BY <1>2, <1>3

LEMMA OtherRefines ==
  ASSUME IInv, NEW c \in Call,
         \/ SignUpLooksUp(c) \/ \E u \in User : SignUpInserts(c, u)
         \/ RequireAuth(c) \/ Logout(c)
         \/ SignUpLookUpFails(c) \/ SignUpInsertFails(c) \/ LookUpFails(c) \/ Forget(c)
  PROVE  Promise!Lose
<1>1. ~Free(c) /\ UNCHANGED <<now, proved, access, refresh>>
  BY DEF SignUpLooksUp, SignUpInserts, RequireAuth, Serves, Logout, SignUpLookUpFails,
         SignUpInsertFails, LookUpFails, Forget, At, server, browser
<1>2. \/ Becomes(c, None) \/ Becomes(c, Granted(call[c], None, None))
      \/ \E step \in {"sent", "insert", "answered"} : Becomes(c, Stepped(call[c], step))
  BY DEF SignUpLooksUp, SignUpInserts, RequireAuth, Serves, Logout, SignUpLookUpFails,
         SignUpInsertFails, LookUpFails, Forget, Refused, Done
<1>. QED
  BY <1>1, <1>2, LosingStep

LEMMA SessionStep == IInv /\ [Next]_vars => [Promise!Next]_(Promise!vars)
<1>. SUFFICES ASSUME IInv, [Next]_vars
              PROVE  Promise!Next \/ UNCHANGED <<now, proved, tokens>>
  BY DEF Promise!vars
<1>1. ASSUME NEW c \in Call, Handle(c) \/ Receive(c) \/ Disturb(c)
      PROVE  Promise!Next
  BY <1>1, LoginRefines, RefreshRefines, ReceiveRefines, OtherRefines
     DEF Handle, Disturb, Promise!Next
<1>2. ASSUME NEW t \in Tab, NEW c \in Call, Send(t, c)
      PROVE  Promise!Next
  BY <1>2, SendRefines DEF Promise!Next
<1>3. ASSUME UNCHANGED <<access, refresh, call>>
      PROVE  UNCHANGED tokens
  BY <1>3 DEF tokens, Free
<1>4. CASE \E t \in Tab, to \in Target : Navigate(t, to)
  BY <1>3, <1>4 DEF Navigate, server
<1>5. CASE Tick
  BY <1>3, <1>5 DEF Tick, browser, Promise!Next, Promise!Tick
<1>6. CASE UNCHANGED vars
  BY <1>3, <1>6 DEF vars, server, browser
<1>7. CASE CookieExpires
  <2>1. access' \in {access, None} /\ refresh' \in {refresh, None} /\ UNCHANGED <<now, proved, call>>
    BY <1>7 DEF CookieExpires, server
  <2>2. tokens' \subseteq tokens
    BY <2>1 DEF tokens, Free
  <2>. QED
    BY <2>1, <2>2 DEF Promise!Next, Promise!Lose
<1>. QED
  BY <1>1, <1>2, <1>4, <1>5, <1>6, <1>7 DEF Next

\* Nothing but a password or a refresh token of the same account, not yet run out,
\* makes a token, however requests, answers, tabs and failures interleave (Login,
\* Refresh, RequireAuth and all that stores cookies).
THEOREM SessionsKept == Spec => KeepsSessions
<1>1. Init => Promise!Init
  BY DEF Init, Promise!Init, tokens, Free
<1>. QED
  BY <1>1, SessionStep, Invariance, PTL DEF Spec, KeepsSessions, Promise!Spec
=============================================================================
