-------------------------- MODULE ProjectDetailPage --------------------------
(***************************************************************************)
(* The page of one project (frontend/src/pages/ProjectDetail.vue): its     *)
(* load, the poll for new mail, the edit and delete dialogs, and the       *)
(* navigation between pages, against a server that answers each request    *)
(* when it likes.                                                          *)
(*                                                                         *)
(* App.vue keys the page by the route's path, so every visit is an         *)
(* instance of its own.  Leaving a page stops its watchers, but not the    *)
(* functions that are waiting for an answer: they go on with the state of  *)
(* the instance, which nobody sees any more.  A browser tab runs one piece *)
(* of them at a time, from one await to the next.                          *)
(*                                                                         *)
(* A project is shown as its version, and the emails as their number: the  *)
(* server only adds to them, and shows the newest hundred.  Selection,     *)
(* error texts and toasts are left out.                                    *)
(*                                                                         *)
(* The browser's access cookie lives for fifteen minutes.  A page restores *)
(* the session once, when it is loaded, so a page that stays open is then  *)
(* refused whatever it asks for (401), until another page of the browser   *)
(* is loaded or signs in.                                                  *)
(***************************************************************************)
EXTENDS Naturals, SequencesExt

CONSTANTS
    Visit,                  \* instances of the page, in this tab
    Project,
    None,                   \* no project, no visit
    Idle, Sent, Failed,     \* a request: not made, under way, answered with an error
    MaxMail,                \* bound on the emails of a project
    MaxEdits,               \* bound on the edits of a behaviour
    MaxFaults               \* bound on the requests that fail for no reason of ours

Number == 0..MaxMail
Version == 1..MaxEdits + 1
Kind == {"get", "list", "update", "remove"}

ASSUME PageAssumption ==
    /\ {None, Idle, Sent, Failed} \cap (Nat \cup Visit \cup Project) = {}
    /\ Idle # Sent /\ Idle # Failed /\ Sent # Failed
    /\ MaxMail \in Nat /\ MaxEdits \in Nat /\ MaxFaults \in Nat

VARIABLES
    \* The server, and whether it takes the browser's access cookie.
    exists, version, mail, access,
    \* The tab: the page shown, a router.replace under way, visibilityState.
    current, navigating, visible,
    \* The state of an instance: route.params.id, what it shows, who waits for
    \* load ("first": the watcher), isRefreshing, refreshTimer, and its dialogs.
    id, project, emails, loading, isRefreshing, refreshTimer, editing, deleting,
    \* The requests of an instance: the two of load, updateProject, deleteProject,
    \* and those of refreshEmails.
    call, refreshes,
    \* Bounds.
    edits, faults

server == <<exists, version, mail, access>>
tab == <<current, navigating, visible>>
shown == <<project, emails>>
dialogs == <<editing, deleting>>
polls == <<isRefreshing, refreshes>>
bounds == <<edits, faults>>
page == <<id, shown, loading, dialogs, isRefreshing, refreshTimer>>
vars == <<server, tab, page, call, refreshes, bounds>>

TypeOK ==
    /\ exists \in [Project -> BOOLEAN]
    /\ version \in [Project -> Version]
    /\ mail \in [Project -> Number]
    /\ access \in BOOLEAN
    /\ current \in Visit \cup {None}
    /\ navigating \in BOOLEAN /\ visible \in BOOLEAN
    /\ id \in [Visit -> Project \cup {None}]
    /\ project \in [Visit -> Version \cup {None}]
    /\ emails \in [Visit -> Number]
    /\ loading \in [Visit -> {"no", "first", "again"}]
    /\ isRefreshing \in [Visit -> BOOLEAN]
    /\ refreshTimer \in [Visit -> BOOLEAN]
    /\ editing \in [Visit -> {"no", "open", "saving"}]
    /\ deleting \in [Visit -> {"no", "open", "deleting", "deleted"}]
    /\ call \in [Visit -> [Kind -> {Idle, Sent, Failed} \cup Number \cup Version]]
    /\ refreshes \in [Visit -> Seq({Sent, Failed} \cup Number)]
    /\ edits \in 0..MaxEdits
    /\ faults \in 0..MaxFaults

Init ==
    /\ exists = [p \in Project |-> TRUE]
    /\ version = [p \in Project |-> 1]
    /\ mail = [p \in Project |-> 0] /\ access = TRUE
    /\ current = None /\ navigating = FALSE /\ visible = TRUE
    /\ id = [v \in Visit |-> None]
    /\ project = [v \in Visit |-> None] /\ emails = [v \in Visit |-> 0]
    /\ loading = [v \in Visit |-> "no"]
    /\ isRefreshing = [v \in Visit |-> FALSE] /\ refreshTimer = [v \in Visit |-> FALSE]
    /\ editing = [v \in Visit |-> "no"] /\ deleting = [v \in Visit |-> "no"]
    /\ call = [v \in Visit |-> [k \in Kind |-> Idle]]
    /\ refreshes = [v \in Visit |-> <<>>]
    /\ edits = 0 /\ faults = 0

-----------------------------------------------------------------------------
(* Moving between pages.  The guard of the router has nothing to wait for   *)
(* once the session was restored; a navigation replaces one under way.      *)

\* onBeforeUnmount of the page shown.
TimersWithoutCurrent == [v \in Visit |-> refreshTimer[v] /\ v # current]

StartLoad(v, who) ==
    /\ loading' = [loading EXCEPT ![v] = who]
    /\ project' = [project EXCEPT ![v] = None]
    /\ emails' = [emails EXCEPT ![v] = 0]
    /\ call' = [call EXCEPT ![v].get = Sent, ![v].list = Sent]

\* A new instance; its watcher (immediate) calls load.
Open(v, p) ==
    /\ id[v] = None
    /\ id' = [id EXCEPT ![v] = p]
    /\ current' = v /\ navigating' = FALSE
    /\ refreshTimer' = TimersWithoutCurrent
    /\ StartLoad(v, "first")
    /\ UNCHANGED <<server, visible, dialogs, polls, bounds>>

Gone ==
    /\ current' = None /\ navigating' = FALSE
    /\ refreshTimer' = TimersWithoutCurrent
    /\ UNCHANGED <<server, visible, id, shown, dialogs, loading, polls, call, bounds>>

Leave == current # None /\ Gone

\* router.replace('/projects') arrives, wherever the user has gone since.
Replaced == navigating /\ Gone

SwitchTab ==
    /\ visible' = ~visible
    /\ UNCHANGED <<server, current, navigating, page, call, refreshes, bounds>>

-----------------------------------------------------------------------------
(* load.                                                                    *)

\* "Try again", offered when there is nothing to show.
TryAgain(v) ==
    /\ current = v
    /\ loading[v] = "no" /\ project[v] = None
    /\ StartLoad(v, "again")
    /\ UNCHANGED <<server, tab, id, dialogs, polls, refreshTimer, bounds>>

EndLoad(v) ==
    /\ loading' = [loading EXCEPT ![v] = "no"]
    /\ call' = [call EXCEPT ![v].get = Idle, ![v].list = Idle]

\* Faulty variant: the watcher goes on only if there is no error.
TimersUnlessFailed(v) ==
    IF loading[v] = "first" /\ Failed \notin {call[v].get, call[v].list}
    THEN [refreshTimer EXCEPT ![v] = TRUE] ELSE refreshTimer

\* Faulty variant: the watcher forgets to.
NoTimers(v) == refreshTimer

\* The watcher goes on with startAutoRefresh, whatever became of load.
Timers(v) == IF loading[v] = "first" THEN [refreshTimer EXCEPT ![v] = TRUE] ELSE refreshTimer

BothAnswered(v) == call[v].get \in Version /\ call[v].list \in Number

LoadSucceeds(v) ==
    /\ loading[v] # "no"
    /\ BothAnswered(v)
    /\ project' = [project EXCEPT ![v] = call[v].get]
    /\ emails' = [emails EXCEPT ![v] = call[v].list]
    /\ EndLoad(v)
    /\ refreshTimer' = Timers(v)
    /\ UNCHANGED <<server, tab, id, dialogs, polls, bounds>>

\* Promise.all gives up with the first error, and nobody waits for the other.
LoadFails(v) ==
    /\ loading[v] # "no"
    /\ call[v].get = Failed \/ call[v].list = Failed
    /\ EndLoad(v)
    /\ refreshTimer' = Timers(v)
    /\ UNCHANGED <<server, tab, id, shown, dialogs, polls, bounds>>

-----------------------------------------------------------------------------
(* refreshEmails, from the button or from the timer.                        *)

\* Faulty variant: a refresh is started although one is under way.
MayRefreshAnyway(v) == project[v] # None /\ Len(refreshes[v]) < 2

MayRefresh(v) == project[v] # None /\ ~isRefreshing[v]

StartRefresh(v) ==
    /\ MayRefresh(v)
    /\ isRefreshing' = [isRefreshing EXCEPT ![v] = TRUE]
    /\ refreshes' = [refreshes EXCEPT ![v] = Append(@, Sent)]
    /\ UNCHANGED <<server, tab, id, shown, dialogs, loading, refreshTimer, call, bounds>>

ClickRefresh(v) == current = v /\ StartRefresh(v)

Tick(v) == refreshTimer[v] /\ visible /\ StartRefresh(v)

\* Faulty variant: isRefreshing is reset in the try block only.
StopIfAnswered(v, answer) == isRefreshing' = [isRefreshing EXCEPT ![v] = answer = Failed]

\* finally: whatever the answer.
StopRefreshing(v, answer) == isRefreshing' = [isRefreshing EXCEPT ![v] = FALSE]

RefreshAnswered(v, i) ==
    LET answer == refreshes[v][i] IN
    /\ answer # Sent
    /\ emails' = IF answer = Failed THEN emails ELSE [emails EXCEPT ![v] = answer]
    /\ StopRefreshing(v, answer)
    /\ refreshes' = [refreshes EXCEPT ![v] = RemoveAt(@, i)]
    /\ UNCHANGED <<server, tab, id, project, dialogs, loading, refreshTimer, call, bounds>>

-----------------------------------------------------------------------------
(* The dialogs.  They are modal, and cannot be closed while they wait.      *)
SetEditing(v, e) == editing' = [editing EXCEPT ![v] = e]
SetDeleting(v, d) == deleting' = [deleting EXCEPT ![v] = d]

OpenEdit(v) ==
    /\ current = v /\ project[v] # None
    /\ editing[v] = "no" /\ deleting[v] \in {"no", "deleted"}
    /\ SetEditing(v, "open")
    /\ UNCHANGED <<server, tab, id, shown, deleting, loading, polls, refreshTimer, call, bounds>>

submitUpdate(v) ==
    /\ current = v /\ editing[v] = "open" /\ project[v] # None
    /\ edits < MaxEdits /\ edits' = edits + 1
    /\ SetEditing(v, "saving")
    /\ call' = [call EXCEPT ![v].update = Sent]
    /\ UNCHANGED <<server, tab, id, shown, deleting, loading, polls, refreshTimer, faults>>

UpdateAnswered(v) ==
    /\ call[v].update \notin {Idle, Sent}
    /\ IF call[v].update = Failed
       THEN SetEditing(v, "open") /\ UNCHANGED project
       ELSE SetEditing(v, "no") /\ project' = [project EXCEPT ![v] = call[v].update]
    /\ call' = [call EXCEPT ![v].update = Idle]
    /\ UNCHANGED <<server, tab, id, emails, deleting, loading, polls, refreshTimer, bounds>>

\* After a delete the dialog can be opened again, but its button is busy.
OpenDelete(v) ==
    /\ current = v /\ project[v] # None
    /\ editing[v] = "no" /\ deleting[v] = "no"
    /\ SetDeleting(v, "open")
    /\ UNCHANGED <<server, tab, id, shown, editing, loading, polls, refreshTimer, call, bounds>>

Cancel(v) ==
    /\ current = v
    /\ \/ editing[v] = "open" /\ SetEditing(v, "no") /\ UNCHANGED deleting
       \/ deleting[v] = "open" /\ SetDeleting(v, "no") /\ UNCHANGED editing
    /\ UNCHANGED <<server, tab, id, shown, loading, polls, refreshTimer, call, bounds>>

confirmDelete(v) ==
    /\ current = v /\ deleting[v] = "open" /\ project[v] # None
    /\ SetDeleting(v, "deleting")
    /\ call' = [call EXCEPT ![v].remove = Sent]
    /\ UNCHANGED <<server, tab, id, shown, editing, loading, polls, refreshTimer, bounds>>

DeleteFailed(v) ==
    /\ call[v].remove = Failed
    /\ SetDeleting(v, "open")
    /\ call' = [call EXCEPT ![v].remove = Idle]
    /\ UNCHANGED <<server, tab, id, shown, editing, loading, polls, refreshTimer, bounds>>

\* Faulty variant: the timer is left to onBeforeUnmount.
TimerKept(v) == UNCHANGED refreshTimer

clearTimer(v) == refreshTimer' = [refreshTimer EXCEPT ![v] = FALSE]

\* Faulty variant: the page forgets to go.
Stay == UNCHANGED navigating

replaceRoute == navigating' = TRUE

Deleted(v) ==
    /\ call[v].remove = 0
    /\ SetDeleting(v, "deleted")
    /\ clearTimer(v)
    /\ replaceRoute
    /\ call' = [call EXCEPT ![v].remove = Idle]
    /\ UNCHANGED <<server, current, visible, id, shown, editing, loading, polls, bounds>>

-----------------------------------------------------------------------------
(* The server works on a request, at any time after it was sent.  A cookie  *)
(* that is over and a row that is gone are errors; see ProjectApi.  A row   *)
(* removed between the statements of a handler, which then answers 200, is  *)
(* a row removed right after it: the answer reaches the page later.         *)
EditRow(p) ==
    /\ exists[p]
    /\ version' = [version EXCEPT ![p] = @ + 1]
    /\ UNCHANGED <<exists, mail, access>>

RemoveRow(p) ==
    /\ exists[p]
    /\ exists' = [exists EXCEPT ![p] = FALSE]
    /\ UNCHANGED <<version, mail, access>>

\* AuthMiddleware, then the SELECT of the handler.
Refused(p) == ~access \/ ~exists[p]

\* The request of kind k is carried out, unless it is refused.
Execute(p, k) ==
    \/ k = "update" /\ ~Refused(p) /\ EditRow(p)
    \/ k = "remove" /\ ~Refused(p) /\ RemoveRow(p)
    \/ k \in {"get", "list"} /\ UNCHANGED server
    \/ Refused(p) /\ UNCHANGED server

Result(p, k) ==
    CASE Refused(p) -> Failed
      [] OTHER -> CASE k = "get" -> version[p] [] k = "list" -> mail[p]
                    [] k = "update" -> version[p] + 1 [] k = "remove" -> 0

Answer(v, k) ==
    /\ call[v][k] = Sent
    /\ Execute(id[v], k)
    /\ call' = [call EXCEPT ![v][k] = Result(id[v], k)]
    /\ UNCHANGED <<tab, page, refreshes, bounds>>

AnswerRefresh(v) == \E i \in DOMAIN refreshes[v] :
    /\ refreshes[v][i] = Sent
    /\ refreshes' = [refreshes EXCEPT ![v][i] = Result(id[v], "list")]
    /\ UNCHANGED <<server, tab, page, call, bounds>>

\* The connection or the server fails; what was asked may have been done.
CallFails(v, k) ==
    /\ faults < MaxFaults /\ faults' = faults + 1
    /\ call[v][k] = Sent
    /\ Execute(id[v], k) \/ UNCHANGED server
    /\ call' = [call EXCEPT ![v][k] = Failed]
    /\ UNCHANGED <<tab, page, refreshes, edits>>

RefreshFails(v) == \E i \in DOMAIN refreshes[v] :
    /\ faults < MaxFaults /\ faults' = faults + 1
    /\ refreshes[v][i] = Sent
    /\ refreshes' = [refreshes EXCEPT ![v][i] = Failed]
    /\ UNCHANGED <<server, tab, page, call, edits>>

\* Mail arrives, and the user has the project open elsewhere, too.
MailArrives(p) ==
    /\ exists[p] /\ mail[p] < MaxMail
    /\ mail' = [mail EXCEPT ![p] = @ + 1]
    /\ UNCHANGED <<exists, version, access, tab, page, call, refreshes, bounds>>

Elsewhere(p) ==
    /\ \/ edits < MaxEdits /\ edits' = edits + 1 /\ EditRow(p)
       \/ RemoveRow(p) /\ UNCHANGED edits
    /\ UNCHANGED <<tab, page, call, refreshes, faults>>

\* The access token runs out, or another page of the browser signs out; another page
\* that is loaded or signs in brings it back.
AccessChanges ==
    /\ access' = ~access
    /\ UNCHANGED <<exists, version, mail, tab, page, call, refreshes, bounds>>

-----------------------------------------------------------------------------
User(v) ==
    \/ TryAgain(v) \/ ClickRefresh(v)
    \/ OpenEdit(v) \/ submitUpdate(v) \/ OpenDelete(v) \/ confirmDelete(v) \/ Cancel(v)

\* What the functions of an instance do when they are answered.
Loaded(v) == LoadSucceeds(v) \/ LoadFails(v)
Refreshed(v) == \E i \in DOMAIN refreshes[v] : RefreshAnswered(v, i)
DeleteAnswered(v) == DeleteFailed(v) \/ Deleted(v)

Continue(v) == Loaded(v) \/ Refreshed(v) \/ UpdateAnswered(v) \/ DeleteAnswered(v)

Next ==
    \/ \E v \in Visit :
        \/ \E p \in Project : Open(v, p)
        \/ User(v) \/ Tick(v) \/ Continue(v)
        \/ \E k \in Kind : Answer(v, k) \/ CallFails(v, k)
        \/ AnswerRefresh(v) \/ RefreshFails(v)
    \/ \E p \in Project : MailArrives(p) \/ Elsewhere(p)
    \/ Leave \/ Replaced \/ SwitchTab \/ AccessChanges

Spec == Init /\ [][Next]_vars

\* Every request is answered, the browser runs what is ready, and the timer
\* fires; the user need not do anything.
Fairness ==
    /\ \A v \in Visit :
        /\ \A k \in Kind : WF_vars(Answer(v, k))
        /\ WF_vars(AnswerRefresh(v))
        /\ WF_vars(Loaded(v)) /\ WF_vars(Refreshed(v))
        /\ WF_vars(UpdateAnswered(v)) /\ WF_vars(DeleteAnswered(v))
        /\ WF_vars(Tick(v))
    /\ WF_vars(Replaced)

FairSpec == Spec /\ Fairness

-----------------------------------------------------------------------------
(* An answer that comes late never takes the page back: while a project is  *)
(* shown, neither it nor its list of emails is replaced by an older one,    *)
(* although polls, updates and other tabs run at the same time.             *)
ShownNeverGoesBack ==
    [][\A v \in Visit : project[v] # None /\ project'[v] # None =>
          project'[v] >= project[v] /\ emails'[v] >= emails[v]]_vars

(* A page that is open polls, once its first load has ended well or badly,  *)
(* until it has deleted its project.                                        *)
OpenPagePolls ==
    current # None /\ loading[current] # "first" /\ deleting[current] # "deleted" =>
        refreshTimer[current]

(* A page that has deleted its project does not poll for its mail.          *)
DeletedPageStops == \A v \in Visit : deleting[v] = "deleted" => ~refreshTimer[v]

(* Mail that arrives while a project is shown appears on the page, unless   *)
(* the tab is hidden, the page left, the project deleted, or the access     *)
(* token runs out first: this page never renews it by itself.               *)
MailShowsUp ==
    \A v \in Visit : \A n \in 1..MaxMail :
        current = v /\ project[v] # None /\ mail[id[v]] >= n ~>
            emails[v] >= n \/ current # v \/ ~visible \/ ~exists[id[v]] \/ ~access

(* Nothing stays busy: every flag that disables a button is reset whether   *)
(* the request succeeds or fails.                                           *)
NothingStaysBusy ==
    \A v \in Visit :
        /\ loading[v] # "no" ~> loading[v] = "no"
        /\ isRefreshing[v] ~> ~isRefreshing[v]
        /\ editing[v] = "saving" ~> editing[v] # "saving"

(* A confirmed delete takes the user off the page, or tells them why not.   *)
DeleteSettles ==
    \A v \in Visit : deleting[v] = "deleting" ~> current # v \/ deleting[v] = "open"

(* ProjectDetail.vue:17 says that mail is checked for "while the page is    *)
(* open".  A page left during its first load starts its timer afterwards,   *)
(* and nothing stops it.                                                    *)
PollsOnlyWhileOpen == \A v \in Visit : refreshTimer[v] => current = v
=============================================================================
