---------------------------- MODULE ProjectsPage ----------------------------
(***************************************************************************)
(* The list of projects: the page (pages/Projects.vue) and the handler that *)
(* answers it (List of project_handler.go), which reads in two statements, *)
(* a SELECT without an order and a COUNT, outside of any transaction.      *)
(*                                                                         *)
(* The page shows what the last answer said, plus what it created itself.  *)
(* The button of the create dialog works while a page is being loaded.     *)
(***************************************************************************)
EXTENDS Pagination, Sequences, FiniteSets

CONSTANTS
    Project,        \* the ids of the user's projects
    None,           \* nothing shown yet, no request, no project
    PageSize,       \* DEFAULT_PAGE_SIZE
    MaxFaults,      \* bound on the faults of a behaviour
    MaxOthers       \* bound on the changes other tabs make

Shown == [projects : Seq(Project), page : Nat \ {0}, total : Nat]

\* `calm` is history: nothing was written while the load was under way.
Load ==
    [page : Nat \ {0}, step : {"select", "count", "answered"},
     projects : Seq(Project), total : Nat, calm : BOOLEAN]

\* `project` is None until its row is there.
Create == [project : Project \cup {None}]

ASSUME PageAssumption ==
    /\ IsFiniteSet(Project)
    /\ None \notin Shown \cup Load \cup Create \cup Project
    /\ PageSize \in 1..MaxInt
    /\ MaxFaults \in Nat
    /\ MaxOthers \in Nat

VARIABLES
    rows,           \* the user's rows that are not deleted
    ever,           \* the rows there ever were: ids are not used again
    result,         \* what the page shows
    load,           \* the load under way
    isLoading,
    error,          \* errorMessage is not empty
    requested,      \* requestedPage
    open,           \* isCreateOpen
    create,         \* the create under way
    isCreating,
    fresh,          \* history: nothing but this page wrote since what it shows was read
    faults,         \* faults so far
    others          \* changes by other tabs so far

server == <<rows, ever, others>>
busy == <<isLoading, isCreating>>
vars == <<server, busy, result, load, error, requested, open, create, fresh, faults>>

TypeOK ==
    /\ rows \subseteq ever /\ ever \subseteq Project
    /\ result \in Shown \cup {None}
    /\ load \in Load \cup {None}
    /\ isLoading \in BOOLEAN /\ isCreating \in BOOLEAN
    /\ error \in BOOLEAN /\ open \in BOOLEAN /\ fresh \in BOOLEAN
    /\ requested \in Nat \ {0}
    /\ create \in Create \cup {None}
    /\ faults \in 0..MaxFaults
    /\ others \in 0..MaxOthers

Loading == load # None
Creating == create # None
Fault == faults < MaxFaults /\ faults' = faults + 1

\* A bound: ids are left for the rows under way and one more.
Room == Cardinality(Project \ ever) > (IF Creating THEN 1 ELSE 0)

\* How many of n rows a page has.
Length(n, page) == Cardinality(Listed(n, page, PageSize))

\* The answers of the SELECT: rows of the page, in any order.
Pages(page) ==
    {s \in [1..Length(Cardinality(rows), page) -> rows] :
        \A i, j \in DOMAIN s : s[i] = s[j] => i = j}

Request(page) ==
    [page |-> page, step |-> "select", projects |-> <<>>, total |-> 0, calm |-> ~Creating]

\* Somebody wrote: what is being read may be neither the old nor the new list.
Disturbed == IF Loading THEN [load EXCEPT !.calm = FALSE] ELSE load

\* onMounted.
Init ==
    /\ rows \in SUBSET Project
    /\ ever = rows
    /\ create = None
    /\ result = None
    /\ load = Request(1)
    /\ isLoading = TRUE /\ isCreating = FALSE
    /\ error = FALSE
    /\ requested = 1
    /\ open = FALSE
    /\ fresh = FALSE
    /\ faults = 0
    /\ others = 0

-----------------------------------------------------------------------------
(* loadProjects.  Every button that starts a request is disabled by a flag, *)
(* or not there: nothing but the flags keeps requests from overlapping.     *)

\* The head of loadProjects; the dialog, when it is open, covers the page.
Sends(page) ==
    /\ ~open
    /\ isLoading' = TRUE
    /\ error' = FALSE
    /\ requested' = page
    /\ load' = Request(page)
    /\ UNCHANGED <<server, isCreating, result, open, create, fresh, faults>>

\* UPagination, shown when there is more than one page.
TurnPage(page) ==
    /\ result # None /\ ~error /\ ~isLoading
    /\ result.total > PageSize
    /\ page # result.page
    /\ (page - 1) * PageSize < result.total
    /\ Sends(page)

\* "Try again", unless the skeleton is shown.
TryAgain ==
    /\ error
    /\ ~(isLoading /\ result = None)
    /\ Sends(requested)

\* List reads the page ...
Selects ==
    /\ Loading /\ load.step = "select"
    /\ \E s \in Pages(load.page) :
          load' = [load EXCEPT !.step = "count", !.projects = s]
    /\ UNCHANGED <<server, busy, result, error, requested, open, create, fresh, faults>>

\* ... and the total, which is 0 when counting fails.
Counts ==
    /\ Loading /\ load.step = "count"
    /\ load' = [load EXCEPT !.step = "answered", !.total = Cardinality(rows)]
    /\ UNCHANGED <<server, busy, result, error, requested, open, create, fresh, faults>>

CountFails ==
    /\ Loading /\ load.step = "count"
    /\ Fault
    /\ load' = [load EXCEPT !.step = "answered", !.total = 0, !.calm = FALSE]
    /\ UNCHANGED <<server, busy, result, error, requested, open, create, fresh>>

\* Faulty variant: the flag is reset at the end of the `try` block.
StopLoadingIfAnswered(answered) == isLoading' = ~answered

\* `finally`: whatever became of the load.
StopLoading(answered) == isLoading' = FALSE

\* Faulty variant: pages are counted from 0 again.
LoadSucceedsFromZero ==
    /\ Loading /\ load.step = "answered"
    /\ result' = [projects |-> load.projects, page |-> load.page, total |-> load.total]
    /\ requested' = load.page - 1
    /\ fresh' = load.calm
    /\ load' = None
    /\ StopLoading(TRUE)
    /\ UNCHANGED <<server, isCreating, error, open, create, faults>>

LoadSucceeds ==
    /\ Loading /\ load.step = "answered"
    /\ result' = [projects |-> load.projects, page |-> load.page, total |-> load.total]
    /\ requested' = load.page
    /\ fresh' = load.calm
    /\ load' = None
    /\ StopLoading(TRUE)
    /\ UNCHANGED <<server, isCreating, error, open, create, faults>>

\* The SELECT fails or the answer does not arrive; the page keeps what it shows.
LoadFails ==
    /\ Loading
    /\ Fault
    /\ error' = TRUE
    /\ load' = None
    /\ StopLoading(FALSE)
    /\ UNCHANGED <<server, isCreating, result, requested, open, create, fresh>>

-----------------------------------------------------------------------------
(* openCreate, the dialog and submitProject.                                *)
Open ==
    /\ ~open
    /\ open' = TRUE
    /\ UNCHANGED <<server, busy, result, load, error, requested, create, fresh, faults>>

Cancel ==
    /\ open /\ ~isCreating
    /\ open' = FALSE
    /\ UNCHANGED <<server, busy, result, load, error, requested, create, fresh, faults>>

Submit ==
    /\ open /\ ~isCreating
    /\ Room
    /\ isCreating' = TRUE
    /\ create' = [project |-> None]
    /\ load' = Disturbed
    /\ UNCHANGED <<server, isLoading, result, error, requested, open, fresh, faults>>

\* The server carries Create out.
Inserts(p) ==
    /\ Creating /\ create.project = None
    /\ p \notin ever
    /\ rows' = rows \cup {p}
    /\ ever' = ever \cup {p}
    /\ create' = [project |-> p]
    /\ UNCHANGED <<busy, result, load, error, requested, open, fresh, faults, others>>

\* Faulty variant: the first page is not cut.
WithUncut(shown, p) ==
    [shown EXCEPT !.projects = IF shown.page = 1 THEN <<p>> \o @ ELSE @, !.total = @ + 1]

\* The list with the created project in front, without another load.
First(s, n) == SubSeq(s, 1, IF Len(s) < n THEN Len(s) ELSE n)
With(shown, p) ==
    [shown EXCEPT !.projects = IF shown.page = 1 THEN First(<<p>> \o @, PageSize) ELSE @,
                  !.total = @ + 1]

\* Faulty variant: the flag is reset at the end of the `try` block.
StopCreatingIfCreated(created) == isCreating' = ~created

\* `finally`: whatever became of the create.
StopCreating(created) == isCreating' = FALSE

CreateSucceeds ==
    /\ Creating /\ create.project # None
    /\ IF result # None
       THEN /\ result' = With(result, create.project)
            /\ UNCHANGED requested
       ELSE /\ result' = [projects |-> <<create.project>>, page |-> 1, total |-> 1]
            /\ requested' = 1
    /\ open' = FALSE
    /\ create' = None
    /\ StopCreating(TRUE)
    /\ UNCHANGED <<server, isLoading, load, error, fresh, faults>>

\* Create is refused (ProjectForm keeps the dialog), or it fails or its answer is
\* lost, with or without the row; a row that comes later is one of another tab.
CreateFails ==
    /\ Creating
    /\ \/ create.project = None /\ UNCHANGED <<fresh, faults>>
       \/ Fault /\ fresh' = FALSE
    /\ create' = None
    /\ StopCreating(FALSE)
    /\ UNCHANGED <<server, isLoading, result, load, error, requested, open>>

-----------------------------------------------------------------------------
(* Other tabs of the user.                                                  *)
Other ==
    /\ others < MaxOthers
    /\ others' = others + 1
    /\ load' = Disturbed
    /\ fresh' = FALSE
    /\ UNCHANGED <<busy, result, error, requested, open, create, faults>>

OtherCreates(p) ==
    /\ Room
    /\ p \notin ever
    /\ rows' = rows \cup {p}
    /\ ever' = ever \cup {p}
    /\ Other

OtherDeletes(p) ==
    /\ p \in rows
    /\ rows' = rows \ {p}
    /\ UNCHANGED ever
    /\ Other

Server == Selects \/ Counts \/ \E p \in Project : Inserts(p)
Arrivals == LoadSucceeds \/ CreateSucceeds

Next ==
    \/ \E page \in 1..Cardinality(Project) + 1 : TurnPage(page)
    \/ TryAgain
    \/ Server \/ Arrivals
    \/ CountFails \/ LoadFails \/ CreateFails
    \/ Open \/ Cancel \/ Submit
    \/ \E p \in Project : OtherCreates(p) \/ OtherDeletes(p)

Spec == Init /\ [][Next]_vars

\* The server handles what it was sent and its answers arrive, or the request
\* fails; the user need do nothing.
Fairness ==
    /\ WF_vars(Selects \/ Counts \/ LoadSucceeds)
    /\ WF_vars(CreateSucceeds \/ \E p \in Project : Inserts(p))
FairSpec == Spec /\ Fairness

-----------------------------------------------------------------------------
(* Properties.                                                              *)

\* While no load overlapped a write, nothing failed and nobody else wrote, the
\* page shows the truth without loading again: the total is right, each project is
\* there and shown once, and the first page is full (submitProject, loadProjects, List).
ShownIsTrue ==
    fresh /\ ~Creating =>
        /\ result.total = Cardinality(rows)
        /\ \A i \in DOMAIN result.projects : result.projects[i] \in rows
        /\ \A i, j \in DOMAIN result.projects :
              result.projects[i] = result.projects[j] => i = j
        /\ Len(result.projects) <= Length(result.total, result.page)
        /\ result.page = 1 => Len(result.projects) = Length(result.total, 1)

\* Neither the list nor the create dialog stays busy, however loads and creates overlap
\* and whatever fails: the flags that disable their buttons are reset (`finally` of
\* loadProjects and submitProject).
NothingStaysBusy == (isLoading ~> ~isLoading) /\ (isCreating ~> ~isCreating)
=============================================================================
