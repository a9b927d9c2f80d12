------------------------------ MODULE ProjectApi ------------------------------
(***************************************************************************)
(* The HTTP handlers of one project at a time, Create, Get, Update and     *)
(* Delete (server/handlers/project_handlers.go/project_handler.go), as the *)
(* statements they run one after the other.  Requests run concurrently,    *)
(* one goroutine each, and nothing holds a transaction or a lock between   *)
(* the SELECT of a request and its UPDATE.                                 *)
(*                                                                         *)
(* A fault is a statement that returns an error: the database is away, or  *)
(* the client cancelled the request's context.  The statement may have     *)
(* been carried out all the same.                                          *)
(***************************************************************************)
EXTENDS ProjectStore, Naturals, FiniteSets

CONSTANTS
    Handler,        \* requests the server works on at once
    NoRequest,      \* the handler is free
    ValidContent,   \* contents whose status is one of the four statuses
    NamedContent,   \* contents whose name and description are not blank
    Attempts,       \* models.ProjectEmailAddressAttempts
    MaxCreates,     \* bound on the Create requests of a behaviour
    MaxFaults       \* bound on the faults of a behaviour

Op == {"create", "get", "update", "delete"}
Step == {"insert", "select", "write", "done"}
Answer == {"none", "ok", "bad request", "not found", "error"}

\* `project` is the id in the path; for Create, the id of the row it inserted.
Request ==
    [op : Op, user : User, project : Project \cup {NoRow}, content : Content,
     step : Step, attempt : 0..Attempts - 1, answer : Answer]

ASSUME ApiAssumption ==
    /\ NoRequest \notin Request
    /\ NoRow \notin Project
    /\ ValidContent \subseteq Content
    /\ NamedContent \subseteq Content
    /\ Attempts \in Nat \ {0}
    /\ MaxCreates \in Nat
    /\ MaxFaults \in Nat

VARIABLES
    request,    \* per handler: the request it works on
    creates,    \* Create requests begun so far
    faults      \* faults so far

vars == <<projects, request, creates, faults>>

TypeOK ==
    /\ TypeOK_Projects
    /\ request \in [Handler -> Request \cup {NoRequest}]
    /\ creates \in 0..MaxCreates
    /\ faults \in 0..MaxFaults

Busy(h) == request[h] # NoRequest
At(h, step) == Busy(h) /\ request[h].step = step
Fault == faults < MaxFaults /\ faults' = faults + 1

\* Any content stands for none: Get and Delete read no body, and a request that
\* is answered needs its content and its attempts no more.
NoBody == CHOOSE c \in Content : TRUE

\* A request that moves on to a statement, tries again, or has its answer.
Moved(r, step) == [r EXCEPT !.step = step]
Retried(r) == [r EXCEPT !.attempt = @ + 1]
Ended(r, a) == [Moved(r, "done") EXCEPT !.answer = a, !.content = NoBody, !.attempt = 0]
Created(r, p) == [Ended(r, "ok") EXCEPT !.project = p]

Becomes(h, r) == request' = [request EXCEPT ![h] = r]
AnswerWith(h, a) == Becomes(h, Ended(request[h], a))

Init ==
    /\ StoreInit
    /\ request = [h \in Handler |-> NoRequest]
    /\ creates = 0
    /\ faults = 0

-----------------------------------------------------------------------------
(* A request arrives: Bind and the checks that read no shared state.        *)

\* Create checks the status, Update the status, the name and the description.
Accepted(op, c) ==
    /\ op \in {"create", "update"} => c \in ValidContent
    /\ op = "update" => c \in NamedContent

Arrived(op, u, p, c) ==
    [op |-> op, user |-> u, project |-> p,
     content |-> IF Accepted(op, c) THEN c ELSE NoBody,
     step |-> IF ~Accepted(op, c) THEN "done" ELSE IF op = "create" THEN "insert" ELSE "select",
     attempt |-> 0,
     answer |-> IF Accepted(op, c) THEN "none" ELSE "bad request"]

Begin(h, op, u, p, c) ==
    /\ ~Busy(h)
    /\ op \in {"get", "delete"} => c = NoBody
    /\ op = "create" <=> p = NoRow
    /\ op = "create" => creates < MaxCreates
    /\ creates' = IF op = "create" THEN creates + 1 ELSE creates
    /\ Becomes(h, Arrived(op, u, p, c))
    /\ UNCHANGED <<projects, faults>>

-----------------------------------------------------------------------------
(* Create.                                                                  *)
Inserted(h, p, a) ==
    /\ At(h, "insert")
    /\ InsertProject(p, request[h].user, a, request[h].content)
    /\ Becomes(h, Created(request[h], p))
    /\ UNCHANGED <<creates, faults>>

\* Faulty variant: the loop starts over instead of giving up.
AddressTakenForEver(h, a) ==
    /\ At(h, "insert")
    /\ Taken(a)
    /\ Becomes(h, [request[h] EXCEPT !.attempt = (@ + 1) % Attempts])
    /\ UNCHANGED <<projects, creates, faults>>

\* Faulty variant: one attempt too many.
AddressTakenOnceMore(h, a) ==
    /\ At(h, "insert")
    /\ Taken(a)
    /\ IF request[h].attempt < Attempts
       THEN Becomes(h, Retried(request[h]))
       ELSE AnswerWith(h, "error")
    /\ UNCHANGED <<projects, creates, faults>>

\* The unique index refuses the address: the next attempt, or 500 after the last.
AddressTaken(h, a) ==
    /\ At(h, "insert")
    /\ Taken(a)
    /\ IF request[h].attempt + 1 < Attempts
       THEN Becomes(h, Retried(request[h]))
       ELSE AnswerWith(h, "error")
    /\ UNCHANGED <<projects, creates, faults>>

\* Faulty variant: any error is taken for a duplicate address.
InsertRetried(h) ==
    /\ At(h, "insert")
    /\ Fault
    /\ \/ UNCHANGED projects
       \/ \E p \in Project, a \in Address :
            InsertProject(p, request[h].user, a, request[h].content)
    /\ UNCHANGED <<request, creates>>

InsertFails(h) ==
    /\ At(h, "insert")
    /\ Fault
    /\ \/ UNCHANGED projects
       \/ \E p \in Project, a \in Address :
            InsertProject(p, request[h].user, a, request[h].content)
    /\ AnswerWith(h, "error")
    /\ UNCHANGED creates

-----------------------------------------------------------------------------
(* Get, Update and Delete: the SELECT by id and user.                       *)
Selected(h) ==
    /\ At(h, "select")
    /\ LET r == request[h] IN
       IF ~VisibleTo(r.project, r.user) THEN AnswerWith(h, "not found")
       ELSE IF r.op = "get" THEN AnswerWith(h, "ok")
       ELSE Becomes(h, Moved(r, "write"))
    /\ UNCHANGED <<projects, creates, faults>>

SelectFails(h) ==
    /\ At(h, "select")
    /\ Fault
    /\ AnswerWith(h, "error")
    /\ UNCHANGED <<projects, creates>>

\* Faulty variant: the UPDATE finds its row by the primary key alone.
ApplyByKey(h) ==
    LET r == request[h] IN
    IF r.op = "update" THEN projects' = [projects EXCEPT ![r.project].content = r.content]
    ELSE projects' = [projects EXCEPT ![r.project].deleted = TRUE]

\* The UPDATE of Update (title, description, status) and the soft delete of
\* Delete carry the conditions of the SELECT again, and may find no row.
Apply(h) ==
    LET r == request[h] IN
    \/ r.op = "update" /\ SetContent(r.project, r.user, r.content)
    \/ r.op = "delete" /\ SoftDelete(r.project, r.user)
    \/ ~VisibleTo(r.project, r.user) /\ UNCHANGED projects

\* Nobody looks at the number of rows it changed.
Written(h) ==
    /\ At(h, "write")
    /\ Apply(h)
    /\ AnswerWith(h, "ok")
    /\ UNCHANGED <<creates, faults>>

\* Faulty variant: the error of the statement is not looked at.
WriteFailsUnseen(h) ==
    /\ At(h, "write")
    /\ Fault
    /\ Apply(h) \/ UNCHANGED projects
    /\ AnswerWith(h, "ok")
    /\ UNCHANGED creates

WriteFails(h) ==
    /\ At(h, "write")
    /\ Fault
    /\ Apply(h) \/ UNCHANGED projects
    /\ AnswerWith(h, "error")
    /\ UNCHANGED creates

-----------------------------------------------------------------------------
\* The answer is sent.
Finish(h) ==
    /\ At(h, "done")
    /\ Becomes(h, NoRequest)
    /\ UNCHANGED <<projects, creates, faults>>

\* The process stops in the middle of everything.
Crash ==
    /\ Fault
    /\ request' = [h \in Handler |-> NoRequest]
    /\ UNCHANGED <<projects, creates>>

Work(h) ==
    \/ At(h, "insert") /\ \E p \in Project, a \in Address : Inserted(h, p, a)
    \/ \E a \in Address : AddressTaken(h, a)
    \/ InsertFails(h)
    \/ Selected(h)
    \/ SelectFails(h)
    \/ Written(h)
    \/ WriteFails(h)
    \/ Finish(h)

Next ==
    \/ \E h \in Handler :
        \/ /\ ~Busy(h)
           /\ \E op \in Op, u \in User, p \in Project \cup {NoRow}, c \in Content :
                Begin(h, op, u, p, c)
        \/ Work(h)
    \/ Crash

Spec == Init /\ [][Next]_vars

\* A goroutine that can take its next step does so in the end.
FairSpec == Spec /\ \A h \in Handler : WF_vars(Work(h))

-----------------------------------------------------------------------------
\* A change of p is the write of a request of the user who owns it.
WrittenByOwner(p) ==
    projects'[p] # projects[p] =>
        \E h \in Handler :
            /\ At(h, "write")
            /\ request[h].user = projects[p].user
            /\ request[h].project = p

(* A project is edited or deleted only by a request of the user who owns    *)
(* it, for that project, however many requests of others are under way.     *)
OnlyOwnerWrites == [][\A p \in Rows : WrittenByOwner(p)]_vars

(* A Create request makes at most one project, whatever its INSERT returns. *)
OneProjectPerCreate == Cardinality(Rows) <= creates

(* A 201 means that the row is there, belongs to the user and was not also  *)
(* promised to another request; a 204 means that the project is deleted.    *)
(* It holds although the row was read in an earlier step and the number of  *)
(* rows written is not looked at.                                           *)
ConfirmedIsDone ==
    \A h \in Handler : At(h, "done") /\ request[h].answer = "ok" =>
        LET r == request[h] IN
        /\ r.op = "create" =>
              /\ r.project \in Rows /\ projects[r.project].user = r.user
              /\ \A i \in Handler \ {h} : Busy(i) /\ request[i].op = "create" =>
                    request[i].project # r.project
        /\ r.op = "delete" => r.project \in Rows /\ ~Active(r.project)

(* Whatever path content takes into the table, its status is one of the     *)
(* four (models.ValidProjectStatuses).                                      *)
StatusIsValid == \A p \in Rows : projects[p].content \in ValidContent

(* Every request is answered, unless the process stops: the attempts of     *)
(* Create are bounded.                                                      *)
EveryRequestEnds == \A h \in Handler : Busy(h) ~> ~Busy(h)

(* What the statements of a request rely on: the content they write passed  *)
(* the checks, the row they write to was selected for its user and is still *)
(* that user's, and a request of Create names no row but the one it made.   *)
CarriesValid(r) ==
    r.step = "insert" \/ (r.op = "update" /\ r.step # "done") =>
        r.content \in ValidContent

NamesItsRow(r) ==
    /\ r.step = "insert" => r.op = "create" /\ r.project = NoRow
    /\ r.step \in {"select", "write"} => r.op # "create"
    /\ r.step = "write" => /\ r.op # "get" /\ r.project \in Rows
                           /\ projects[r.project].user = r.user
    /\ IF r.op = "create" THEN r.project \in Rows \cup {NoRow} ELSE r.project \in Project

RequestsConsistent ==
    \A h \in Handler : Busy(h) => CarriesValid(request[h]) /\ NamesItsRow(request[h])

(* projects_test.go:296 and 413 expect 404 of an Update and a Delete of a   *)
(* project that is not there.  When it is deleted between the SELECT and    *)
(* the write, both answer as if they had done it.                           *)
ConfirmedWritesFindTheirRow ==
    [][\A h \in Handler :
          Busy(h) /\ request[h].op \in {"update", "delete"} /\ request[h].step = "write"
              /\ Busy(h)' /\ request'[h].answer = "ok" =>
          VisibleTo(request[h].project, request[h].user)]_vars
=============================================================================
