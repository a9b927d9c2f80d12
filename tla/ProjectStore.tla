---------------------------- MODULE ProjectStore ----------------------------
(***************************************************************************)
(* The `projects` table and the three statements the program runs against  *)
(* it: the INSERT of Create, the UPDATE of Update and the soft delete of   *)
(* Delete (server/handlers/project_handlers.go/project_handler.go).  It is *)
(* the abstract specification of project storage: ProjectApi, which models *)
(* the HTTP handlers step by step, implements it, and InboundMail takes it *)
(* as the environment of the mail server.                                  *)
(***************************************************************************)
CONSTANTS
    Project,    \* primary keys a row can get (UUIDv7, assigned by UuidBase)
    User,       \* accounts that can own a project
    Address,    \* inbound addresses GenerateAddress can return
    Content,    \* what a client may send as (title, description, status)
    NoRow       \* the key is not in the table

VARIABLE projects

Row == [user : User, address : Address, content : Content, deleted : BOOLEAN]

ASSUME NoRowAssumption == NoRow \notin Row /\ NoRow \notin Address

TypeOK_Projects == projects \in [Project -> Row \cup {NoRow}]

-----------------------------------------------------------------------------
Rows == {p \in Project : projects[p] # NoRow}

\* Bun adds `deleted_at IS NULL` to every SELECT, UPDATE and DELETE of a model
\* with a soft_delete column.
Active(p) == projects[p] # NoRow /\ ~projects[p].deleted

\* Faulty variant: the condition on user_id is forgotten.
VisibleToAnybody(p, u) == Active(p)

\* The rows a statement with `id = p AND user_id = u` applies to: p or nothing.
VisibleTo(p, u) == Active(p) /\ projects[p].user = u

\* Faulty variant: the unique index only covers rows that are not deleted.
TakenByActive(a) == \E p \in Project : Active(p) /\ projects[p].address = a

\* The unique index covers every row, the soft-deleted ones included.
Taken(a) == \E p \in Rows : projects[p].address = a

InsertProject(p, u, a, c) ==
    /\ p \notin Rows
    /\ ~Taken(a)
    /\ projects' = [projects EXCEPT
            ![p] = [user |-> u, address |-> a, content |-> c, deleted |-> FALSE]]

SetContent(p, u, c) ==
    /\ VisibleTo(p, u)
    /\ projects' = [projects EXCEPT ![p].content = c]

SoftDelete(p, u) ==
    /\ VisibleTo(p, u)
    /\ projects' = [projects EXCEPT ![p].deleted = TRUE]

-----------------------------------------------------------------------------
StoreInit == projects = [p \in Project |-> NoRow]

StoreNext ==
    \E p \in Project, u \in User :
        \/ \E a \in Address, c \in Content : InsertProject(p, u, a, c)
        \/ \E c \in Content : SetContent(p, u, c)
        \/ SoftDelete(p, u)

StoreSpec == StoreInit /\ [][StoreNext]_projects

-----------------------------------------------------------------------------
(* No two rows, deleted or not, ever share an inbound address, so a message *)
(* has at most one owner, and mail for a deleted project can never reach a  *)
(* project created later (create_emails.up.sql, the unique index).          *)
AddressesUnique ==
    \A p, q \in Rows : projects[p].address = projects[q].address => p = q

(* A row keeps its owner and its inbound address for ever, and a deleted    *)
(* row is never written again: the handlers have no way back.               *)
RowsAreStable ==
    [][\A p \in Rows :
          /\ projects'[p] # NoRow
          /\ projects'[p].user = projects[p].user
          /\ projects'[p].address = projects[p].address
          /\ projects[p].deleted => projects'[p] = projects[p]]_projects
=============================================================================
