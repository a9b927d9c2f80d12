--------------------------- MODULE ProjectApiProofs ---------------------------
(***************************************************************************)
(* Proofs about the HTTP handlers of ProjectApi, for any numbers of        *)
(* handlers, users, projects, addresses, attempts and faults.              *)
(***************************************************************************)
EXTENDS ProjectApi, ProjectStoreProofs, FiniteSetTheorems

-----------------------------------------------------------------------------
(* How a request is updated.                                                *)
SameRequest(r, q) ==
    r.op = q.op /\ r.user = q.user /\ r.content = q.content /\ r.attempt = q.attempt

SameSender(r, q) == r.op = q.op /\ r.user = q.user

LEMMA MovedRequest ==
  ASSUME NEW r \in Request, NEW step \in Step
  PROVE  /\ Moved(r, step) \in Request /\ Moved(r, step).step = step
         /\ Moved(r, step).project = r.project /\ Moved(r, step).answer = r.answer
         /\ SameRequest(Moved(r, step), r)
  BY DEF Request, Moved, SameRequest

LEMMA RetriedRequest ==
  ASSUME NEW r \in Request, r.attempt + 1 < Attempts
  PROVE  /\ Retried(r) \in Request
         /\ Retried(r).step = r.step /\ Retried(r).project = r.project
         /\ Retried(r).op = r.op /\ Retried(r).user = r.user /\ Retried(r).content = r.content
         /\ Retried(r).answer = r.answer
  BY ApiAssumption DEF Request, Retried

LEMMA NoBodyIsContent == ASSUME NEW c \in Content PROVE NoBody \in Content
  BY DEF NoBody

LEMMA EndedRequest ==
  ASSUME NEW r \in Request, NEW a \in Answer
  PROVE  /\ Ended(r, a) \in Request /\ Ended(r, a).step = "done" /\ Ended(r, a).answer = a
         /\ Ended(r, a).project = r.project /\ SameSender(Ended(r, a), r)
<1>. DEFINE m == Moved(r, "done")
<1>1. m \in Request /\ m.step = "done" /\ m.project = r.project /\ SameSender(m, r)
  BY MovedRequest DEF Step, SameRequest, SameSender
<1>2. NoBody \in Content /\ 0 \in 0..Attempts - 1
  BY NoBodyIsContent, ApiAssumption DEF Request
<1>. HIDE DEF m
<1>3. LET e == [m EXCEPT !.answer = a, !.content = NoBody, !.attempt = 0] IN
      /\ e \in Request /\ e.step = m.step /\ e.answer = a
      /\ e.project = m.project /\ SameSender(e, m)
  BY <1>1, <1>2 DEF Request, SameSender
<1>. QED
  BY <1>1, <1>3 DEF Ended, SameSender, m

LEMMA CreatedRequest ==
  ASSUME NEW r \in Request, NEW p \in Project
  PROVE  /\ Created(r, p) \in Request /\ Created(r, p).step = "done"
         /\ Created(r, p).answer = "ok" /\ Created(r, p).project = p
         /\ SameSender(Created(r, p), r)
<1>. DEFINE m == Ended(r, "ok")
<1>1. m \in Request /\ m.step = "done" /\ m.answer = "ok" /\ SameSender(m, r)
  BY EndedRequest DEF Answer
<1>. HIDE DEF m
<1>2. LET e == [m EXCEPT !.project = p] IN
      /\ e \in Request /\ e.step = m.step /\ e.answer = m.answer
      /\ e.project = p /\ SameSender(e, m)
  BY <1>1 DEF Request, SameSender
<1>. QED
  BY <1>1, <1>2 DEF Created, SameSender, m

LEMMA BecomesType ==
  ASSUME TypeOK, NEW h \in Handler, NEW r \in Request \cup {NoRequest}, Becomes(h, r)
  PROVE  /\ request' \in [Handler -> Request \cup {NoRequest}]
         /\ request'[h] = r /\ \A k \in Handler \ {h} : request'[k] = request[k]
  BY DEF TypeOK, Becomes

LEMMA BusyRequest ==
  ASSUME TypeOK, NEW h \in Handler, Busy(h)
  PROVE  request[h] \in Request
  BY DEF TypeOK, Busy

-----------------------------------------------------------------------------
(* What a handler's step does to the table: one of the statements of        *)
(* ProjectStore, or nothing.                                                *)
LEMMA ApplyStores ==
  ASSUME TypeOK, NEW h \in Handler, Busy(h), request[h].project \in Project, Apply(h)
  PROVE  [StoreNext]_projects
<1>1. request[h].user \in User /\ request[h].content \in Content
  BY BusyRequest DEF Request
<1>. QED
  BY <1>1 DEF Apply, StoreNext

LEMMA InsertStores ==
  ASSUME TypeOK, NEW h \in Handler, Busy(h), NEW p \in Project, NEW a \in Address,
         InsertProject(p, request[h].user, a, request[h].content)
  PROVE  StoreNext
<1>1. request[h].user \in User /\ request[h].content \in Content
  BY BusyRequest DEF Request
<1>. QED
  BY <1>1 DEF StoreNext

(* The steps that write are the INSERT of a Create, and the second          *)
(* statement of an Update or a Delete.                                      *)
LEMMA StepWrites ==
  ASSUME [Next]_vars
  PROVE  \/ UNCHANGED projects
         \/ \E h \in Handler, p \in Project, a \in Address :
              /\ At(h, "insert")
              /\ InsertProject(p, request[h].user, a, request[h].content)
         \/ \E h \in Handler : At(h, "write") /\ Apply(h)
<1>1. ASSUME NEW h \in Handler, Work(h)
      PROVE  \/ UNCHANGED projects
             \/ \E p \in Project, a \in Address :
                  /\ At(h, "insert")
                  /\ InsertProject(p, request[h].user, a, request[h].content)
             \/ At(h, "write") /\ Apply(h)
  BY <1>1 DEF Work, Inserted, InsertFails, Written, WriteFails, AddressTaken, Selected,
     SelectFails, Finish
<1>. QED
  BY <1>1 DEF Next, Begin, Crash, vars

LEMMA StepStores ==
  ASSUME TypeOK, RequestsConsistent, [Next]_vars
  PROVE  [StoreNext]_projects
<1>1. ASSUME NEW h \in Handler, NEW p \in Project, NEW a \in Address, At(h, "insert"),
             InsertProject(p, request[h].user, a, request[h].content)
      PROVE  StoreNext
  BY <1>1, InsertStores DEF At
<1>2. ASSUME NEW h \in Handler, At(h, "write"), Apply(h)
      PROVE  [StoreNext]_projects
  <2>1. request[h].project \in Project
    BY <1>2 DEF RequestsConsistent, NamesItsRow, Rows, At
  <2>. QED
    BY <1>2, <2>1, ApplyStores DEF At
<1>. QED
  BY <1>1, <1>2, StepWrites

-----------------------------------------------------------------------------
(* Types.                                                                   *)
LEMMA BeginRequest ==
  ASSUME NEW op \in Op, NEW u \in User, NEW p \in Project \cup {NoRow}, NEW c \in Content
  PROVE  Arrived(op, u, p, c) \in Request
<1>1. 0 \in 0..Attempts - 1
  BY ApiAssumption
<1>2. (IF ~Accepted(op, c) THEN "done" ELSE IF op = "create" THEN "insert" ELSE "select") \in Step
  BY DEF Step
<1>3. (IF Accepted(op, c) THEN "none" ELSE "bad request") \in Answer
  BY DEF Answer
<1>4. (IF Accepted(op, c) THEN c ELSE NoBody) \in Content
  BY NoBodyIsContent
<1>. QED
  BY <1>1, <1>2, <1>3, <1>4 DEF Request, Arrived

(* The counters of a step.                                                  *)
LEMMA CounterStep ==
  ASSUME [Next]_vars
  PROVE  /\ UNCHANGED creates \/ (creates < MaxCreates /\ creates' = creates + 1)
         /\ UNCHANGED faults \/ Fault
<1>1. ASSUME NEW h \in Handler, NEW op \in Op, NEW u \in User,
             NEW p \in Project \cup {NoRow}, NEW c \in Content, Begin(h, op, u, p, c)
      PROVE  /\ UNCHANGED creates \/ (creates < MaxCreates /\ creates' = creates + 1)
             /\ UNCHANGED faults
  BY <1>1 DEF Begin
<1>2. ASSUME NEW h \in Handler, Work(h)
      PROVE  UNCHANGED creates /\ (UNCHANGED faults \/ Fault)
  BY <1>2 DEF Work, Inserted, AddressTaken, InsertFails, Selected, SelectFails, Written,
     WriteFails, Finish
<1>3. CASE Crash \/ UNCHANGED vars
  BY <1>3 DEF Crash, vars
<1>. QED
  BY <1>1, <1>2, <1>3 DEF Next

(* A step leaves the requests alone, ends them all, or updates one.         *)
LEMMA RequestStep ==
  ASSUME TypeOK, [Next]_vars
  PROVE  \/ UNCHANGED request
         \/ request' = [h \in Handler |-> NoRequest]
         \/ \E h \in Handler, r \in Request \cup {NoRequest} : Becomes(h, r)
<1>1. ASSUME NEW h \in Handler, NEW op \in Op, NEW u \in User,
             NEW p \in Project \cup {NoRow}, NEW c \in Content, Begin(h, op, u, p, c)
      PROVE  \E r \in Request \cup {NoRequest} : Becomes(h, r)
  BY <1>1, BeginRequest DEF Begin
<1>2. ASSUME NEW h \in Handler, Work(h)
      PROVE  \/ UNCHANGED request
             \/ \E r \in Request \cup {NoRequest} : Becomes(h, r)
  <2>1. request[h] \in Request
    BY <1>2, BusyRequest DEF Work, Inserted, AddressTaken, InsertFails, Selected,
       SelectFails, Written, WriteFails, Finish, At
  <2>2. ASSUME NEW p \in Project, NEW a \in Address, Inserted(h, p, a)
        PROVE  \E r \in Request \cup {NoRequest} : Becomes(h, r)
    BY <2>1, <2>2, CreatedRequest DEF Inserted
  <2>3. ASSUME NEW a \in Address, AddressTaken(h, a)
        PROVE  \E r \in Request \cup {NoRequest} : Becomes(h, r)
    BY <2>1, <2>3, RetriedRequest, EndedRequest DEF AddressTaken, AnswerWith, Answer
  <2>4. CASE \/ InsertFails(h) \/ SelectFails(h) \/ Written(h) \/ WriteFails(h)
    <3>1. AnswerWith(h, "ok") \/ AnswerWith(h, "error")
      BY <2>4 DEF InsertFails, SelectFails, Written, WriteFails
    <3>. QED
      BY <2>1, <3>1, EndedRequest DEF AnswerWith, Answer
  <2>5. CASE Selected(h)
    BY <2>1, <2>5, EndedRequest, MovedRequest DEF Selected, AnswerWith, Answer, Step
  <2>6. CASE Finish(h)
    BY <2>6 DEF Finish
  <2>. QED
    BY <1>2, <2>2, <2>3, <2>4, <2>5, <2>6 DEF Work
<1>. QED
  BY <1>1, <1>2 DEF Next, Crash, vars

LEMMA TypeStep ==
  ASSUME TypeOK, RequestsConsistent, [Next]_vars
  PROVE  TypeOK'
<1>1. TypeOK_Projects'
  BY StepStores, StoreStep DEF TypeOK
<1>2. request' \in [Handler -> Request \cup {NoRequest}]
  BY RequestStep, BecomesType DEF TypeOK
<1>3. creates' \in 0..MaxCreates
  BY ApiAssumption, CounterStep DEF TypeOK
<1>4. faults' \in 0..MaxFaults
  BY ApiAssumption, CounterStep DEF TypeOK, Fault
<1>. QED
  BY <1>1, <1>2, <1>3, <1>4 DEF TypeOK

-----------------------------------------------------------------------------
(* What the statements of a request rely on.                                *)
Consistent(r) == CarriesValid(r) /\ NamesItsRow(r)

LEMMA StepKeepsRows ==
  ASSUME TypeOK, RequestsConsistent, [Next]_vars
  PROVE  \A q \in Rows : RowKept(q)
<1>1. CASE UNCHANGED projects
  BY <1>1 DEF RowKept, Rows
<1>2. CASE StoreNext
  BY <1>2, StoreKeepsEachRow DEF TypeOK
<1>. QED
  BY <1>1, <1>2, StepStores

LEMMA StillConsistent ==
  ASSUME \A q \in Rows : RowKept(q), NEW r, Consistent(r)
  PROVE  Consistent(r)'
  BY DEF Consistent, CarriesValid, NamesItsRow, RowKept

LEMMA UpdatedConsistent ==
  ASSUME TypeOK, RequestsConsistent, \A q \in Rows : RowKept(q),
         NEW h \in Handler, NEW r \in Request \cup {NoRequest}, Becomes(h, r),
         r # NoRequest => Consistent(r)'
  PROVE  RequestsConsistent'
<1>1. ASSUME NEW k \in Handler, request'[k] # NoRequest, NEW q, q = request'[k]
      PROVE  Consistent(q)'
  <2>1. CASE k = h
    BY <1>1, <2>1, BecomesType
  <2>2. CASE k # h
    <3>1. q = request[k]
      BY <1>1, <2>2, BecomesType
    <3>2. Consistent(q)
      BY <1>1, <3>1 DEF RequestsConsistent, Busy, Consistent
    <3>. QED
      BY <3>2, StillConsistent
  <2>. QED
    BY <2>1, <2>2
<1>. QED
  BY <1>1 DEF RequestsConsistent, Busy, Consistent

LEMMA EndedConsistent ==
  ASSUME NEW r \in Request, NEW a \in Answer, Consistent(r), \A q \in Rows : RowKept(q)
  PROVE  Consistent(Ended(r, a))'
<1>1. /\ Ended(r, a).step = "done" /\ Ended(r, a).project = r.project
      /\ Ended(r, a).op = r.op
  BY EndedRequest DEF SameSender
<1>. QED
  BY <1>1 DEF Consistent, CarriesValid, NamesItsRow, RowKept

LEMMA ConsistentStep ==
  ASSUME TypeOK, RequestsConsistent, [Next]_vars
  PROVE  RequestsConsistent'
<1>. \A q \in Rows : RowKept(q)
  BY StepKeepsRows
<1>1. ASSUME NEW h \in Handler, NEW op \in Op, NEW u \in User,
             NEW p \in Project \cup {NoRow}, NEW c \in Content, Begin(h, op, u, p, c)
      PROVE  RequestsConsistent'
  <2>. DEFINE r == Arrived(op, u, p, c)
  <2>1. r \in Request /\ Becomes(h, r)
    BY <1>1, BeginRequest DEF Begin
  <2>2. CarriesValid(r)
    BY <1>1 DEF CarriesValid, Accepted, Arrived
  <2>3. NamesItsRow(r)'
    BY <1>1 DEF NamesItsRow, Begin, Arrived
  <2>. QED
    BY <2>1, <2>2, <2>3, UpdatedConsistent DEF Consistent
<1>2. ASSUME NEW h \in Handler, Work(h)
      PROVE  RequestsConsistent'
  <2>1. PICK r \in Request : r = request[h] /\ Consistent(r)
    BY <1>2, BusyRequest DEF Work, Inserted, AddressTaken, InsertFails, Selected,
       SelectFails, Written, WriteFails, Finish, At, RequestsConsistent, Consistent
  <2>2. ASSUME NEW a \in Answer, AnswerWith(h, a)
        PROVE  RequestsConsistent'
    BY <2>1, <2>2, EndedConsistent, EndedRequest, UpdatedConsistent DEF AnswerWith
  <2>3. ASSUME NEW p \in Project, NEW a \in Address, Inserted(h, p, a)
        PROVE  RequestsConsistent'
    <3>1. /\ Created(r, p) \in Request /\ Created(r, p).step = "done"
          /\ Created(r, p).project = p /\ Created(r, p).op = r.op
      BY <2>1, CreatedRequest DEF SameSender
    <3>2. r.op = "create"
      BY <2>1, <2>3 DEF Inserted, At, Consistent, NamesItsRow
    <3>3. p \in Rows'
      <4>1. projects'[p] \in Row
        BY <2>1, <2>3 DEF Inserted, InsertProject, TypeOK, TypeOK_Projects, Row, Request
      <4>. QED
        BY <4>1, NoRowAssumption DEF Rows
    <3>4. Consistent(Created(r, p))'
      BY <3>1, <3>2, <3>3 DEF Consistent, CarriesValid, NamesItsRow
    <3>. QED
      BY <2>1, <2>3, <3>1, <3>4, UpdatedConsistent DEF Inserted
  <2>4. ASSUME NEW a \in Address, AddressTaken(h, a)
        PROVE  RequestsConsistent'
    <3>1. CASE r.attempt + 1 < Attempts
      <4>1. /\ Retried(r) \in Request /\ Retried(r).step = r.step
            /\ Retried(r).project = r.project /\ Retried(r).op = r.op
            /\ Retried(r).user = r.user /\ Retried(r).content = r.content
        BY <2>1, <3>1, RetriedRequest
      <4>2. Consistent(Retried(r))
        BY <2>1, <4>1 DEF Consistent, CarriesValid, NamesItsRow
      <4>3. Consistent(Retried(r))'
        BY <4>2, StillConsistent
      <4>. QED
        BY <2>1, <2>4, <3>1, <4>1, <4>3, UpdatedConsistent DEF AddressTaken
    <3>. QED
      BY <2>1, <2>2, <2>4, <3>1 DEF AddressTaken, Answer
  <2>5. CASE Selected(h)
    <3>1. CASE VisibleTo(r.project, r.user) /\ r.op # "get"
      <4>1. /\ Moved(r, "write") \in Request /\ Moved(r, "write").step = "write"
            /\ Moved(r, "write").project = r.project
            /\ Moved(r, "write").op = r.op /\ Moved(r, "write").user = r.user
            /\ Moved(r, "write").content = r.content
        BY <2>1, MovedRequest DEF Step, SameRequest
      <4>2. r.step = "select"
        BY <2>1, <2>5 DEF Selected, At
      <4>3. CarriesValid(Moved(r, "write"))
        BY <2>1, <4>1, <4>2 DEF Consistent, CarriesValid
      <4>4. r.op # "create" /\ r.project \in Rows /\ projects[r.project].user = r.user
        BY <2>1, <3>1, <4>2 DEF Consistent, NamesItsRow, VisibleTo, Active, Rows
      <4>5. r.project \in Project /\ RowKept(r.project)
        BY <4>4 DEF Rows
      <4>6. NamesItsRow(Moved(r, "write"))'
        BY <3>1, <4>1, <4>4, <4>5 DEF NamesItsRow, RowKept
      <4>. QED
        BY <2>1, <2>5, <3>1, <4>1, <4>3, <4>6, UpdatedConsistent DEF Selected, Consistent
    <3>2. CASE AnswerWith(h, "not found") \/ AnswerWith(h, "ok")
      BY <2>2, <3>2 DEF Answer
    <3>. QED
      BY <2>1, <2>5, <3>1, <3>2 DEF Selected
  <2>6. CASE Finish(h)
    BY <2>6, UpdatedConsistent DEF Finish
  <2>7. CASE InsertFails(h) \/ SelectFails(h) \/ Written(h) \/ WriteFails(h)
    BY <2>2, <2>7 DEF InsertFails, SelectFails, Written, WriteFails, Answer
  <2>. QED
    BY <1>2, <2>3, <2>4, <2>5, <2>6, <2>7 DEF Work
<1>3. CASE Crash
  BY <1>3 DEF Crash, RequestsConsistent, Busy
<1>4. CASE UNCHANGED vars
  BY <1>4 DEF vars, RequestsConsistent, Busy, CarriesValid, NamesItsRow, Rows
<1>. QED
  BY <1>1, <1>2, <1>3, <1>4 DEF Next

-----------------------------------------------------------------------------
(* What the table holds.                                                    *)
LEMMA StatusStep ==
  ASSUME TypeOK, RequestsConsistent, StatusIsValid, [Next]_vars
  PROVE  StatusIsValid'
<1>1. CASE UNCHANGED projects
  BY <1>1 DEF StatusIsValid, Rows
<1>2. ASSUME NEW h \in Handler, NEW p \in Project, NEW a \in Address, At(h, "insert"),
             InsertProject(p, request[h].user, a, request[h].content)
      PROVE  StatusIsValid'
  <2>1. request[h].content \in ValidContent
    BY <1>2 DEF RequestsConsistent, CarriesValid, At
  <2>2. \A q \in Project : q # p => projects'[q] = projects[q]
    BY <1>2 DEF InsertProject, TypeOK, TypeOK_Projects
  <2>3. projects'[p].content = request[h].content
    BY <1>2 DEF InsertProject, TypeOK, TypeOK_Projects
  <2>. QED
    BY <2>1, <2>2, <2>3 DEF StatusIsValid, Rows
<1>3. ASSUME NEW h \in Handler, At(h, "write"), Apply(h)
      PROVE  StatusIsValid'
  <2>. DEFINE r == request[h]
             p == request[h].project
  <2>1. CASE r.op = "update" /\ SetContent(p, r.user, r.content)
    <3>1. r.content \in ValidContent
      BY <1>3, <2>1 DEF RequestsConsistent, CarriesValid, At
    <3>2. p \in Project /\ projects[p] \in Row
      BY <1>3, <2>1 DEF RequestsConsistent, NamesItsRow, At, Rows, TypeOK, TypeOK_Projects
    <3>3. \A q \in Project : q # p => projects'[q] = projects[q]
      BY <2>1, <3>2 DEF SetContent, TypeOK, TypeOK_Projects
    <3>4. projects'[p].content = r.content
      BY <2>1, <3>2 DEF SetContent, TypeOK, TypeOK_Projects, Row
    <3>. QED
      BY <3>1, <3>3, <3>4 DEF StatusIsValid, Rows
  <2>2. CASE r.op = "delete" /\ SoftDelete(p, r.user)
    <3>1. p \in Rows /\ projects[p] \in Row
      BY <1>3, <2>2 DEF RequestsConsistent, NamesItsRow, At, Rows, TypeOK, TypeOK_Projects
    <3>2. \A q \in Project : q # p => projects'[q] = projects[q]
      BY <2>2, <3>1 DEF SoftDelete, TypeOK, TypeOK_Projects, Rows
    <3>3. projects'[p].content = projects[p].content
      BY <2>2, <3>1 DEF SoftDelete, TypeOK, TypeOK_Projects, Row, Rows
    <3>. QED
      BY <3>1, <3>2, <3>3 DEF StatusIsValid, Rows
  <2>. QED
    BY <1>1, <1>3, <2>1, <2>2 DEF Apply
<1>. QED
  BY <1>1, <1>2, <1>3, StepWrites

-----------------------------------------------------------------------------
IInv == TypeOK /\ RequestsConsistent /\ StatusIsValid

LEMMA InitIInv == Init => IInv
<1>. SUFFICES ASSUME Init PROVE IInv
  OBVIOUS
<1>1. TypeOK
  BY ApiAssumption DEF Init, StoreInit, TypeOK, TypeOK_Projects
<1>2. RequestsConsistent /\ StatusIsValid
  BY DEF Init, StoreInit, RequestsConsistent, Busy, StatusIsValid, Rows
<1>. QED
  BY <1>1, <1>2 DEF IInv

LEMMA IInvStep == IInv /\ [Next]_vars => IInv'
  BY TypeStep, ConsistentStep, StatusStep DEF IInv

THEOREM Invariance == Spec => []IInv
  BY InitIInv, IInvStep, PTL DEF Spec

(* The variables keep their types.                                          *)
THEOREM TypeCorrect == Spec => []TypeOK
  BY Invariance, PTL DEF IInv

(* Only checked content is written (ValidProjectStatuses in Create and      *)
(* Update).                                                                 *)
THEOREM OnlyValidStatus == Spec => []StatusIsValid
  BY Invariance, PTL DEF IInv

(* The handlers, with all their interleavings and failures, do nothing to   *)
(* the table but what ProjectStore allows.                                  *)
THEOREM StoreImplemented == Spec => StoreSpec
<1>1. Init => StoreInit
  BY DEF Init
<1>2. IInv /\ [Next]_vars => [StoreNext]_projects
  BY StepStores DEF IInv
<1>. QED
  BY <1>1, <1>2, Invariance, PTL DEF Spec, StoreSpec

(* So no two projects share an address, in whatever order requests run,     *)
THEOREM UniqueAddresses == Spec => []AddressesUnique
  BY StoreImplemented, StoreUnique

(* and a row keeps its owner and address and, once deleted, everything.     *)
THEOREM StableRows == Spec => RowsAreStable
  BY StoreImplemented, StoreStable

(* A row changes only in a request of its owner for that row (the user_id   *)
(* conditions of Update and Delete).                                        *)
THEOREM OwnersWrite == Spec => OnlyOwnerWrites
<1>1. ASSUME IInv, [Next]_vars, NEW p \in Rows, projects'[p] # projects[p]
      PROVE  \E h \in Handler : /\ At(h, "write") /\ request[h].user = projects[p].user
                               /\ request[h].project = p
  <2>1. ASSUME NEW h \in Handler, NEW q \in Project, NEW a \in Address,
               InsertProject(q, request[h].user, a, request[h].content)
        PROVE  FALSE
    BY <1>1, <2>1 DEF InsertProject, Rows, IInv, TypeOK, TypeOK_Projects
  <2>2. ASSUME NEW h \in Handler, At(h, "write"), Apply(h)
        PROVE  request[h].user = projects[p].user /\ request[h].project = p
    <3>1. request[h].project \in Project
      BY <1>1, <2>2 DEF IInv, RequestsConsistent, NamesItsRow, Rows, At
    <3>2. VisibleTo(request[h].project, request[h].user)
      BY <1>1, <2>2 DEF Apply, SetContent, SoftDelete
    <3>3. \A q \in Project : q # request[h].project => projects'[q] = projects[q]
      BY <1>1, <2>2, <3>1 DEF Apply, SetContent, SoftDelete, IInv, TypeOK, TypeOK_Projects
    <3>. QED
      BY <1>1, <3>2, <3>3 DEF Rows, VisibleTo
  <2>. QED
    BY <1>1, <2>1, <2>2, StepWrites
<1>2. IInv /\ [Next]_vars => [\A p \in Rows : WrittenByOwner(p)]_vars
  BY <1>1 DEF WrittenByOwner
<1>. QED
  BY <1>2, Invariance, PTL DEF Spec, OnlyOwnerWrites

-----------------------------------------------------------------------------
(* A Create request makes at most one project.  What is inductive: a        *)
(* request that is about to insert is a Create that has made none so far.   *)
Inserting == {h \in Handler : At(h, "insert")}

CreatesCovered ==
    /\ IsFiniteSet(Rows) /\ IsFiniteSet(Inserting)
    /\ Cardinality(Rows) + Cardinality(Inserting) <= creates

LEMMA NoNewRow ==
  ASSUME TypeOK, RequestsConsistent, NEW h \in Handler, At(h, "write"), Apply(h)
  PROVE  Rows' = Rows
<1>1. request[h].project \in Project
  BY DEF RequestsConsistent, NamesItsRow, Rows, At
<1>2. \A q \in Project : projects'[q] # NoRow <=> projects[q] # NoRow
  <2>. PICK p \in Project : p = request[h].project
    BY <1>1
  <2>1. ASSUME NEW r \in Row, projects[p] # NoRow, projects' = [projects EXCEPT ![p] = r]
        PROVE  \A q \in Project : projects'[q] # NoRow <=> projects[q] # NoRow
    BY <2>1, NoRowAssumption DEF TypeOK, TypeOK_Projects
  <2>2. CASE SetContent(p, request[h].user, request[h].content)
    <3>1. projects[p] \in Row /\ projects[p] # NoRow
      BY <2>2 DEF SetContent, VisibleTo, Active, TypeOK, TypeOK_Projects
    <3>2. request[h].content \in Content
      BY BusyRequest DEF At, Request
    <3>. QED
      BY <2>1, <2>2, <3>1, <3>2, RowUpdate DEF SetContent
  <2>3. CASE SoftDelete(p, request[h].user)
    <3>1. projects[p] \in Row /\ projects[p] # NoRow
      BY <2>3 DEF SoftDelete, VisibleTo, Active, TypeOK, TypeOK_Projects
    <3>. QED
      BY <2>1, <2>3, <3>1, RowUpdate DEF SoftDelete
  <2>. QED
    BY <2>2, <2>3 DEF Apply
<1>. QED
  BY <1>2 DEF Rows

LEMMA NewRow ==
  ASSUME TypeOK, NEW p \in Project, NEW u \in User, NEW a \in Address, NEW c \in Content,
         InsertProject(p, u, a, c)
  PROVE  Rows' = Rows \cup {p} /\ p \notin Rows /\ projects'[p].user = u
<1>. PICK r \in Row : r = [user |-> u, address |-> a, content |-> c, deleted |-> FALSE]
  BY DEF Row
<1>1. p \notin Rows /\ projects' = [projects EXCEPT ![p] = r]
  BY DEF InsertProject
<1>2. projects'[p] = r /\ \A q \in Project \ {p} : projects'[q] = projects[q]
  BY <1>1 DEF TypeOK, TypeOK_Projects
<1>3. Rows' = Rows \cup {p}
  BY <1>2, NoRowAssumption DEF Rows
<1>4. projects'[p].user = u
  BY <1>2
<1>. QED
  BY <1>1, <1>3, <1>4

\* What a step does to the two sets and the counter.
LEMMA CoveredStep ==
  ASSUME TypeOK, RequestsConsistent, [Next]_vars
  PROVE  \/ /\ Rows' = Rows /\ Inserting' \subseteq Inserting
            /\ UNCHANGED creates \/ creates' = creates + 1
         \/ /\ Rows' = Rows /\ creates' = creates + 1
            /\ \E h \in Handler : Inserting' = Inserting \cup {h}
         \/ /\ UNCHANGED creates
            /\ \E h \in Inserting, p \in Project :
                 Rows' = Rows \cup {p} /\ Inserting' \subseteq Inserting \ {h}
<1>1. ASSUME NEW h \in Handler, NEW op \in Op, NEW u \in User,
             NEW p \in Project \cup {NoRow}, NEW c \in Content, Begin(h, op, u, p, c)
      PROVE  /\ Rows' = Rows
             /\ \/ /\ Inserting' \subseteq Inserting
                   /\ UNCHANGED creates \/ creates' = creates + 1
                \/ creates' = creates + 1 /\ Inserting' = Inserting \cup {h}
  <2>. PICK r \in Request :
         r = Arrived(op, u, p, c)
    BY BeginRequest
  <2>1. Becomes(h, r) /\ Rows' = Rows
    BY <1>1 DEF Begin, Rows
  <2>2. request'[h] = r /\ \A k \in Handler \ {h} : request'[k] = request[k]
    BY <2>1, BecomesType
  <2>3. r.step = "insert" => creates' = creates + 1
    BY <1>1 DEF Begin, Arrived, Accepted
  <2>4. UNCHANGED creates \/ creates' = creates + 1
    BY <1>1 DEF Begin
  <2>5. r.step # "insert" => Inserting' \subseteq Inserting
    BY <2>2 DEF Inserting, At, Busy
  <2>6. r.step = "insert" => Inserting' = Inserting \cup {h}
    BY <2>2, ApiAssumption DEF Inserting, At, Busy
  <2>. QED
    BY <2>1, <2>3, <2>4, <2>5, <2>6
<1>2. ASSUME NEW h \in Handler, NEW r \in Request \cup {NoRequest}, Becomes(h, r),
             r # NoRequest => r.step # "insert"
      PROVE  Inserting' \subseteq Inserting \ {h}
  BY <1>2, BecomesType DEF Inserting, At, Busy
<1>3. ASSUME NEW h \in Handler, NEW a \in Answer, Busy(h), AnswerWith(h, a)
      PROVE  Inserting' \subseteq Inserting \ {h}
  <2>. PICK r \in Request : r = Ended(request[h], a) /\ r.step = "done"
    BY <1>3, BusyRequest, EndedRequest
  <2>. QED
    BY <1>2, <1>3 DEF AnswerWith
<1>4. ASSUME NEW h \in Handler, NEW p \in Project, NEW a \in Address,
             At(h, "insert"), InsertProject(p, request[h].user, a, request[h].content)
      PROVE  Rows' = Rows \cup {p}
  BY <1>4, NewRow, BusyRequest DEF At, Request
<1>5. ASSUME NEW h \in Handler, Work(h)
      PROVE  /\ UNCHANGED creates
             /\ \/ Rows' = Rows /\ Inserting' \subseteq Inserting
                \/ /\ h \in Inserting
                   /\ \E p \in Project :
                        Rows' = Rows \cup {p} /\ Inserting' \subseteq Inserting \ {h}
  <2>1. UNCHANGED creates
    BY <1>5 DEF Work, Inserted, AddressTaken, InsertFails, Selected, SelectFails, Written,
       WriteFails, Finish
  <2>2. ASSUME NEW p \in Project, NEW a \in Address, Inserted(h, p, a)
        PROVE  /\ h \in Inserting
               /\ Rows' = Rows \cup {p} /\ Inserting' \subseteq Inserting \ {h}
    <3>1. Created(request[h], p) \in Request /\ Created(request[h], p).step = "done"
      BY <2>2, BusyRequest, CreatedRequest DEF Inserted, At
    <3>2. Inserting' \subseteq Inserting \ {h}
      BY <2>2, <3>1, <1>2 DEF Inserted
    <3>. QED
      BY <2>2, <3>2, <1>4 DEF Inserted, Inserting
  <2>3. ASSUME NEW a \in Address, AddressTaken(h, a)
        PROVE  Rows' = Rows /\ Inserting' \subseteq Inserting
    <3>1. CASE request[h].attempt + 1 < Attempts
      <4>. PICK r \in Request : r = Retried(request[h])
        BY <2>3, <3>1, BusyRequest, RetriedRequest DEF AddressTaken, At
      <4>1. Becomes(h, r)
        BY <2>3, <3>1 DEF AddressTaken
      <4>. QED
        BY <2>3, <4>1, BecomesType DEF AddressTaken, Inserting, At, Busy, Rows
    <3>2. CASE AnswerWith(h, "error")
      BY <2>3, <3>2, <1>3 DEF AddressTaken, At, Answer, Rows
    <3>. QED
      BY <2>3, <3>1, <3>2 DEF AddressTaken
  <2>4. CASE InsertFails(h)
    <3>1. h \in Inserting /\ Inserting' \subseteq Inserting \ {h}
      BY <2>4, <1>3 DEF InsertFails, Inserting, At, Answer
    <3>2. CASE UNCHANGED projects
      BY <3>1, <3>2, <2>1 DEF Rows
    <3>3. ASSUME NEW p \in Project, NEW a \in Address,
                 InsertProject(p, request[h].user, a, request[h].content)
          PROVE  Rows' = Rows \cup {p}
      BY <2>4, <3>3, <1>4 DEF InsertFails
    <3>. QED
      BY <2>1, <2>4, <3>1, <3>2, <3>3 DEF InsertFails
  <2>5. CASE Written(h) \/ WriteFails(h)
    <3>1. Rows' = Rows
      BY <2>5, NoNewRow DEF Written, WriteFails, Rows
    <3>2. Inserting' \subseteq Inserting
      BY <2>5, <1>3 DEF Written, WriteFails, At, Answer
    <3>. QED
      BY <2>1, <3>1, <3>2
  <2>6. CASE Selected(h)
    <3>1. Rows' = Rows
      BY <2>6 DEF Selected, Rows
    <3>2. Inserting' \subseteq Inserting
      <4>1. CASE Becomes(h, Moved(request[h], "write"))
        <5>. PICK r \in Request : r = Moved(request[h], "write") /\ r.step = "write"
          BY <2>6, BusyRequest, MovedRequest DEF Selected, At, Step
        <5>. QED
          BY <4>1, <1>2
      <4>. QED
        BY <2>6, <4>1, <1>3 DEF Selected, At, Answer
    <3>. QED
      BY <2>1, <3>1, <3>2
  <2>7. CASE SelectFails(h)
    BY <2>1, <2>7, <1>3 DEF SelectFails, At, Answer, Rows
  <2>8. CASE Finish(h)
    BY <2>1, <2>8, <1>2 DEF Finish, Rows
  <2>. QED
    BY <1>5, <2>1, <2>2, <2>3, <2>4, <2>5, <2>6, <2>7, <2>8 DEF Work
<1>6. CASE Crash
  BY <1>6 DEF Crash, Inserting, At, Busy, Rows
<1>7. CASE UNCHANGED vars
  BY <1>7 DEF vars, Inserting, At, Busy, Rows
<1>. QED
  BY <1>1, <1>5, <1>6, <1>7 DEF Next

LEMMA OneMore ==
  ASSUME NEW S, NEW x, IsFiniteSet(S), NEW T, T = S \cup {x}
  PROVE  /\ IsFiniteSet(T) /\ Cardinality(T) \in Nat
         /\ Cardinality(T) <= Cardinality(S) + 1
<1>1. IsFiniteSet(S \cup {x}) /\ Cardinality(S) \in Nat /\ Cardinality(S \cup {x}) \in Nat
  BY FS_AddElement, FS_CardinalityType
<1>2. Cardinality(S \cup {x}) = IF x \in S THEN Cardinality(S) ELSE Cardinality(S) + 1
  BY FS_AddElement
<1>. QED
  BY <1>1, <1>2

LEMMA CreatesCoveredStep ==
  ASSUME TypeOK, RequestsConsistent, CreatesCovered, [Next]_vars
  PROVE  CreatesCovered'
<1>. creates \in Nat /\ Cardinality(Rows) \in Nat /\ Cardinality(Inserting) \in Nat
  BY ApiAssumption, FS_CardinalityType DEF TypeOK, CreatesCovered
<1>1. ASSUME Inserting' \subseteq Inserting
      PROVE  /\ IsFiniteSet(Inserting') /\ Cardinality(Inserting') \in Nat
             /\ Cardinality(Inserting') <= Cardinality(Inserting)
  BY <1>1, FS_Subset, FS_CardinalityType DEF CreatesCovered
<1>2. CASE /\ Rows' = Rows /\ Inserting' \subseteq Inserting
           /\ UNCHANGED creates \/ creates' = creates + 1
  BY <1>1, <1>2 DEF CreatesCovered
<1>3. CASE /\ Rows' = Rows /\ creates' = creates + 1
           /\ \E h \in Handler : Inserting' = Inserting \cup {h}
  <2>1. /\ IsFiniteSet(Inserting') /\ Cardinality(Inserting') \in Nat
        /\ Cardinality(Inserting') <= Cardinality(Inserting) + 1
    BY <1>3, OneMore DEF CreatesCovered
  <2>. QED
    BY <1>3, <2>1 DEF CreatesCovered
<1>4. ASSUME UNCHANGED creates, NEW h \in Inserting, NEW p \in Project,
             Rows' = Rows \cup {p}, Inserting' \subseteq Inserting \ {h}
      PROVE  CreatesCovered'
  <2>1. /\ IsFiniteSet(Inserting \ {h})
        /\ Cardinality(Inserting \ {h}) = Cardinality(Inserting) - 1
    BY FS_RemoveElement DEF CreatesCovered
  <2>2. /\ IsFiniteSet(Inserting') /\ Cardinality(Inserting') \in Nat
        /\ Cardinality(Inserting') <= Cardinality(Inserting \ {h})
    BY <1>4, <2>1, FS_Subset, FS_CardinalityType
  <2>3. /\ IsFiniteSet(Rows') /\ Cardinality(Rows') \in Nat
        /\ Cardinality(Rows') <= Cardinality(Rows) + 1
    BY <1>4, OneMore DEF CreatesCovered
  <2>. QED
    BY <1>4, <2>1, <2>2, <2>3 DEF CreatesCovered
<1>. QED
  BY <1>2, <1>3, <1>4, CoveredStep

(* A Create request makes at most one project, though its INSERT may be     *)
(* carried out and fail all the same, and though it is tried again.         *)
THEOREM OneProject == Spec => []OneProjectPerCreate
<1>1. Init => CreatesCovered
  <2>. SUFFICES ASSUME Init PROVE CreatesCovered
    OBVIOUS
  <2>1. Rows = {} /\ Inserting = {} /\ creates = 0
    BY DEF Init, StoreInit, Rows, Inserting, At, Busy
  <2>. QED
    BY <2>1, FS_EmptySet DEF CreatesCovered
<1>2. IInv /\ CreatesCovered /\ [Next]_vars => CreatesCovered'
  BY CreatesCoveredStep DEF IInv
<1>3. IInv /\ CreatesCovered => OneProjectPerCreate
  <2>. SUFFICES ASSUME IInv, CreatesCovered PROVE OneProjectPerCreate
    OBVIOUS
  <2>1. creates \in Nat /\ Cardinality(Rows) \in Nat /\ Cardinality(Inserting) \in Nat
    BY ApiAssumption, FS_CardinalityType DEF IInv, TypeOK, CreatesCovered
  <2>. QED
    BY <2>1 DEF CreatesCovered, OneProjectPerCreate
<1>. QED
  BY <1>1, <1>2, <1>3, Invariance, PTL DEF Spec

-----------------------------------------------------------------------------
(* What an answer promises.  Inductive is that a request of Create names    *)
(* the row it made, and no row that another one made.                       *)
Made(r) == r.op = "create" /\ r.project # NoRow

Truthful(r) ==
    /\ Made(r) => r.project \in Rows /\ projects[r.project].user = r.user
    /\ r.step = "done" /\ r.answer = "ok" =>
          /\ r.op = "create" => Made(r)
          /\ r.op = "delete" => r.project \in Rows /\ ~Active(r.project)

Apart(r, q) == Made(r) /\ Made(q) => r.project # q.project

AnswersTrue ==
    \A h \in Handler : Busy(h) =>
        /\ Truthful(request[h])
        /\ \A i \in Handler \ {h} : Busy(i) => Apart(request[h], request[i])

LEMMA StillTruthful ==
  ASSUME \A q \in Rows : RowKept(q), NEW r, Truthful(r)
  PROVE  Truthful(r)'
  BY DEF Truthful, Made, RowKept, Active, Rows

LEMMA UpdatedTruthful ==
  ASSUME TypeOK, AnswersTrue, \A q \in Rows : RowKept(q),
         NEW h \in Handler, NEW r \in Request \cup {NoRequest}, Becomes(h, r),
         r # NoRequest =>
            /\ Truthful(r)'
            /\ \A i \in Handler \ {h} : Busy(i) => Apart(r, request[i])
  PROVE  AnswersTrue'
<1>1. ASSUME NEW k \in Handler, request'[k] # NoRequest, NEW q, q = request'[k]
      PROVE  Truthful(q)'
  <2>1. CASE k = h
    BY <1>1, <2>1, BecomesType
  <2>2. CASE k # h
    <3>1. q = request[k]
      BY <1>1, <2>2, BecomesType
    <3>2. Truthful(q)
      BY <1>1, <3>1 DEF AnswersTrue, Busy
    <3>. QED
      BY <3>2, StillTruthful
  <2>. QED
    BY <2>1, <2>2
<1>2. ASSUME NEW k \in Handler, NEW i \in Handler \ {k},
             request'[k] # NoRequest, request'[i] # NoRequest
      PROVE  Apart(request'[k], request'[i])
  <2>1. CASE k # h /\ i # h
    BY <1>2, <2>1, BecomesType DEF AnswersTrue, Busy
  <2>2. CASE k = h
    BY <1>2, <2>2, BecomesType DEF Busy
  <2>3. CASE i = h
    BY <1>2, <2>3, BecomesType DEF Busy, Apart
  <2>. QED
    BY <2>1, <2>2, <2>3
<1>. QED
  BY <1>1, <1>2 DEF AnswersTrue, Busy

\* A request that stays for the same project is apart from the others.
LEMMA SameProject ==
  ASSUME AnswersTrue, NEW h \in Handler, Busy(h), NEW r,
         r.op = request[h].op, r.project = request[h].project
  PROVE  \A i \in Handler \ {h} : Busy(i) => Apart(r, request[i])
  BY DEF AnswersTrue, Apart, Made

LEMMA EndedTruthful ==
  ASSUME TypeOK, RequestsConsistent, AnswersTrue, [Next]_vars,
         NEW h \in Handler, Busy(h), NEW a \in Answer, AnswerWith(h, a),
         NEW q, q = request[h],
         a = "ok" => /\ q.op # "create"
                     /\ q.op = "delete" => q.project \in Rows' /\ ~Active(q.project)'
  PROVE  AnswersTrue'
<1>. \A k \in Rows : RowKept(k)
  BY StepKeepsRows
<1>1. q \in Request /\ Truthful(q)
  BY BusyRequest DEF AnswersTrue
<1>2. PICK r \in Request :
        /\ r = Ended(q, a) /\ r.step = "done" /\ r.answer = a
        /\ r.project = q.project /\ r.op = q.op /\ r.user = q.user
  BY <1>1, EndedRequest DEF SameSender
<1>3. Becomes(h, r)
  BY <1>1, <1>2 DEF AnswerWith
<1>4. Truthful(r)'
  BY <1>1, <1>2 DEF Truthful, Made, RowKept
<1>5. \A i \in Handler \ {h} : Busy(i) => Apart(r, request[i])
  BY <1>1, <1>2, SameProject
<1>. QED
  BY <1>3, <1>4, <1>5, UpdatedTruthful

LEMMA AnswersTrueStep ==
  ASSUME TypeOK, RequestsConsistent, AnswersTrue, [Next]_vars
  PROVE  AnswersTrue'
<1>. \A q \in Rows : RowKept(q)
  BY StepKeepsRows
<1>1. ASSUME NEW h \in Handler, NEW op \in Op, NEW u \in User,
             NEW p \in Project \cup {NoRow}, NEW c \in Content, Begin(h, op, u, p, c)
      PROVE  AnswersTrue'
  <2>. DEFINE r == Arrived(op, u, p, c)
  <2>1. r \in Request /\ Becomes(h, r)
    BY <1>1, BeginRequest DEF Begin
  <2>2. ~Made(r) /\ r.answer # "ok"
    BY <1>1 DEF Begin, Arrived, Made
  <2>. HIDE DEF r
  <2>3. Truthful(r)'
    BY <2>2 DEF Truthful, Made
  <2>4. \A i \in Handler \ {h} : Busy(i) => Apart(r, request[i])
    BY <2>2 DEF Apart
  <2>. QED
    BY <2>1, <2>3, <2>4, UpdatedTruthful
<1>2. ASSUME NEW h \in Handler, NEW p \in Project, NEW a \in Address, Inserted(h, p, a)
      PROVE  AnswersTrue'
  <2>1. PICK q \in Request : q = request[h]
    BY <1>2, BusyRequest DEF Inserted, At
  <2>2. Rows' = Rows \cup {p} /\ p \notin Rows /\ projects'[p].user = q.user
    BY <1>2, <2>1, NewRow DEF Inserted, Request
  <2>3. PICK r \in Request :
          r = Created(q, p) /\ r.project = p /\ r.op = q.op /\ r.user = q.user
    BY <2>1, CreatedRequest DEF SameSender
  <2>4. q.op = "create"
    BY <1>2, <2>1 DEF Inserted, At, RequestsConsistent, NamesItsRow
  <2>5. Truthful(r)'
    BY <2>2, <2>3, <2>4, ApiAssumption DEF Truthful, Made
  <2>6. \A i \in Handler \ {h} : Busy(i) => Apart(r, request[i])
    BY <2>2, <2>3 DEF Apart, AnswersTrue, Truthful
  <2>7. Becomes(h, r)
    BY <1>2, <2>1, <2>3 DEF Inserted
  <2>. QED
    BY <2>5, <2>6, <2>7, UpdatedTruthful
<1>3. ASSUME NEW h \in Handler, NEW a \in Address, AddressTaken(h, a)
      PROVE  AnswersTrue'
  <2>1. PICK q \in Request : q = request[h] /\ Truthful(q)
    BY <1>3, BusyRequest DEF AddressTaken, At, AnswersTrue
  <2>2. CASE q.attempt + 1 < Attempts
    <3>1. PICK r \in Request :
            /\ r = Retried(q) /\ r.step = q.step /\ r.project = q.project
            /\ r.op = q.op /\ r.user = q.user /\ r.answer = q.answer
      BY <2>1, <2>2, RetriedRequest
    <3>2. Truthful(r)
      BY <2>1, <3>1 DEF Truthful, Made
    <3>3. Truthful(r)'
      BY <3>2, StillTruthful
    <3>4. \A i \in Handler \ {h} : Busy(i) => Apart(r, request[i])
      BY <1>3, <2>1, <3>1, SameProject DEF AddressTaken, At
    <3>5. Becomes(h, r)
      BY <1>3, <2>1, <2>2, <3>1 DEF AddressTaken
    <3>. QED
      BY <3>3, <3>4, <3>5, UpdatedTruthful
  <2>3. CASE AnswerWith(h, "error")
    BY <1>3, <2>3, EndedTruthful DEF AddressTaken, At, Answer
  <2>. QED
    BY <1>3, <2>1, <2>2, <2>3 DEF AddressTaken
<1>4. ASSUME NEW h \in Handler, Selected(h)
      PROVE  AnswersTrue'
  <2>1. PICK q \in Request : q = request[h] /\ Truthful(q) /\ Busy(h) /\ q.step = "select"
    BY <1>4, BusyRequest DEF Selected, At, AnswersTrue
  <2>2. q.op # "create"
    BY <1>4, <2>1 DEF RequestsConsistent, NamesItsRow
  <2>3. CASE Becomes(h, Moved(q, "write"))
    <3>1. PICK r \in Request : r = Moved(q, "write") /\ r.step = "write" /\ r.op = q.op
      BY <2>1, MovedRequest DEF Step, SameRequest
    <3>2. Truthful(r)'
      BY <2>2, <3>1 DEF Truthful, Made
    <3>3. \A i \in Handler \ {h} : Busy(i) => Apart(r, request[i])
      BY <2>2, <3>1 DEF Apart, Made
    <3>. QED
      BY <2>3, <3>1, <3>2, <3>3, UpdatedTruthful
  <2>4. CASE AnswerWith(h, "not found")
    BY <2>1, <2>4, EndedTruthful DEF Answer
  <2>5. CASE q.op = "get" /\ AnswerWith(h, "ok")
    BY <2>1, <2>5, EndedTruthful DEF Answer
  <2>. QED
    BY <1>4, <2>1, <2>3, <2>4, <2>5 DEF Selected
<1>5. ASSUME NEW h \in Handler, Written(h)
      PROVE  AnswersTrue'
  <2>1. PICK q \in Request : q = request[h] /\ Busy(h) /\ q.step = "write"
    BY <1>5, BusyRequest DEF Written, At
  <2>2. q.op # "create" /\ q.project \in Rows /\ projects[q.project].user = q.user
    BY <1>5, <2>1 DEF RequestsConsistent, NamesItsRow
  <2>3. ASSUME q.op = "delete"
        PROVE  q.project \in Rows' /\ ~Active(q.project)'
    <3>1. CASE SoftDelete(q.project, q.user)
      <4>1. q.project \in Project /\ projects[q.project] \in Row
        BY <2>2 DEF Rows, TypeOK, TypeOK_Projects
      <4>2. projects'[q.project] = [projects[q.project] EXCEPT !.deleted = TRUE]
        BY <3>1, <4>1 DEF SoftDelete, TypeOK, TypeOK_Projects
      <4>3. projects'[q.project].deleted
        BY <4>1, <4>2 DEF Row
      <4>. QED
        BY <2>2, <4>3 DEF RowKept, Active
    <3>2. CASE ~VisibleTo(q.project, q.user) /\ UNCHANGED projects
      BY <2>2, <3>2 DEF VisibleTo, Active, Rows
    <3>. QED
      BY <1>5, <2>1, <2>3, <3>1, <3>2 DEF Written, Apply
  <2>. QED
    BY <1>5, <2>1, <2>2, <2>3, EndedTruthful DEF Written, Answer
<1>6. ASSUME NEW h \in Handler, InsertFails(h) \/ SelectFails(h) \/ WriteFails(h)
      PROVE  AnswersTrue'
  BY <1>6, EndedTruthful DEF InsertFails, SelectFails, WriteFails, At, Answer
<1>7. ASSUME NEW h \in Handler, Finish(h)
      PROVE  AnswersTrue'
  BY <1>7, UpdatedTruthful DEF Finish
<1>8. ASSUME NEW h \in Handler, Work(h)
      PROVE  AnswersTrue'
  BY <1>8, <1>2, <1>3, <1>4, <1>5, <1>6, <1>7 DEF Work
<1>9. CASE Crash
  BY <1>9 DEF Crash, AnswersTrue, Busy
<1>10. CASE UNCHANGED vars
  BY <1>10 DEF vars, AnswersTrue, Busy, Truthful, Made, Active, Rows
<1>. QED
  BY <1>1, <1>8, <1>9, <1>10 DEF Next

(* A positive answer is true, though the row was read a step earlier and    *)
(* nobody looks at how many rows the statement changed.                     *)
THEOREM AnswersAreTrue == Spec => []ConfirmedIsDone
<1>1. Init => AnswersTrue
  BY DEF Init, AnswersTrue, Busy
<1>2. IInv /\ AnswersTrue /\ [Next]_vars => AnswersTrue'
  BY AnswersTrueStep DEF IInv
<1>3. AnswersTrue => ConfirmedIsDone
  <2>. SUFFICES ASSUME AnswersTrue, NEW h \in Handler, At(h, "done"),
                       request[h].answer = "ok"
                PROVE  LET r == request[h] IN
                       /\ r.op = "create" =>
                             /\ r.project \in Rows /\ projects[r.project].user = r.user
                             /\ \A i \in Handler \ {h} :
                                   Busy(i) /\ request[i].op = "create" =>
                                      request[i].project # r.project
                       /\ r.op = "delete" => r.project \in Rows /\ ~Active(r.project)
    BY DEF ConfirmedIsDone
  <2>1. Truthful(request[h])
    BY DEF AnswersTrue, At
  <2>2. \A i \in Handler \ {h} : Busy(i) => Apart(request[h], request[i])
    BY DEF AnswersTrue, At
  <2>. QED
    BY <2>1, <2>2 DEF At, Truthful, Apart, Made
<1>. QED
  BY <1>1, <1>2, <1>3, Invariance, PTL DEF Spec
=============================================================================
