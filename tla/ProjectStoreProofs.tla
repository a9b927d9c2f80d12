-------------------------- MODULE ProjectStoreProofs --------------------------
(***************************************************************************)
(* Proofs about the projects table, for any keys, users and addresses, for *)
(* the two modules that build on it, InboundMail and ProjectApi.           *)
(***************************************************************************)
EXTENDS ProjectStore, TLAPS

-----------------------------------------------------------------------------
(* Types.                                                                   *)

LEMMA RowUpdate ==
  ASSUME NEW r \in Row
  PROVE  /\ \A c \in Content : [r EXCEPT !.content = c] \in Row
         /\ [r EXCEPT !.deleted = TRUE] \in Row
  BY DEF Row

LEMMA StoreType == TypeOK_Projects /\ StoreNext => TypeOK_Projects'
<1>. SUFFICES ASSUME TypeOK_Projects, NEW p \in Project, NEW u \in User,
                     \/ \E a \in Address, c \in Content : InsertProject(p, u, a, c)
                     \/ \E c \in Content : SetContent(p, u, c)
                     \/ SoftDelete(p, u)
              PROVE  TypeOK_Projects'
  BY DEF StoreNext
<1>1. ASSUME NEW a \in Address, NEW c \in Content, InsertProject(p, u, a, c)
      PROVE TypeOK_Projects'
  BY <1>1 DEF TypeOK_Projects, InsertProject, Row
<1>2. ASSUME NEW c \in Content, SetContent(p, u, c)
      PROVE TypeOK_Projects'
  <2>1. projects[p] \in Row
    BY <1>2 DEF TypeOK_Projects, SetContent, VisibleTo, Active
  <2>2. [projects[p] EXCEPT !.content = c] \in Row
    BY <2>1, RowUpdate
  <2>. QED
    BY <1>2, <2>2 DEF TypeOK_Projects, SetContent
<1>3. CASE SoftDelete(p, u)
  <2>1. projects[p] \in Row
    BY <1>3 DEF TypeOK_Projects, SoftDelete, VisibleTo, Active
  <2>2. [projects[p] EXCEPT !.deleted = TRUE] \in Row
    BY <2>1, RowUpdate
  <2>. QED
    BY <1>3, <2>2 DEF TypeOK_Projects, SoftDelete
<1>. QED
  BY <1>1, <1>2, <1>3

-----------------------------------------------------------------------------
(* Projects keep their rows and addresses.                                  *)
RowsKept ==
    \A p \in Rows : p \in Rows' /\ projects'[p].address = projects[p].address

\* What a step may do to a row that is there.
RowKept(p) ==
    /\ p \in Rows' /\ projects'[p].user = projects[p].user
    /\ projects'[p].address = projects[p].address
    /\ projects[p].deleted => projects'[p] = projects[p]

\* A new version of an active row changes the content, or marks it deleted.
LEMMA NewVersion ==
  ASSUME TypeOK_Projects, NEW p \in Project, Active(p), NEW q \in Rows, NEW r \in Row,
         r.user = projects[p].user, r.address = projects[p].address,
         projects' = [projects EXCEPT ![p] = r]
  PROVE  RowKept(q)
<1>. USE NoRowAssumption DEF TypeOK_Projects, Rows, RowKept
<1>1. CASE q = p
  BY <1>1 DEF Active
<1>2. CASE q # p
  BY <1>2
<1>. QED
  BY <1>1, <1>2

LEMMA StoreKeepsEachRow ==
  ASSUME TypeOK_Projects, StoreNext, NEW q \in Rows
  PROVE  RowKept(q)
<1>. SUFFICES ASSUME NEW p \in Project, NEW u \in User,
                     \/ \E a \in Address, c \in Content : InsertProject(p, u, a, c)
                     \/ \E c \in Content : SetContent(p, u, c)
                     \/ SoftDelete(p, u)
              PROVE  RowKept(q)
  BY DEF StoreNext
<1>1. ASSUME NEW a \in Address, NEW c \in Content, InsertProject(p, u, a, c)
      PROVE RowKept(q)
  BY <1>1, NoRowAssumption DEF InsertProject, TypeOK_Projects, Rows, RowKept
<1>2. ASSUME NEW c \in Content, SetContent(p, u, c)
      PROVE RowKept(q)
  <2>1. Active(p) /\ projects[p] \in Row
    BY <1>2 DEF SetContent, VisibleTo, Active, TypeOK_Projects
  <2>2. [projects[p] EXCEPT !.content = c] \in Row
    BY <2>1, RowUpdate
  <2>3. /\ [projects[p] EXCEPT !.content = c].user = projects[p].user
        /\ [projects[p] EXCEPT !.content = c].address = projects[p].address
    BY <2>1 DEF Row
  <2>. QED
    BY <1>2, <2>1, <2>2, <2>3, NewVersion DEF SetContent
<1>3. ASSUME SoftDelete(p, u)
      PROVE RowKept(q)
  <2>1. Active(p) /\ projects[p] \in Row
    BY <1>3 DEF SoftDelete, VisibleTo, Active, TypeOK_Projects
  <2>2. [projects[p] EXCEPT !.deleted = TRUE] \in Row
    BY <2>1, RowUpdate
  <2>3. /\ [projects[p] EXCEPT !.deleted = TRUE].user = projects[p].user
        /\ [projects[p] EXCEPT !.deleted = TRUE].address = projects[p].address
    BY <2>1 DEF Row
  <2>. QED
    BY <1>3, <2>1, <2>2, <2>3, NewVersion DEF SoftDelete
<1>. QED
  BY <1>1, <1>2, <1>3

LEMMA StoreKeepsRows == TypeOK_Projects /\ StoreNext => RowsKept
  BY StoreKeepsEachRow DEF RowsKept, RowKept

\* The rows of a step are the old ones and the one it inserts, if any.
LEMMA StoreAddsFreeAddress ==
  ASSUME TypeOK_Projects, StoreNext, NEW p \in Rows', p \notin Rows
  PROVE  /\ \A q \in Rows : projects[q].address # projects'[p].address
         /\ \A q \in Rows' : q \in Rows \/ q = p
<1>1. PICK k \in Project, u \in User, a \in Address, c \in Content : InsertProject(k, u, a, c)
  BY DEF StoreNext, SetContent, SoftDelete, VisibleTo, Active, TypeOK_Projects, Rows
<1>2. projects' = [projects EXCEPT
            ![k] = [user |-> u, address |-> a, content |-> c, deleted |-> FALSE]]
  BY <1>1 DEF InsertProject
<1>3. \A q \in Project \ {k} : projects'[q] = projects[q]
  BY <1>2 DEF TypeOK_Projects
<1>4. p = k /\ projects'[k].address = a
  BY <1>2, <1>3 DEF Rows, TypeOK_Projects
<1>. QED
  BY <1>1, <1>3, <1>4 DEF InsertProject, Taken, Rows

LEMMA UniqueStep ==
  ASSUME TypeOK_Projects, AddressesUnique, StoreNext
  PROVE  AddressesUnique'
<1>. SUFFICES ASSUME NEW p \in Rows', NEW q \in Rows', projects'[p].address = projects'[q].address
              PROVE  p = q
  BY DEF AddressesUnique
<1>1. \A r \in Rows : projects'[r].address = projects[r].address
  BY StoreKeepsRows DEF RowsKept
<1>2. CASE p \in Rows /\ q \in Rows
  BY <1>1, <1>2 DEF AddressesUnique
<1>3. CASE p \notin Rows
  BY <1>1, <1>3, StoreAddsFreeAddress
<1>4. CASE q \notin Rows
  BY <1>1, <1>4, StoreAddsFreeAddress
<1>. QED
  BY <1>2, <1>3, <1>4

-----------------------------------------------------------------------------
LEMMA StoreStep == TypeOK_Projects /\ [StoreNext]_projects => TypeOK_Projects'
  BY StoreType DEF TypeOK_Projects

(* The table holds rows only.                                               *)
THEOREM StoreTyped == StoreSpec => []TypeOK_Projects
<1>1. StoreInit => TypeOK_Projects
  BY DEF StoreInit, TypeOK_Projects
<1>. QED
  BY <1>1, StoreStep, PTL DEF StoreSpec

(* No two rows ever share an inbound address (the unique index on           *)
(* projects.email_address).                                                 *)
THEOREM StoreUnique == StoreSpec => []AddressesUnique
<1>1. StoreInit => AddressesUnique
  BY DEF StoreInit, AddressesUnique, Rows
<1>2. TypeOK_Projects /\ AddressesUnique /\ [StoreNext]_projects => AddressesUnique'
  <2>1. CASE UNCHANGED projects
    BY <2>1 DEF AddressesUnique, Rows
  <2>. QED
    BY <2>1, UniqueStep
<1>. QED
  BY <1>1, <1>2, StoreTyped, PTL DEF StoreSpec

(* A row keeps its owner and address, and a deleted row stays as it is (the *)
(* conditions of the statements of Update and Delete).                      *)
THEOREM StoreStable == StoreSpec => RowsAreStable
<1>1. TypeOK_Projects /\ [StoreNext]_projects =>
        [\A p \in Rows :
            /\ projects'[p] # NoRow
            /\ projects'[p].user = projects[p].user
            /\ projects'[p].address = projects[p].address
            /\ projects[p].deleted => projects'[p] = projects[p]]_projects
  BY StoreKeepsEachRow DEF RowKept, Rows
<1>. QED
  BY <1>1, StoreTyped, PTL DEF StoreSpec, RowsAreStable
=============================================================================
