-------------------------- MODULE InboundMailProofs --------------------------
(***************************************************************************)
(* Proofs about InboundMail, for any sets of sessions, messages, projects  *)
(* and addresses and any bounds: its invariants, what its steps may never  *)
(* do, that it implements MailPromise, and why a project has a message     *)
(* more than once.                                                         *)
(***************************************************************************)
EXTENDS InboundMail, ProjectStoreProofs, FiniteSetTheorems, SequenceTheorems

-----------------------------------------------------------------------------
(* Types.                                                                   *)

LEMMA InitType == Init => TypeOK
<1>. SUFFICES ASSUME Init PROVE TypeOK
  OBVIOUS
<1>1. <<>> \in Seq(Recipient)
  OBVIOUS
<1>. QED
  BY <1>1, MailAssumption DEF Init, StoreInit, TypeOK, TypeOK_Projects, Maybe, Phase

\* The rows of an INSERT are rows of the table.
LEMMA NewEmailsType ==
  ASSUME TypeOK, NEW s \in Session, from[s] \in Message, raw[s] \in Message
  PROVE  NewEmails(s) \subseteq Email
<1>. SUFFICES ASSUME NEW i \in DOMAIN recipients[s] PROVE EmailFor(s, i) \in Email
  BY DEF NewEmails
<1>1. i \in Nat /\ recipients[s][i] \in Recipient
  BY DEF TypeOK
<1>2. transfers + 1 \in Nat
  BY DEF TypeOK
<1>. QED
  BY <1>1, <1>2 DEF EmailFor, Email, Recipient

LEMMA GoToType ==
  ASSUME TypeOK, NEW s \in Session, NEW ph \in Phase, GoTo(s, ph)
  PROVE  phase' \in [Session -> Phase]
  BY DEF TypeOK, GoTo

LEMMA FaultType ==
  TypeOK /\ (Fault \/ UNCHANGED faults) => faults' \in 0..MaxFaults
  BY MailAssumption DEF TypeOK, Fault

LEMMA ResetType ==
  ASSUME TypeOK, NEW s \in Session, Reset(s)
  PROVE  /\ from' \in [Session -> Maybe(Message)]
         /\ recipients' \in [Session -> Seq(Recipient)]
         /\ raw' \in [Session -> Maybe(Message)]
<1>1. <<>> \in Seq(Recipient)
  OBVIOUS
<1>. QED
  BY <1>1 DEF TypeOK, Reset, Maybe

LEMMA HangUpType ==
  ASSUME TypeOK, NEW s \in Session, HangUp(s)
  PROVE  /\ sending' \in [Session -> Maybe(Message)]
         /\ tried' \in [Session -> SUBSET Spelling]
         /\ accepted' \in [Session -> SUBSET Spelling]
  BY DEF TypeOK, HangUp, Maybe

LEMMA TypeStep ==
  ASSUME TypeOK, TransactionsConsistent, [Next]_vars
  PROVE  TypeOK'
<1>. USE MailAssumption
<1>1. ASSUME NEW s \in Session, Connect(s) \/ Quit(s)
      PROVE TypeOK'
  BY <1>1 DEF TypeOK, TypeOK_Projects, Connect, Quit, GoTo, Phase, store, dialogue, outcome
<1>2. ASSUME NEW s \in Session, Drop(s) \/ Rset(s) \/ Abort(s)
      PROVE TypeOK'
  <2>1. Reset(s) /\ HangUp(s) /\ (GoTo(s, "closed") \/ GoTo(s, "idle"))
    BY <1>2 DEF Drop, Rset, Abort
  <2>2. phase' \in [Session -> Phase]
    BY <2>1, GoToType DEF Phase
  <2>3. faults' \in 0..MaxFaults
    BY <1>2, FaultType DEF Drop, Rset, Abort
  <2>4. UNCHANGED <<projects, store, outcome>>
    BY <1>2 DEF Drop, Rset, Abort
  <2>. QED
    BY <2>1, <2>2, <2>3, <2>4, ResetType, HangUpType
    DEF TypeOK, TypeOK_Projects, store, outcome
<1>3. ASSUME NEW s \in Session, DropInData(s)
      PROVE TypeOK'
  <2>1. HangUp(s)
    BY <1>3 DEF DropInData
  <2>. QED
    BY <1>3, <2>1, HangUpType
    DEF TypeOK, TypeOK_Projects, DropInData, Fault, store, server, outcome
<1>4. ASSUME NEW s \in Session, NEW m \in Message, Mail(s, m)
      PROVE TypeOK'
  BY <1>4 DEF TypeOK, TypeOK_Projects, Mail, GoTo, Phase, Maybe, store, outcome
<1>5. ASSUME NEW s \in Session, NEW a \in Spelling, Rcpt(s, a)
      PROVE TypeOK'
  <2>. USE DEF TypeOK, TypeOK_Projects, Named, store, Maybe
  <2>1. ASSUME NEW p \in Project, RcptAccepted(s, a, p)
        PROVE TypeOK'
    <3>1. [address |-> a, project |-> p] \in Recipient
      BY DEF Recipient
    <3>2. recipients' \in [Session -> Seq(Recipient)]
      BY <2>1, <3>1 DEF RcptAccepted
    <3>. QED
      BY <2>1, <3>2 DEF RcptAccepted
  <2>2. CASE RcptUnknown(s, a)
    <3>1. sending[s] \in Message
      BY <2>2 DEF RcptUnknown, TransactionsConsistent, SenderAgrees
    <3>. QED
      BY <2>2, <3>1 DEF RcptUnknown, GiveUp
  <2>3. CASE RcptFails(s, a)
    BY <2>3 DEF RcptFails, Fault
  <2>4. CASE RcptTooMany(s, a)
    BY <2>4 DEF RcptTooMany
  <2>. QED
    BY <1>5, <2>1, <2>2, <2>3, <2>4 DEF Rcpt
<1>6. ASSUME NEW s \in Session, Data(s) \/ DataTooLarge(s) \/ DataUnread(s)
      PROVE TypeOK'
  <2>1. \/ GoTo(s, "deliver") \/ GoTo(s, "toolarge") \/ GoTo(s, "unread")
    BY <1>6 DEF Data, DataTooLarge, DataUnread
  <2>2. phase' \in [Session -> Phase]
    BY <2>1, GoToType DEF Phase
  <2>3. faults' \in 0..MaxFaults
    BY <1>6, FaultType DEF Data, DataTooLarge, DataUnread
  <2>4. raw' \in [Session -> Maybe(Message)]
    BY <1>6 DEF TypeOK, Data, DataTooLarge, DataUnread, Maybe, dialogue
  <2>5. UNCHANGED <<projects, from, recipients, store, dialogue, outcome>>
    BY <1>6 DEF Data, DataTooLarge, DataUnread
  <2>. QED
    BY <2>2, <2>3, <2>4, <2>5 DEF TypeOK, TypeOK_Projects, store, dialogue, outcome
<1>7. ASSUME NEW s \in Session, Deliver(s) \/ DeliverRefused(s) \/ DeliverFails(s)
      PROVE TypeOK'
  <2>1. phase[s] = "deliver"
    BY <1>7 DEF Deliver, DeliverRefused, DeliverFails
  <2>2. NewEmails(s) \subseteq Email
    BY <2>1, NewEmailsType DEF TransactionsConsistent, RawIsFromSender
  <2>3. emails' \in SUBSET Email /\ transfers' \in Nat
    BY <1>7, <2>2 DEF TypeOK, Deliver, DeliverRefused, DeliverFails, InsertEmails, store
  <2>4. GoTo(s, "ok") \/ GoTo(s, "temporary")
    BY <1>7 DEF Deliver, DeliverRefused, DeliverFails
  <2>5. phase' \in [Session -> Phase]
    BY <2>4, GoToType DEF Phase
  <2>6. faults' \in 0..MaxFaults
    BY <1>7, FaultType DEF Deliver, DeliverRefused, DeliverFails
  <2>7. UNCHANGED <<projects, from, recipients, raw, dialogue, outcome>>
    BY <1>7 DEF Deliver, DeliverRefused, DeliverFails
  <2>. QED
    BY <2>3, <2>5, <2>6, <2>7 DEF TypeOK, TypeOK_Projects, dialogue, outcome
<1>8. ASSUME NEW s \in Session, Answer(s)
      PROVE TypeOK'
  <2>. USE DEF TypeOK, TypeOK_Projects, GoTo, Phase, store, dialogue, outcome
  <2>1. CASE AnswerLost(s)
    <3>1. Reset(s)
      BY <2>1 DEF AnswerLost
    <3>. QED
      BY <2>1, <3>1, ResetType DEF AnswerLost
  <2>2. CASE \E ph \in Phase : Answered(s, ph)
    <3>1. Reset(s) /\ HangUp(s) /\ sending[s] \in Message
      BY <2>2 DEF Answered, Maybe
    <3>2. CASE AnsweredOk(s)
      BY <2>2, <3>1, <3>2, ResetType, HangUpType DEF Answered, AnsweredOk
    <3>3. CASE AnsweredTemporary(s)
      BY <2>2, <3>1, <3>3, ResetType, HangUpType DEF Answered, AnsweredTemporary
    <3>4. CASE AnsweredPermanent(s)
      BY <2>2, <3>1, <3>4, ResetType, HangUpType DEF Answered, AnsweredPermanent, GiveUp
    <3>. QED
      BY <1>8, <2>2, <3>2, <3>3, <3>4 DEF Answer, AnswerLost, Answered
  <2>. QED
    BY <1>8, <2>1, <2>2 DEF Answer, AnsweredOk, AnsweredTemporary, AnsweredPermanent
<1>9. CASE Crash
  <2>1. <<>> \in Seq(Recipient)
    OBVIOUS
  <2>. QED
    BY <1>9, <2>1 DEF TypeOK, TypeOK_Projects, Crash, Fault, Phase, Maybe, store, outcome
<1>10. CASE ProjectStep
  BY <1>10, StoreType DEF TypeOK, ProjectStep, store, server, dialogue, outcome
<1>11. CASE UNCHANGED vars
  BY <1>11 DEF TypeOK, TypeOK_Projects, vars, store, server, dialogue, outcome
<1>. QED
  BY <1>1, <1>2, <1>3, <1>4, <1>5, <1>6, <1>7, <1>8, <1>9, <1>10, <1>11 DEF Next, SessionStep
-----------------------------------------------------------------------------
LEMMA StepKeepsRows == TypeOK /\ [Next]_vars => RowsKept
<1>. SUFFICES ASSUME TypeOK, [Next]_vars PROVE RowsKept
  OBVIOUS
<1>1. CASE ProjectStep
  BY <1>1, StoreKeepsRows DEF TypeOK, ProjectStep
<1>2. CASE UNCHANGED projects
  BY <1>2 DEF RowsKept, Rows
<1>. QED
  BY <1>1, <1>2 DEF Next, SessionStep, Connect, Quit, Drop, DropInData, Mail, Rcpt,
     RcptAccepted, RcptUnknown, RcptFails, RcptTooMany, Named, Rset, Abort, Data,
     DataTooLarge, DataUnread, Deliver, DeliverRefused, DeliverFails, Answer, AnsweredOk, AnsweredTemporary,
     AnsweredPermanent, AnswerLost, Answered, Crash, vars

-----------------------------------------------------------------------------
(* Stored rows.                                                             *)
LEMMA NewEmailFacts ==
  ASSUME NEW s \in Session, NEW e \in NewEmails(s)
  PROVE  /\ e.transfer = transfers + 1 /\ e.from = from[s] /\ e.raw = raw[s]
         /\ \E i \in DOMAIN recipients[s] :
               /\ FirstOfProject(recipients[s], i)
               /\ e = EmailFor(s, i)
               /\ e.project = recipients[s][i].project
               /\ e.to = NormalOf[recipients[s][i].address]
  BY DEF NewEmails, EmailFor

(* A step stores nothing, or the rows of one session that is in Data.       *)
LEMMA EmailsStep ==
  ASSUME [Next]_vars
  PROVE  \/ UNCHANGED store
         \/ \E s \in Session :
              /\ phase[s] = "deliver" /\ InsertEmails(s)
              /\ UNCHANGED <<projects, delivered>>
  BY DEF Next, SessionStep, Connect, Quit, Drop, DropInData, Mail, Rcpt,
     RcptAccepted, RcptUnknown, RcptFails, RcptTooMany, Named, Rset, Abort, Data,
     DataTooLarge, DataUnread, Deliver, DeliverRefused, DeliverFails, Answer, AnsweredOk, AnsweredTemporary,
     AnsweredPermanent, AnswerLost, Answered, Crash, ProjectStep, vars, outcome

StoreGrows == emails \subseteq emails' /\ 1..transfers \subseteq 1..transfers'

LEMMA EmailsStay == TypeOK /\ [Next]_vars => StoreGrows
  BY EmailsStep DEF store, InsertEmails, StoreGrows, TypeOK

-----------------------------------------------------------------------------
(* What a transaction hands on.                                             *)
Consistent(s) ==
    RecipientsOwned(s) /\ SenderAgrees(s) /\ RawIsFromSender(s) /\ OkIsStored(s)

\* A nonempty set of natural numbers has a smallest element.
LEMMA Smallest ==
  ASSUME NEW S \in SUBSET Nat, S # {}
  PROVE  \E x \in S : \A y \in S : ~(y < x)
<1>. DEFINE R == {ss \in Nat \X Nat : ss[1] < ss[2]}
<1>1. IsWellFoundedOn(R, Nat)
  BY NatLessThanWellFounded DEF OpToRel
<1>2. PICK x \in S : \A y \in S : ~(<<y, x>> \in R)
  <2>. HIDE DEF R
  <2>. QED
    BY <1>1, WFMin
<1>. QED
  BY <1>2

\* Dropping duplicates leaves every project that was listed one recipient.
LEMMA FirstExists ==
  ASSUME NEW r \in Seq(Recipient), NEW i \in DOMAIN r
  PROVE  \E j \in DOMAIN r : r[j].project = r[i].project /\ FirstOfProject(r, j)
<1>. DEFINE S == {j \in DOMAIN r : r[j].project = r[i].project}
<1>1. S \in SUBSET Nat /\ S # {}
  OBVIOUS
<1>2. PICK j \in S : \A k \in S : ~(k < j)
  BY <1>1, Smallest
<1>. QED
  BY <1>2 DEF FirstOfProject

(* A session is not disturbed by what happens elsewhere.                    *)
LEMMA OthersConsistent ==
  ASSUME TypeOK, NEW t \in Session, Consistent(t), RowsKept, StoreGrows,
         phase'[t] = phase[t], from'[t] = from[t], recipients'[t] = recipients[t],
         raw'[t] = raw[t], sending'[t] = sending[t], accepted'[t] = accepted[t]
  PROVE  Consistent(t)'
<1>1. RecipientsOwned(t)'
  BY DEF Consistent, RecipientsOwned, RowsKept
<1>2. SenderAgrees(t)'
  BY DEF Consistent, SenderAgrees
<1>3. RawIsFromSender(t)'
  BY DEF Consistent, RawIsFromSender
<1>4. OkIsStored(t)'
  BY DEF Consistent, OkIsStored, StoreGrows
<1>. QED
  BY <1>1, <1>2, <1>3, <1>4 DEF Consistent

(* After a reset there is nothing to be consistent about.                   *)
LEMMA ResetConsistent ==
  ASSUME TypeOK, NEW s \in Session, Reset(s), sending'[s] = NoMessage,
         accepted'[s] = {}, phase'[s] \in {"closed", "idle"}
  PROVE  Consistent(s)'
<1>1. recipients'[s] = <<>>
  BY DEF TypeOK, Reset
<1>2. DOMAIN recipients'[s] = {}
  BY <1>1
<1>. QED
  BY <1>1, <1>2 DEF Consistent, RecipientsOwned, SenderAgrees, RawIsFromSender, OkIsStored

(* Recipients that stay are owned by the same projects.                     *)
LEMMA OwnedKept ==
  ASSUME NEW s \in Session, RecipientsOwned(s), RowsKept,
         recipients'[s] = recipients[s], from'[s] = from[s]
  PROVE  RecipientsOwned(s)'
  BY DEF RecipientsOwned, RowsKept

LEMMA SessionConsistent ==
  ASSUME TypeOK, TransactionsConsistent, RowsKept, StoreGrows,
         NEW s \in Session, SessionStep(s)
  PROVE  Consistent(s)'
<1>. Consistent(s) /\ RecipientsOwned(s)
  BY DEF TransactionsConsistent, Consistent
<1>. USE DEF TypeOK
<1>1. CASE Drop(s) \/ Rset(s) \/ Abort(s)
  BY <1>1, ResetConsistent DEF Drop, Rset, Abort, GoTo, HangUp
<1>2. CASE \E ph \in Phase : Answered(s, ph)
  BY <1>2, ResetConsistent DEF Answered, GoTo, HangUp
<1>3. CASE AnswerLost(s)
  BY <1>3, ResetConsistent DEF AnswerLost, GoTo, dialogue, Consistent, SenderAgrees
<1>4. CASE Connect(s) \/ Quit(s)
  <2>1. RecipientsOwned(s)'
    BY <1>4, OwnedKept DEF Connect, Quit
  <2>. QED
    BY <1>4, <2>1 DEF Connect, Quit, GoTo, dialogue, Consistent, SenderAgrees,
                      RawIsFromSender, OkIsStored
<1>5. CASE DropInData(s)
  <2>1. RecipientsOwned(s)'
    BY <1>5, OwnedKept DEF DropInData, server
  <2>. QED
    BY <1>5, <2>1 DEF DropInData, HangUp, server, store, Maybe, Consistent, SenderAgrees,
                      RawIsFromSender, OkIsStored
<1>6. ASSUME NEW m \in Message, Mail(s, m)
      PROVE Consistent(s)'
  <2>1. recipients'[s] = <<>> /\ from'[s] = m /\ sending'[s] = m /\ phase'[s] = "mail"
        /\ accepted'[s] = {}
    BY <1>6 DEF Mail, CanMail, GoTo, Consistent, SenderAgrees
  <2>2. DOMAIN recipients'[s] = {}
    BY <2>1
  <2>. QED
    BY <2>1, <2>2, MailAssumption
    DEF Consistent, RecipientsOwned, SenderAgrees, RawIsFromSender, OkIsStored
<1>7. ASSUME NEW a \in Spelling, NEW p \in Project, RcptAccepted(s, a, p)
      PROVE Consistent(s)'
  <2>. DEFINE old == recipients[s]
              r == [address |-> a, project |-> p]
              n == Len(old)
  <2>1. /\ recipients'[s] = Append(old, r) /\ accepted'[s] = accepted[s] \cup {a}
        /\ UNCHANGED <<phase, from, raw, sending, projects, emails>>
        /\ phase[s] = "mail"
    BY <1>7 DEF RcptAccepted, Named, store
  <2>2. old \in Seq(Recipient) /\ r \in Recipient
    BY DEF Recipient
  <2>3. /\ n \in Nat /\ DOMAIN old = 1..n /\ DOMAIN recipients'[s] = 1..(n + 1)
        /\ \A i \in 1..n : recipients'[s][i] = old[i]
        /\ recipients'[s][n + 1] = r
    BY <2>1, <2>2
  <2>4. sending[s] \in Message /\ from[s] = sending[s]
    BY <2>1 DEF Consistent, SenderAgrees, Maybe
  <2>5. p \in Rows /\ projects[p].address = NormalOf[a] /\ a \in RcptTo[from[s]]
    BY <1>7, <2>4 DEF RcptAccepted, Named, FindProject, Rows, Active, TransactionsConsistent
  <2>6. RecipientsOwned(s)'
    <3>. SUFFICES ASSUME NEW i \in 1..(n + 1)
                  PROVE  /\ recipients'[s][i].project \in Rows
                         /\ projects[recipients'[s][i].project].address =
                               NormalOf[recipients'[s][i].address]
                         /\ from[s] \in Message /\ recipients'[s][i].address \in RcptTo[from[s]]
      BY <2>1, <2>3 DEF RecipientsOwned, Rows
    <3>1. CASE i \in 1..n
      BY <2>3, <3>1 DEF RecipientsOwned
    <3>2. CASE i = n + 1
      BY <2>3, <2>4, <2>5, <3>2
    <3>. QED
      BY <2>3, <3>1, <3>2
  <2>7. SenderAgrees(s)'
    <3>1. ASSUME NEW b \in accepted'[s]
          PROVE  \E i \in DOMAIN recipients'[s] : recipients'[s][i].address = b
      <4>1. CASE b = a
        <5>1. n + 1 \in DOMAIN recipients'[s] /\ recipients'[s][n + 1].address = a
          BY <2>3
        <5>. QED
          BY <4>1, <5>1
      <4>2. CASE b \in accepted[s]
        <5>1. PICK i \in DOMAIN old : old[i].address = b
          BY <2>1, <2>4, <4>2, MailAssumption DEF Consistent, SenderAgrees
        <5>2. i \in DOMAIN recipients'[s] /\ recipients'[s][i] = old[i]
          BY <2>3
        <5>. QED
          BY <5>1, <5>2
      <4>. QED
        BY <2>1, <4>1, <4>2
    <3>. QED
      BY <2>1, <2>4, <3>1, MailAssumption DEF SenderAgrees
  <2>. QED
    BY <2>1, <2>6, <2>7 DEF Consistent, RawIsFromSender, OkIsStored
<1>8. ASSUME NEW a \in Spelling, RcptUnknown(s, a) \/ RcptFails(s, a) \/ RcptTooMany(s, a)
      PROVE Consistent(s)'
  <2>1. UNCHANGED <<projects, store, phase, from, raw, sending, recipients, accepted>>
    BY <1>8 DEF RcptUnknown, RcptFails, RcptTooMany, Named
  <2>. QED
    BY <2>1, OthersConsistent
<1>9. CASE Data(s)
  <2>1. RecipientsOwned(s)'
    BY <1>9, OwnedKept DEF Data
  <2>2. RawIsFromSender(s)'
    BY <1>9 DEF Data, AllNamed, Consistent, SenderAgrees, RawIsFromSender, Maybe
  <2>. QED
    BY <1>9, <2>1, <2>2 DEF Data, AllNamed, GoTo, dialogue, Consistent, SenderAgrees, OkIsStored
<1>10. CASE DataTooLarge(s) \/ DataUnread(s)
  <2>1. RecipientsOwned(s)'
    BY <1>10, OwnedKept DEF DataTooLarge, DataUnread
  <2>. QED
    BY <1>10, <2>1 DEF DataTooLarge, DataUnread, AllNamed, GoTo, dialogue, Maybe, Consistent, SenderAgrees,
                       RawIsFromSender, OkIsStored
<1>11. CASE Deliver(s)
  <2>1. /\ UNCHANGED <<from, recipients, raw, sending, accepted>>
        /\ phase[s] = "deliver" /\ phase'[s] = "ok" /\ emails' = emails \cup NewEmails(s)
    BY <1>11 DEF Deliver, InsertEmails, GoTo, dialogue
  <2>2. RecipientsOwned(s)'
    BY <2>1, OwnedKept
  <2>3. raw[s] = from[s]
    BY <2>1 DEF Consistent, RawIsFromSender
  <2>4. ASSUME NEW i \in DOMAIN recipients[s]
        PROVE  \E e \in emails' : /\ e.transfer = transfers'
                                  /\ e.raw = from[s] /\ e.project = recipients[s][i].project
    <3>1. recipients[s] \in Seq(Recipient)
      OBVIOUS
    <3>2. PICK j \in DOMAIN recipients[s] :
                /\ recipients[s][j].project = recipients[s][i].project
                /\ FirstOfProject(recipients[s], j)
      BY <3>1, FirstExists
    <3>3. EmailFor(s, j) \in NewEmails(s)
      BY <3>2 DEF NewEmails
    <3>4. /\ EmailFor(s, j).transfer = transfers'
          /\ EmailFor(s, j).raw = from[s] /\ EmailFor(s, j).project = recipients[s][i].project
      BY <1>11, <2>3, <3>2 DEF EmailFor, Deliver, InsertEmails
    <3>. QED
      BY <2>1, <3>3, <3>4
  <2>5. transfers \in Nat /\ transfers' = transfers + 1
    BY <1>11 DEF Deliver, InsertEmails
  <2>6. OkIsStored(s)'
    <3>1. transfers' \in 1..transfers'
      BY <2>5
    <3>2. \A i \in DOMAIN recipients'[s] : \E e \in emails' :
            /\ e.transfer = transfers'
            /\ e.raw = from'[s] /\ e.project = recipients'[s][i].project
      BY <2>1, <2>4
    <3>3. \E t \in 1..transfers' : \A i \in DOMAIN recipients'[s] : \E e \in emails' :
            /\ e.transfer = t
            /\ e.raw = from'[s] /\ e.project = recipients'[s][i].project
      BY <3>1, <3>2
    <3>. QED
      BY <3>3 DEF OkIsStored
  <2>. QED
    BY <2>1, <2>2, <2>6 DEF Consistent, SenderAgrees, RawIsFromSender
<1>12. CASE DeliverRefused(s) \/ DeliverFails(s)
  <2>1. /\ UNCHANGED <<from, recipients, raw, sending, accepted>>
        /\ phase[s] = "deliver" /\ phase'[s] = "temporary"
    BY <1>12 DEF DeliverRefused, DeliverFails, GoTo, dialogue
  <2>2. RecipientsOwned(s)'
    BY <2>1, OwnedKept
  <2>. QED
    BY <2>1, <2>2 DEF Consistent, SenderAgrees, RawIsFromSender, OkIsStored
<1>. QED
  BY <1>1, <1>2, <1>3, <1>4, <1>5, <1>6, <1>7, <1>8, <1>9, <1>10, <1>11, <1>12
  DEF SessionStep, Rcpt, Answer, AnsweredOk, AnsweredTemporary, AnsweredPermanent, Phase
LEMMA OthersUntouched ==
  ASSUME TypeOK, NEW s \in Session, SessionStep(s), NEW t \in Session \ {s}
  PROVE  /\ phase'[t] = phase[t] /\ from'[t] = from[t] /\ recipients'[t] = recipients[t]
         /\ raw'[t] = raw[t] /\ sending'[t] = sending[t] /\ accepted'[t] = accepted[t]
<1>. USE DEF TypeOK, GoTo, Reset, HangUp, server, dialogue
<1>1. CASE Connect(s) \/ Quit(s) \/ Drop(s) \/ DropInData(s)
  BY <1>1 DEF Connect, Quit, Drop, DropInData
<1>2. ASSUME NEW m \in Message, Mail(s, m)
      PROVE /\ phase'[t] = phase[t] /\ from'[t] = from[t] /\ recipients'[t] = recipients[t]
            /\ raw'[t] = raw[t] /\ sending'[t] = sending[t] /\ accepted'[t] = accepted[t]
  BY <1>2 DEF Mail
<1>3. ASSUME NEW a \in Spelling, Rcpt(s, a)
      PROVE /\ phase'[t] = phase[t] /\ from'[t] = from[t] /\ recipients'[t] = recipients[t]
            /\ raw'[t] = raw[t] /\ sending'[t] = sending[t] /\ accepted'[t] = accepted[t]
  BY <1>3 DEF Rcpt, RcptAccepted, RcptUnknown, RcptFails, RcptTooMany, Named
<1>4. CASE Rset(s) \/ Abort(s) \/ Data(s) \/ DataTooLarge(s) \/ DataUnread(s)
  BY <1>4 DEF Rset, Abort, Data, DataTooLarge, DataUnread
<1>5. CASE Deliver(s) \/ DeliverRefused(s) \/ DeliverFails(s)
  BY <1>5 DEF Deliver, DeliverRefused, DeliverFails
<1>6. CASE Answer(s)
  BY <1>6 DEF Answer, AnswerLost, Answered, AnsweredOk, AnsweredTemporary, AnsweredPermanent
<1>. QED
  BY <1>1, <1>2, <1>3, <1>4, <1>5, <1>6 DEF SessionStep

(* Nothing is ever added to a queue.                                        *)
LEMMA QueuesShrink ==
  ASSUME TypeOK, [Next]_vars, NEW m \in Message
  PROVE  queue'[m] \subseteq queue[m]
<1>1. CASE UNCHANGED queue
  BY <1>1
<1>2. ASSUME NEW s \in Session, NEW S, queue' = [queue EXCEPT ![sending[s]] = @ \ S]
      PROVE queue'[m] \subseteq queue[m]
  BY <1>2 DEF TypeOK
<1>. QED
  BY <1>1, <1>2 DEF Next, SessionStep, Connect, Quit, Drop, DropInData, Mail, Rcpt, GiveUp,
     RcptAccepted, RcptUnknown, RcptFails, RcptTooMany, Rset, Abort, Data, DataTooLarge, DataUnread,
     Deliver, DeliverRefused, DeliverFails, Answer, AnsweredOk, AnsweredTemporary, AnsweredPermanent,
     AnswerLost, Crash, ProjectStep, vars, outcome

LEMMA ConsistentStep ==
  ASSUME TypeOK, TransactionsConsistent, [Next]_vars
  PROVE  TransactionsConsistent'
<1>. RowsKept /\ StoreGrows
  BY StepKeepsRows, EmailsStay
<1>1. ASSUME NEW t \in Session
      PROVE  Consistent(t)'
  <2>. Consistent(t)
    BY DEF TransactionsConsistent, Consistent
  <2>1. ASSUME NEW s \in Session, SessionStep(s)
        PROVE Consistent(t)'
    BY <2>1, SessionConsistent, OthersUntouched, OthersConsistent
  <2>2. CASE Crash
    <3>1. /\ phase'[t] = "closed" /\ recipients'[t] = <<>>
          /\ sending'[t] = NoMessage /\ accepted'[t] = {}
      BY <2>2 DEF Crash
    <3>2. DOMAIN recipients'[t] = {}
      BY <3>1
    <3>. QED
      BY <3>1, <3>2 DEF Consistent, RecipientsOwned, SenderAgrees, RawIsFromSender, OkIsStored
  <2>3. CASE ProjectStep \/ UNCHANGED vars
    BY <2>3, OthersConsistent DEF ProjectStep, vars, server, dialogue
  <2>. QED
    BY <2>1, <2>2, <2>3 DEF Next
<1>2. \A e \in emails' : e.transfer <= transfers'
  <2>1. CASE UNCHANGED store
    BY <2>1 DEF store, TransactionsConsistent
  <2>2. ASSUME NEW s \in Session, InsertEmails(s), NEW e \in emails'
        PROVE  e.transfer <= transfers'
    <3>1. CASE e \in emails
      BY <2>2, <3>1 DEF InsertEmails, TransactionsConsistent, TypeOK, Email
    <3>2. CASE e \in NewEmails(s)
      BY <2>2, <3>2, NewEmailFacts DEF InsertEmails, TypeOK
    <3>. QED
      BY <2>2, <3>1, <3>2 DEF InsertEmails
  <2>. QED
    BY <2>1, <2>2, EmailsStep
<1>3. \A m \in Message : queue'[m] \subseteq RcptTo[m]
  BY QueuesShrink DEF TransactionsConsistent
<1>. QED
  BY <1>1, <1>2, <1>3 DEF Consistent, TransactionsConsistent
-----------------------------------------------------------------------------
(* The inductive invariant: the types, what transactions hand on, and what  *)
(* is claimed about the stored rows.                                        *)
IInv ==
    /\ TypeOK
    /\ TransactionsConsistent
    /\ MailReachesOwner
    /\ AckedIsStored
    /\ OneCopyPerTransfer
    /\ NothingLeaks

LEMMA InitIInv == Init => IInv
<1>. SUFFICES ASSUME Init PROVE IInv
  OBVIOUS
<1>1. \A s \in Session : DOMAIN recipients[s] = {}
  BY DEF Init
<1>. QED
  BY <1>1, InitType
  DEF Init, IInv, TransactionsConsistent, RecipientsOwned, SenderAgrees, RawIsFromSender,
      OkIsStored, MailReachesOwner, AckedIsStored, OneCopyPerTransfer, NothingLeaks

LEMMA OwnerStep ==
  ASSUME IInv, [Next]_vars
  PROVE  MailReachesOwner'
<1>. SUFFICES ASSUME NEW e \in emails'
              PROVE  e.project \in Rows' /\ projects'[e.project].address = e.to
  BY DEF MailReachesOwner
<1>0. RowsKept
  BY StepKeepsRows DEF IInv
<1>1. CASE e \in emails
  BY <1>0, <1>1 DEF IInv, MailReachesOwner, RowsKept
<1>2. ASSUME NEW s \in Session, e \in NewEmails(s)
      PROVE e.project \in Rows' /\ projects'[e.project].address = e.to
  <2>1. RecipientsOwned(s)
    BY DEF IInv, TransactionsConsistent
  <2>. QED
    BY <1>0, <1>2, <2>1, NewEmailFacts DEF RecipientsOwned, RowsKept
<1>. QED
  BY <1>1, <1>2, EmailsStep DEF store, InsertEmails

LEMMA OneCopyStep ==
  ASSUME IInv, [Next]_vars
  PROVE  OneCopyPerTransfer'
<1>1. CASE UNCHANGED emails
  BY <1>1 DEF IInv, OneCopyPerTransfer
<1>2. ASSUME NEW s \in Session, InsertEmails(s)
      PROVE OneCopyPerTransfer'
  <2>. SUFFICES ASSUME NEW e \in emails', NEW f \in emails',
                       e.transfer = f.transfer, e.project = f.project
                PROVE  e = f
    BY DEF OneCopyPerTransfer
  <2>1. \A g \in emails : g.transfer \in Nat /\ g.transfer <= transfers
    BY DEF IInv, TypeOK, Email, TransactionsConsistent
  <2>2. \A g \in NewEmails(s) : g.transfer = transfers + 1
    BY NewEmailFacts
  <2>3. transfers \in Nat /\ emails' = emails \cup NewEmails(s)
    BY <1>2 DEF IInv, TypeOK, InsertEmails
  <2>4. CASE e \in emails /\ f \in emails
    BY <2>4 DEF IInv, OneCopyPerTransfer
  <2>5. CASE e \in NewEmails(s) /\ f \in NewEmails(s)
    <3>1. PICK i \in DOMAIN recipients[s] :
              /\ FirstOfProject(recipients[s], i) /\ e = EmailFor(s, i)
              /\ e.project = recipients[s][i].project
      BY <2>5, NewEmailFacts
    <3>2. PICK j \in DOMAIN recipients[s] :
              /\ FirstOfProject(recipients[s], j) /\ f = EmailFor(s, j)
              /\ f.project = recipients[s][j].project
      BY <2>5, NewEmailFacts
    <3>3. i \in Nat /\ j \in Nat
      BY DEF IInv, TypeOK
    <3>4. ~(i < j) /\ ~(j < i)
      BY <3>1, <3>2 DEF FirstOfProject
    <3>. QED
      BY <3>1, <3>2, <3>3, <3>4
  <2>. QED
    BY <2>1, <2>2, <2>3, <2>4, <2>5
<1>. QED
  BY <1>1, <1>2, EmailsStep DEF store

LEMMA NothingLeaksStep ==
  ASSUME IInv, [Next]_vars
  PROVE  NothingLeaks'
<1>. SUFFICES ASSUME NEW e \in emails'
              PROVE  e.from = e.raw /\ e.to \in {NormalOf[a] : a \in RcptTo[e.raw]}
  BY DEF NothingLeaks
<1>1. CASE e \in emails
  BY <1>1 DEF IInv, NothingLeaks
<1>2. ASSUME NEW s \in Session, phase[s] = "deliver", e \in NewEmails(s)
      PROVE e.from = e.raw /\ e.to \in {NormalOf[a] : a \in RcptTo[e.raw]}
  <2>1. RecipientsOwned(s) /\ RawIsFromSender(s)
    BY DEF IInv, TransactionsConsistent
  <2>. QED
    BY <1>2, <2>1, NewEmailFacts DEF RecipientsOwned, RawIsFromSender
<1>. QED
  BY <1>1, <1>2, EmailsStep DEF store, InsertEmails

(* What a step may add to `delivered`.                                      *)
LEMMA DeliveredStep ==
  ASSUME TypeOK, [Next]_vars
  PROVE  \/ UNCHANGED delivered
         \/ \E s \in Session :
              /\ phase[s] = "ok" /\ sending[s] \in Message
              /\ delivered' = [delivered EXCEPT ![sending[s]] = @ \cup accepted[s]]
  BY DEF TypeOK, Maybe, Next, SessionStep, Connect, Quit, Drop, DropInData, Mail, Rcpt, GiveUp,
     RcptAccepted, RcptUnknown, RcptFails, RcptTooMany, Named, Rset, Abort, Data, DataTooLarge, DataUnread,
     Deliver, DeliverRefused, DeliverFails, Answer, AnsweredOk, AnsweredTemporary, AnsweredPermanent,
     Answered, AnswerLost, Crash, ProjectStep, vars, outcome

LEMMA AckedStep ==
  ASSUME IInv, [Next]_vars
  PROVE  AckedIsStored'
<1>. SUFFICES ASSUME NEW m \in Message, NEW a \in delivered'[m]
              PROVE  \E e \in emails' :
                        e.raw = m /\ projects'[e.project].address = NormalOf[a]
  BY DEF AckedIsStored
<1>0. RowsKept /\ emails \subseteq emails'
  BY StepKeepsRows, EmailsStay DEF IInv, StoreGrows
<1>1. SUFFICES \E e \in emails : e.raw = m /\ projects[e.project].address = NormalOf[a]
  BY <1>0 DEF IInv, MailReachesOwner, RowsKept
<1>2. CASE a \in delivered[m]
  BY <1>2 DEF IInv, AckedIsStored
<1>3. ASSUME NEW s \in Session, phase[s] = "ok", sending[s] = m, sending[s] # NoMessage,
             a \in accepted[s]
      PROVE \E e \in emails : e.raw = m /\ projects[e.project].address = NormalOf[a]
  <2>. RecipientsOwned(s) /\ SenderAgrees(s) /\ OkIsStored(s)
    BY DEF IInv, TransactionsConsistent
  <2>1. PICK i \in DOMAIN recipients[s] : recipients[s][i].address = a
    BY <1>3 DEF SenderAgrees
  <2>2. PICK e \in emails : e.raw = from[s] /\ e.project = recipients[s][i].project
    BY <1>3 DEF OkIsStored
  <2>3. from[s] = m
    BY <1>3 DEF SenderAgrees
  <2>. QED
    BY <2>1, <2>2, <2>3 DEF RecipientsOwned
<1>. QED
  <2>1. \/ a \in delivered[m]
        \/ \E s \in Session : /\ phase[s] = "ok" /\ sending[s] = m
                              /\ sending[s] # NoMessage /\ a \in accepted[s]
    <3>1. CASE UNCHANGED delivered
      BY <3>1
    <3>2. ASSUME NEW s \in Session, phase[s] = "ok", sending[s] \in Message,
                 delivered' = [delivered EXCEPT ![sending[s]] = @ \cup accepted[s]]
          PROVE  a \in delivered[m] \/ (sending[s] = m /\ a \in accepted[s])
      <4>1. delivered \in [Message -> SUBSET Spelling] /\ a \in delivered'[m]
        BY DEF IInv, TypeOK
      <4>2. CASE m = sending[s]
        BY <3>2, <4>1, <4>2
      <4>3. CASE m # sending[s]
        BY <3>2, <4>1, <4>3
      <4>. QED
        BY <4>2, <4>3
    <3>3. TypeOK
      BY DEF IInv
    <3>. QED
      BY <3>1, <3>2, <3>3, DeliveredStep, MailAssumption
  <2>. QED
    BY <1>2, <1>3, <2>1

LEMMA IInvStep == IInv /\ [Next]_vars => IInv'
  BY TypeStep, ConsistentStep, OwnerStep, OneCopyStep, NothingLeaksStep, AckedStep DEF IInv

THEOREM Invariance == Spec => []IInv
  BY InitIInv, IInvStep, PTL DEF Spec

(* The variables keep their types.                                          *)
THEOREM TypeCorrect == Spec => []TypeOK
  BY Invariance, PTL DEF IInv

(* A stored copy belongs to the project that owns the address it was sent   *)
(* to (FindProjectID and Deliver, services/inbound/store.go).               *)
THEOREM OwnerCorrect == Spec => []MailReachesOwner
  BY Invariance, PTL DEF IInv

(* A message is stored for every recipient that got a 250 (Data,            *)
(* mailserver/mailserver.go).                                               *)
THEOREM NoAckedMailIsLost == Spec => []AckedIsStored
  BY Invariance, PTL DEF IInv

(* A transaction gives a project one copy (the map `seen` of Deliver).      *)
THEOREM NoDuplicateInTransfer == Spec => []OneCopyPerTransfer
  BY Invariance, PTL DEF IInv

(* Sessions and transactions do not mix (session.Reset).                    *)
THEOREM NoMixUp == Spec => []NothingLeaks
  BY Invariance, PTL DEF IInv

-----------------------------------------------------------------------------
(* What a step may never do to a stored row or to a recipient, and that    *)
(* InboundMail implements MailPromise.                                      *)

(* What a step does to the state the promise speaks about.                  *)
LEMMA StepKinds ==
  ASSUME [Next]_vars
  PROVE  \/ UNCHANGED <<projects, emails, delivered>>
         \/ StoreNext /\ UNCHANGED <<emails, delivered>>
         \/ \E s \in Session :
              /\ phase[s] = "deliver" /\ InsertEmails(s)
              /\ UNCHANGED <<projects, delivered>>
         \/ \E s \in Session : AnsweredOk(s)
<1>1. ASSUME NEW s \in Session, SessionStep(s), ~Answer(s), ~Deliver(s), ~DeliverFails(s)
      PROVE  UNCHANGED <<projects, emails, delivered>>
  BY <1>1 DEF SessionStep, DeliverRefused, Connect, Quit, Drop, DropInData, Mail, Rcpt, RcptAccepted,
     RcptUnknown, RcptFails, RcptTooMany, Named, Rset, Abort, Data, DataTooLarge, DataUnread,
     outcome, store
<1>2. ASSUME NEW s \in Session, Answer(s)
      PROVE  AnsweredOk(s) \/ UNCHANGED <<projects, emails, delivered>>
  BY <1>2 DEF Answer, AnsweredTemporary, AnsweredPermanent, AnswerLost, Answered,
     outcome, store
<1>3. ASSUME NEW s \in Session, Deliver(s) \/ DeliverFails(s)
      PROVE  \/ UNCHANGED <<projects, emails, delivered>>
             \/ /\ phase[s] = "deliver" /\ InsertEmails(s)
                /\ UNCHANGED <<projects, delivered>>
  BY <1>3 DEF Deliver, DeliverRefused, DeliverFails, outcome, store
<1>4. CASE Crash \/ UNCHANGED vars
  BY <1>4 DEF Crash, vars, outcome, store
<1>5. CASE ProjectStep
  BY <1>5 DEF ProjectStep, outcome, store
<1>. QED
  BY <1>1, <1>2, <1>3, <1>4, <1>5 DEF Next

-----------------------------------------------------------------------------
(* Writes to the projects table are new projects, or invisible.             *)
LEMMA StoreRefines ==
  ASSUME TypeOK_Projects, StoreNext
  PROVE  \/ \E p \in Project, a \in Address :
              /\ addressOf[p] = NoRow
              /\ a \notin {addressOf[q] : q \in Project}
              /\ addressOf' = [addressOf EXCEPT ![p] = a]
         \/ UNCHANGED addressOf
<1>. USE NoRowAssumption
<1>1. ASSUME NEW p \in Project, NEW u \in User, NEW a \in Address, NEW c \in Content,
             InsertProject(p, u, a, c)
      PROVE  /\ addressOf[p] = NoRow
             /\ a \notin {addressOf[q] : q \in Project}
             /\ addressOf' = [addressOf EXCEPT ![p] = a]
  <2>1. addressOf[p] = NoRow
    BY <1>1 DEF addressOf, InsertProject
  <2>2. a \notin {addressOf[q] : q \in Project}
    BY <1>1 DEF addressOf, InsertProject, Taken
  <2>3. projects' = [projects EXCEPT
            ![p] = [user |-> u, address |-> a, content |-> c, deleted |-> FALSE]]
    BY <1>1 DEF InsertProject
  <2>4. [user |-> u, address |-> a, content |-> c, deleted |-> FALSE] \in Row
    BY DEF Row
  <2>5. ASSUME NEW q \in Project
        PROVE  addressOf'[q] = [addressOf EXCEPT ![p] = a][q]
    <3>1. CASE q = p
      BY <2>3, <2>4, <3>1 DEF addressOf, Rows, TypeOK_Projects
    <3>2. CASE q # p
      BY <2>3, <3>2 DEF addressOf, Rows, TypeOK_Projects
    <3>. QED
      BY <3>1, <3>2
  <2>. QED
    BY <2>1, <2>2, <2>5 DEF addressOf
<1>2. ASSUME NEW p \in Project, NEW r \in Row, projects[p] \in Row,
             r.address = projects[p].address, projects' = [projects EXCEPT ![p] = r]
      PROVE  UNCHANGED addressOf
  <2>1. ASSUME NEW q \in Project
        PROVE  (q \in Rows' <=> q \in Rows) /\ (q \in Rows => projects'[q].address = projects[q].address)
    <3>1. CASE q = p
      BY <1>2, <3>1 DEF Rows, TypeOK_Projects
    <3>2. CASE q # p
      BY <1>2, <3>2 DEF Rows, TypeOK_Projects
    <3>. QED
      BY <3>1, <3>2
  <2>. QED
    BY <2>1 DEF addressOf
<1>3. ASSUME NEW p \in Project, NEW u \in User, NEW c \in Content, SetContent(p, u, c)
      PROVE  UNCHANGED addressOf
  <2>1. projects[p] \in Row
    BY <1>3 DEF TypeOK_Projects, SetContent, VisibleTo, Active
  <2>2. /\ [projects[p] EXCEPT !.content = c] \in Row
        /\ [projects[p] EXCEPT !.content = c].address = projects[p].address
    BY <2>1, RowUpdate DEF Row
  <2>. QED
    BY <1>2, <1>3, <2>1, <2>2 DEF SetContent
<1>4. ASSUME NEW p \in Project, NEW u \in User, SoftDelete(p, u)
      PROVE  UNCHANGED addressOf
  <2>1. projects[p] \in Row
    BY <1>4 DEF TypeOK_Projects, SoftDelete, VisibleTo, Active
  <2>2. /\ [projects[p] EXCEPT !.deleted = TRUE] \in Row
        /\ [projects[p] EXCEPT !.deleted = TRUE].address = projects[p].address
    BY <2>1, RowUpdate DEF Row
  <2>. QED
    BY <1>2, <1>4, <2>1, <2>2 DEF SoftDelete
<1>. QED
  BY <1>1, <1>3, <1>4 DEF StoreNext

(* An INSERT is a transfer of the promise.                                  *)
LEMMA InsertRefines ==
  ASSUME IInv, NEW s \in Session, phase[s] = "deliver", InsertEmails(s),
         UNCHANGED <<projects, delivered>>
  PROVE  Promise!Store
<1>. DEFINE new == copies' \ copies
<1>1. emails' = emails \cup NewEmails(s)
  BY DEF InsertEmails
<1>2. copies \subseteq copies'
  BY <1>1 DEF copies
<1>3. ASSUME NEW b \in new
      PROVE  \E e \in NewEmails(s) : b = CopyOf(e)
  BY <1>1 DEF copies
<1>4. ASSUME NEW b \in new
      PROVE  /\ b.project \in Project /\ addressOf[b.project] # NoRow
             /\ b.transfer = transfers + 1 /\ b.message = raw[s]
  <2>1. PICK e \in NewEmails(s) : b = CopyOf(e)
    BY <1>3
  <2>2. PICK i \in DOMAIN recipients[s] : e.project = recipients[s][i].project
    BY NewEmailFacts
  <2>3. recipients[s][i].project \in Rows
    BY DEF IInv, TransactionsConsistent, RecipientsOwned
  <2>4. projects[e.project] \in Row /\ e.project \in Project
    BY <2>2, <2>3 DEF Rows, IInv, TypeOK, TypeOK_Projects
  <2>5. addressOf[e.project] # NoRow
    BY <2>2, <2>3, <2>4, NoRowAssumption DEF addressOf, Row
  <2>. QED
    BY <2>1, <2>4, <2>5, NewEmailFacts DEF CopyOf
<1>5. ASSUME NEW c \in copies
      PROVE  c.transfer \in Nat /\ c.transfer <= transfers
  BY DEF copies, CopyOf, IInv, TypeOK, Email, TransactionsConsistent
<1>6. transfers \in Nat
  BY DEF IInv, TypeOK
<1>7. \A b \in new, c \in copies : b.transfer # c.transfer
  BY <1>4, <1>5, <1>6
<1>8. UNCHANGED <<addressOf, delivered>>
  BY DEF addressOf, Rows
<1>. QED
  BY <1>2, <1>4, <1>7, <1>8 DEF Promise!Store

(* A 250 is an acknowledgement of the promise.                              *)
LEMMA AnswerRefines ==
  ASSUME IInv, NEW s \in Session, AnsweredOk(s)
  PROVE  \/ \E m \in Message, A \in (SUBSET Spelling) \ {{}} : Promise!Acknowledge(m, A)
         \/ UNCHANGED <<addressOf, copies, delivered>>
<1>1. /\ phase[s] = "ok" /\ sending[s] # NoMessage
      /\ delivered' = [delivered EXCEPT ![sending[s]] = @ \cup accepted[s]]
      /\ UNCHANGED <<projects, emails>>
  BY DEF AnsweredOk, Answered, store
<1>2. sending[s] \in Message /\ accepted[s] \in SUBSET Spelling
      /\ delivered \in [Message -> SUBSET Spelling]
  BY <1>1 DEF IInv, TypeOK, Maybe
<1>3. UNCHANGED <<addressOf, copies>>
  BY <1>1 DEF addressOf, Rows, copies
<1>4. CASE accepted[s] = {}
  <2>1. delivered' = delivered
    BY <1>1, <1>2, <1>4
  <2>. QED
    BY <1>3, <2>1
<1>5. CASE accepted[s] # {}
  <2>. RecipientsOwned(s) /\ SenderAgrees(s) /\ OkIsStored(s)
    BY DEF IInv, TransactionsConsistent
  <2>1. from[s] = sending[s]
    BY <1>1 DEF SenderAgrees
  <2>2. PICK t \in 1..transfers :
            \A i \in DOMAIN recipients[s] : \E e \in emails :
                e.transfer = t /\ e.raw = from[s] /\ e.project = recipients[s][i].project
    BY <1>1 DEF OkIsStored
  <2>3. ASSUME NEW a \in accepted[s]
        PROVE  \E b \in copies : /\ b.transfer = t /\ b.message = sending[s]
                                 /\ addressOf[b.project] = NormalOf[a]
    <3>1. PICK i \in DOMAIN recipients[s] : recipients[s][i].address = a
      BY <1>1 DEF SenderAgrees
    <3>2. PICK e \in emails :
              e.transfer = t /\ e.raw = from[s] /\ e.project = recipients[s][i].project
      BY <2>2
    <3>3. e.project \in Rows /\ projects[e.project].address = NormalOf[a]
      BY <3>1, <3>2 DEF RecipientsOwned
    <3>4. addressOf[e.project] = NormalOf[a]
      BY <3>3 DEF addressOf, Rows
    <3>5. CopyOf(e) \in copies
      BY DEF copies
    <3>. QED
      BY <2>1, <3>2, <3>4, <3>5 DEF CopyOf
  <2>4. PICK c \in copies : c.transfer = t
    BY <1>5, <2>3
  <2>5. Promise!Acknowledge(sending[s], accepted[s])
    BY <1>1, <1>3, <2>3, <2>4 DEF Promise!Acknowledge
  <2>. QED
    BY <1>2, <1>5, <2>5
<1>. QED
  BY <1>4, <1>5

LEMMA PromiseInit == Init => Promise!Init
<1>. SUFFICES ASSUME Init PROVE Promise!Init
  OBVIOUS
<1>1. addressOf = [p \in Project |-> NoRow]
  BY DEF Init, StoreInit, addressOf, Rows
<1>2. copies = {} /\ delivered = [m \in Message |-> {}]
  BY DEF Init, copies
<1>. QED
  BY <1>1, <1>2 DEF Promise!Init

LEMMA PromiseStep == IInv /\ [Next]_vars => [Promise!Next]_(Promise!vars)
<1>. SUFFICES ASSUME IInv, [Next]_vars
              PROVE  Promise!Next \/ UNCHANGED <<addressOf, copies, delivered>>
  BY DEF Promise!vars
<1>1. CASE UNCHANGED <<projects, emails, delivered>>
  BY <1>1 DEF addressOf, Rows, copies
<1>2. CASE StoreNext /\ UNCHANGED <<emails, delivered>>
  <2>1. UNCHANGED <<copies, delivered>>
    BY <1>2 DEF copies
  <2>2. TypeOK_Projects
    BY DEF IInv, TypeOK
  <2>. QED
    BY <1>2, <2>1, <2>2, StoreRefines DEF Promise!Next, Promise!NewProject
<1>3. ASSUME NEW s \in Session, phase[s] = "deliver", InsertEmails(s),
             UNCHANGED <<projects, delivered>>
      PROVE  Promise!Next
  BY <1>3, InsertRefines DEF Promise!Next
<1>4. ASSUME NEW s \in Session, AnsweredOk(s)
      PROVE  Promise!Next \/ UNCHANGED <<addressOf, copies, delivered>>
  BY <1>4, AnswerRefines DEF Promise!Next
<1>. QED
  BY <1>1, <1>2, <1>3, <1>4, StepKinds

(* The SMTP side implements its promise (session.Data and Store.Deliver).   *)
THEOREM PromiseKept == Spec => KeepsPromise
<1>1. Init => Promise!Init
  BY PromiseInit
<1>2. IInv /\ [Next]_vars => [Promise!Next]_(Promise!vars)
  BY PromiseStep
<1>. QED
  BY <1>1, <1>2, Invariance, PTL DEF Spec, KeepsPromise, Promise!Spec

(* What a step may add to `bounced`.                                        *)
LEMMA BouncedStep ==
  ASSUME [Next]_vars
  PROVE  \/ UNCHANGED bounced
         \/ \E s \in Session, a \in Spelling : RcptUnknown(s, a)
         \/ \E s \in Session : AnsweredPermanent(s)
<1>1. ASSUME NEW s \in Session, SessionStep(s), ~Answer(s), ~\E a \in Spelling : Rcpt(s, a)
      PROVE  UNCHANGED bounced
  BY <1>1 DEF SessionStep, Connect, Quit, Drop, DropInData, Mail, Rset, Abort, Data,
     DataTooLarge, DataUnread, Deliver, DeliverRefused, DeliverFails, outcome
<1>2. ASSUME NEW s \in Session, Answer(s)
      PROVE  AnsweredPermanent(s) \/ UNCHANGED bounced
  BY <1>2 DEF Answer, AnsweredOk, AnsweredTemporary, AnswerLost, outcome
<1>3. ASSUME NEW s \in Session, NEW a \in Spelling, Rcpt(s, a)
      PROVE  RcptUnknown(s, a) \/ UNCHANGED bounced
  BY <1>3 DEF Rcpt, RcptAccepted, RcptFails, RcptTooMany
<1>4. CASE Crash \/ ProjectStep \/ UNCHANGED vars
  BY <1>4 DEF Crash, ProjectStep, vars, outcome
<1>. QED
  BY <1>1, <1>2, <1>3, <1>4 DEF Next

(* A recipient is given up only for what the session knows to be permanent  *)
(* (the 550 of session.Rcpt), or because reading this very message failed   *)
(* in this very transaction (the error of io.ReadAll in session.Data).      *)
THEOREM BouncesAreRight == Spec => NoFalseBounce
<1>1. ASSUME IInv, [Next]_vars, NEW m \in Message, NEW a \in bounced'[m] \ bounced[m]
      PROVE  \/ m \in Oversized \/ FindProject(a) = {}
             \/ \E s \in Session : phase[s] = "unread" /\ sending[s] = m /\ a \in accepted[s]
  <2>0. bounced \in [Message -> SUBSET Spelling]
    BY <1>1 DEF IInv, TypeOK
  <2>1. ASSUME NEW s \in Session, NEW b \in Spelling, RcptUnknown(s, b)
        PROVE  FindProject(a) = {}
    <3>1. FindProject(b) = {} /\ bounced' = [bounced EXCEPT ![sending[s]] = @ \cup {b}]
      BY <2>1 DEF RcptUnknown, GiveUp
    <3>2. a = b
      <4>1. CASE m = sending[s]
        BY <2>0, <3>1, <4>1, <1>1
      <4>2. CASE m # sending[s]
        BY <2>0, <3>1, <4>2, <1>1
      <4>. QED
        BY <4>1, <4>2
    <3>. QED
      BY <3>1, <3>2
  <2>2. ASSUME NEW s \in Session, AnsweredPermanent(s)
        PROVE  m \in Oversized \/ (phase[s] = "unread" /\ sending[s] = m /\ a \in accepted[s])
    <3>1. /\ phase[s] \in {"toolarge", "unread"} /\ sending[s] # NoMessage
          /\ bounced' = [bounced EXCEPT ![sending[s]] = @ \cup accepted[s]]
      BY <2>2 DEF AnsweredPermanent, Answered, GiveUp
    <3>2. phase[s] = "toolarge" => sending[s] \in Oversized
      BY <1>1, <3>1 DEF IInv, TransactionsConsistent, SenderAgrees, Maybe
    <3>3. m = sending[s]
      <4>1. SUFFICES ASSUME m # sending[s] PROVE FALSE
        OBVIOUS
      <4>. QED
        BY <2>0, <3>1, <4>1, <1>1
    <3>4. a \in accepted[s]
      BY <2>0, <3>1, <3>3, <1>1
    <3>. QED
      BY <3>1, <3>2, <3>3, <3>4
  <2>. QED
    BY <1>1, <2>1, <2>2, BouncedStep
<1>2. IInv /\ [Next]_vars =>
        [\A m \in Message : \A a \in bounced'[m] \ bounced[m] :
            \/ m \in Oversized \/ FindProject(a) = {}
            \/ \E s \in Session : phase[s] = "unread" /\ sending[s] = m /\ a \in accepted[s]]_vars
  BY <1>1
<1>. QED
  BY <1>2, Invariance, PTL DEF Spec, NoFalseBounce

-----------------------------------------------------------------------------
(* The copies of a message.                                                 *)

\* A message is handed over on one connection at a time, a recipient is accepted
\* once until it is acknowledged, and the sender and the session list the same ones.
DialogueConsistent(s) ==
    sending[s] # NoMessage =>
        /\ \A t \in Session : sending[t] = sending[s] => t = s
        /\ accepted[s] \cap delivered[sending[s]] = {}
        /\ \A i \in DOMAIN recipients[s] : recipients[s][i].address \in accepted[s]

DialoguesConsistent ==
    /\ \A s \in Session : DialogueConsistent(s)
    /\ \A m \in Message : queue[m] \cap delivered[m] = {}

(* How the copies of message m at project p are paid for: by a spelling the *)
(* sender has crossed off, by the answer that is on its way to it, or by a  *)
(* fault.  A session that delivers for nobody has its fault behind it and   *)
(* its copy still to come.                                                  *)
Copies(m, p) == {e \in emails : e.raw = m /\ e.project = p}

Settled(m, p) == {a \in RcptTo[m] : NormalOf[a] = projects[p].address /\ a \in delivered[m]}

HasRecipient(s, p) == \E i \in DOMAIN recipients[s] : recipients[s][i].project = p

AnswerDue(m, p) ==
    \E s \in Session : sending[s] = m /\ phase[s] = "ok" /\ HasRecipient(s, p)

Strays(m, p) ==
    {s \in Session : /\ sending[s] = NoMessage /\ phase[s] = "deliver"
                     /\ raw[s] = m /\ HasRecipient(s, p)}

Accounted(m, p) ==
    /\ IsFiniteSet(Copies(m, p)) /\ IsFiniteSet(Strays(m, p))
    /\ Cardinality(Copies(m, p)) + Cardinality(Strays(m, p)) <=
          faults + Cardinality(Settled(m, p)) + (IF AnswerDue(m, p) THEN 1 ELSE 0)

CopiesAccounted == \A m \in Message, p \in Rows : Accounted(m, p)

(* Who hands a message over.                                                *)
LEMMA DialogueSession ==
  ASSUME TypeOK, TransactionsConsistent, DialoguesConsistent,
         NEW s \in Session, SessionStep(s), NEW t \in Session
  PROVE  DialogueConsistent(t)'
<1>. USE MailAssumption DEF TypeOK
<1>0. \A u \in Session : DialogueConsistent(u) /\ SenderAgrees(u)
  BY DEF DialoguesConsistent, TransactionsConsistent
<1>1. CASE sending'[s] = NoMessage /\ UNCHANGED delivered
  <2>1. \A u \in Session : sending'[u] # NoMessage => u # s
    BY <1>1
  <2>2. \A u \in Session : sending'[u] # NoMessage =>
           sending'[u] = sending[u] /\ accepted'[u] = accepted[u] /\ recipients'[u] = recipients[u]
    BY <2>1, OthersUntouched
  <2>. QED
    BY <1>0, <1>1, <2>2 DEF DialogueConsistent
<1>2. ASSUME NEW m \in Message, Mail(s, m)
      PROVE DialogueConsistent(t)'
  <2>1. /\ sending'[s] = m /\ accepted'[s] = {} /\ recipients'[s] = <<>>
        /\ \A u \in Session : sending[u] # m
        /\ UNCHANGED delivered
    BY <1>0, <1>2 DEF Mail, CanMail, GoTo, outcome, SenderAgrees
  <2>2. DOMAIN recipients'[s] = {}
    BY <2>1
  <2>3. \A u \in Session \ {s} : 
           sending'[u] = sending[u] /\ accepted'[u] = accepted[u] /\ recipients'[u] = recipients[u]
    BY OthersUntouched
  <2>4. CASE t = s
    <3>1. ASSUME NEW u \in Session, sending'[u] = m
          PROVE  u = s
      BY <2>1, <2>3, <3>1
    <3>. QED
      BY <2>1, <2>2, <2>4, <3>1 DEF DialogueConsistent
  <2>5. CASE t # s
    <3>1. \A u \in Session : sending'[u] = sending[t] => u # s
      BY <2>1, <2>5
    <3>2. \A u \in Session : sending'[u] = sending[t] => sending[u] = sending[t]
      BY <2>3, <3>1
    <3>. QED
      BY <1>0, <2>1, <2>3, <2>5, <3>2 DEF DialogueConsistent
  <2>. QED
    BY <2>4, <2>5
<1>3. ASSUME NEW a \in Spelling, NEW p \in Project, RcptAccepted(s, a, p)
      PROVE DialogueConsistent(t)'
  <2>1. /\ UNCHANGED <<sending, delivered>>
        /\ sending[s] \in Message /\ a \in queue[sending[s]]
        /\ accepted' = [accepted EXCEPT ![s] = @ \cup {a}]
        /\ recipients' = [recipients EXCEPT ![s] = Append(@, [address |-> a, project |-> p])]
    BY <1>0, <1>3 DEF RcptAccepted, Named, SenderAgrees, Maybe
  <2>2. a \notin delivered[sending[s]]
    BY <2>1 DEF DialoguesConsistent
  <2>3. CASE t # s
    BY <1>0, <2>1, <2>3 DEF DialogueConsistent
  <2>4. CASE t = s
    <3>1. ASSUME NEW i \in DOMAIN recipients'[s]
          PROVE  recipients'[s][i].address \in accepted'[s]
      <4>1. recipients[s] \in Seq(Recipient)
        OBVIOUS
      <4>2. /\ recipients'[s] = Append(recipients[s], [address |-> a, project |-> p])
            /\ accepted'[s] = accepted[s] \cup {a}
        BY <2>1
      <4>3. \/ i \in DOMAIN recipients[s] /\ recipients'[s][i] = recipients[s][i]
            \/ recipients'[s][i] = [address |-> a, project |-> p]
        BY <3>1, <4>1, <4>2
      <4>4. sending[s] # NoMessage
        BY <2>1
      <4>. QED
        BY <1>0, <4>2, <4>3, <4>4 DEF DialogueConsistent
    <3>2. accepted'[s] \cap delivered[sending[s]] = {}
      BY <1>0, <2>1, <2>2 DEF DialogueConsistent
    <3>. QED
      BY <1>0, <2>1, <2>4, <3>1, <3>2 DEF DialogueConsistent
  <2>. QED
    BY <2>3, <2>4
<1>4. CASE UNCHANGED <<sending, accepted, recipients, delivered>>
  BY <1>0, <1>4 DEF DialogueConsistent
<1>5. CASE AnsweredOk(s)
  <2>1. /\ sending[s] \in Message /\ sending'[s] = NoMessage
        /\ delivered' = [delivered EXCEPT ![sending[s]] = @ \cup accepted[s]]
    BY <1>5 DEF AnsweredOk, Answered, HangUp, Maybe
  <2>2. CASE t = s
    BY <2>1, <2>2 DEF DialogueConsistent
  <2>3. CASE t # s
    <3>1. /\ sending'[t] = sending[t] /\ accepted'[t] = accepted[t]
          /\ recipients'[t] = recipients[t]
      BY <2>3, OthersUntouched
    <3>2. CASE sending[t] # NoMessage
      <4>1. sending[t] # sending[s] /\ sending[t] \in Message
        BY <1>0, <2>1, <2>3, <3>2 DEF DialogueConsistent, Maybe
      <4>2. delivered'[sending[t]] = delivered[sending[t]]
        BY <2>1, <4>1
      <4>3. ASSUME NEW u \in Session, sending'[u] = sending[t]
            PROVE  u = t
        <5>1. u # s
          BY <2>1, <3>2, <4>3
        <5>2. sending'[u] = sending[u]
          BY <5>1, OthersUntouched
        <5>. QED
          BY <1>0, <3>2, <4>3, <5>2 DEF DialogueConsistent
      <4>. QED
        BY <1>0, <3>1, <3>2, <4>2, <4>3 DEF DialogueConsistent
    <3>. QED
      BY <3>1, <3>2 DEF DialogueConsistent
  <2>. QED
    BY <2>2, <2>3
<1>6. CASE Drop(s) \/ DropInData(s) \/ Rset(s) \/ Abort(s)
  BY <1>1, <1>6 DEF Drop, DropInData, Rset, Abort, HangUp, outcome
<1>7. CASE AnsweredTemporary(s) \/ AnsweredPermanent(s) \/ AnswerLost(s)
  BY <1>1, <1>7 DEF AnsweredTemporary, AnsweredPermanent, AnswerLost, Answered, HangUp,
     outcome, dialogue
<1>8. ASSUME Connect(s) \/ Quit(s) \/ Data(s) \/ DataTooLarge(s) \/ DataUnread(s)
           \/ Deliver(s) \/ DeliverRefused(s) \/ DeliverFails(s)
      PROVE  UNCHANGED <<sending, accepted, recipients, delivered>>
  BY <1>8 DEF Connect, Quit, Data, DataTooLarge, DataUnread, Deliver, DeliverRefused, DeliverFails, outcome, dialogue
<1>9. ASSUME NEW a \in Spelling, RcptUnknown(s, a) \/ RcptFails(s, a) \/ RcptTooMany(s, a)
      PROVE  UNCHANGED <<sending, accepted, recipients, delivered>>
  BY <1>9 DEF RcptUnknown, RcptFails, RcptTooMany, Named
<1>. QED
  BY <1>2, <1>3, <1>4, <1>5, <1>6, <1>7, <1>8, <1>9 DEF SessionStep, Rcpt, Answer

LEMMA QueuedIsOpen ==
  ASSUME TypeOK, TransactionsConsistent, DialoguesConsistent, [Next]_vars, NEW m \in Message
  PROVE  queue'[m] \cap delivered'[m] = {}
<1>. USE MailAssumption
<1>1. queue[m] \cap delivered[m] = {} /\ queue'[m] \subseteq queue[m]
  BY QueuesShrink DEF DialoguesConsistent
<1>2. CASE UNCHANGED delivered
  BY <1>1, <1>2
<1>3. ASSUME NEW s \in Session, AnsweredOk(s)
      PROVE  queue'[m] \cap delivered'[m] = {}
  <2>1. /\ sending[s] \in Message
        /\ queue' = [queue EXCEPT ![sending[s]] = @ \ accepted[s]]
        /\ delivered' = [delivered EXCEPT ![sending[s]] = @ \cup accepted[s]]
    BY <1>3 DEF AnsweredOk, Answered, TypeOK, Maybe
  <2>. QED
    BY <1>1, <2>1 DEF TypeOK
<1>4. (\E s \in Session : AnsweredOk(s)) \/ UNCHANGED delivered
  BY DEF Next, SessionStep, Connect, Quit, Drop, DropInData, Mail, Rcpt,
     RcptAccepted, RcptUnknown, RcptFails, RcptTooMany, Named, Rset, Abort, Data, DataTooLarge, DataUnread,
     Deliver, DeliverRefused, DeliverFails, Answer, AnsweredTemporary, AnsweredPermanent,
     AnswerLost, Crash, ProjectStep, vars, outcome
<1>. QED
  BY <1>2, <1>3, <1>4

LEMMA DialoguesStep ==
  ASSUME TypeOK, TransactionsConsistent, DialoguesConsistent, [Next]_vars
  PROVE  DialoguesConsistent'
<1>1. ASSUME NEW t \in Session
      PROVE  DialogueConsistent(t)'
  <2>1. CASE \E s \in Session : SessionStep(s)
    BY <2>1, DialogueSession
  <2>2. CASE Crash
    BY <2>2 DEF Crash, DialogueConsistent
  <2>3. CASE ProjectStep \/ UNCHANGED vars
    BY <2>3 DEF ProjectStep, vars, server, dialogue, outcome, DialoguesConsistent,
       DialogueConsistent
  <2>. QED
    BY <2>1, <2>2, <2>3 DEF Next
<1>. QED
  BY <1>1, QueuedIsOpen DEF DialoguesConsistent

-----------------------------------------------------------------------------
(* The quantities that are compared.                                        *)
LEMMA QuantityTypes ==
  ASSUME TypeOK, NEW m \in Message, NEW p \in Project, Accounted(m, p)
  PROVE  /\ Cardinality(Copies(m, p)) \in Nat
         /\ Cardinality(Strays(m, p)) \in Nat
         /\ IsFiniteSet(Settled(m, p)) /\ Cardinality(Settled(m, p)) \in Nat
         /\ faults \in Nat
<1>1. Settled(m, p) \in SUBSET RcptTo[m] /\ IsFiniteSet(RcptTo[m])
  BY MailAssumption DEF Settled
<1>2. IsFiniteSet(Settled(m, p))
  BY <1>1, FS_Subset
<1>3. Cardinality(Copies(m, p)) \in Nat /\ Cardinality(Strays(m, p)) \in Nat
  BY FS_CardinalityType DEF Accounted
<1>4. Cardinality(Settled(m, p)) \in Nat
  BY <1>2, FS_CardinalityType
<1>. QED
  BY <1>2, <1>3, <1>4, MailAssumption DEF TypeOK

(* One INSERT adds at most one copy, for a recipient of the session.        *)
LEMMA CopyAdded ==
  ASSUME TypeOK, NEW s \in Session, InsertEmails(s), NEW m \in Message, NEW p \in Project,
         IsFiniteSet(Copies(m, p))
  PROVE  /\ IsFiniteSet(Copies(m, p)')
         /\ Cardinality(Copies(m, p)') <= Cardinality(Copies(m, p)) + 1
         /\ raw[s] # m \/ ~HasRecipient(s, p) => Copies(m, p)' = Copies(m, p)
<1>0. Copies(m, p)' = Copies(m, p) \cup {e \in NewEmails(s) : e.raw = m /\ e.project = p}
  BY DEF InsertEmails, Copies
<1>1. CASE raw[s] # m \/ ~HasRecipient(s, p)
  <2>1. \A e \in NewEmails(s) : ~(e.raw = m /\ e.project = p)
    BY <1>1, NewEmailFacts DEF HasRecipient
  <2>2. Copies(m, p)' = Copies(m, p)
    BY <1>0, <2>1
  <2>3. Cardinality(Copies(m, p)) \in Nat
    BY FS_CardinalityType
  <2>. QED
    BY <2>2, <2>3
<1>2. CASE raw[s] = m /\ HasRecipient(s, p)
  <2>1. PICK j \in DOMAIN recipients[s] :
            recipients[s][j].project = p /\ FirstOfProject(recipients[s], j)
    BY <1>2, FirstExists DEF HasRecipient, TypeOK
  <2>2. ASSUME NEW e \in NewEmails(s), e.project = p
        PROVE  e = EmailFor(s, j)
    <3>1. PICK i \in DOMAIN recipients[s] :
              /\ FirstOfProject(recipients[s], i) /\ e = EmailFor(s, i)
              /\ recipients[s][i].project = p
      BY <2>2, NewEmailFacts
    <3>2. i \in Nat /\ j \in Nat /\ ~(i < j) /\ ~(j < i)
      BY <2>1, <3>1 DEF FirstOfProject, TypeOK
    <3>. QED
      BY <3>1, <3>2
  <2>3. Copies(m, p)' \in SUBSET (Copies(m, p) \cup {EmailFor(s, j)})
    BY <1>0, <2>2
  <2>. DEFINE C == Copies(m, p)
              e == EmailFor(s, j)
              D == C \cup {e}
  <2>4. IsFiniteSet(C) /\ Cardinality(C) \in Nat
    BY FS_CardinalityType
  <2>5. Copies(m, p)' \in SUBSET D
    BY <2>3
  <2>. HIDE DEF C, e
  <2>6. IsFiniteSet(D) /\ Cardinality(D) = IF e \in C THEN Cardinality(C) ELSE Cardinality(C) + 1
    BY <2>4, FS_AddElement
  <2>7. IsFiniteSet(D) /\ Cardinality(D) \in Nat /\ Cardinality(D) <= Cardinality(C) + 1
    BY <2>4, <2>6
  <2>. HIDE DEF D
  <2>8. IsFiniteSet(Copies(m, p)') /\ Cardinality(Copies(m, p)') <= Cardinality(D)
        /\ Cardinality(Copies(m, p)') \in Nat
    BY <2>5, <2>7, FS_Subset, FS_CardinalityType
  <2>9. Cardinality(Copies(m, p)') <= Cardinality(C) + 1
    BY <2>4, <2>7, <2>8
  <2>. QED
    BY <1>2, <2>8, <2>9 DEF C
<1>. QED
  BY <1>1, <1>2

(* What was settled stays settled.                                          *)
LEMMA SettledGrows ==
  ASSUME TypeOK', RowsKept, NEW m \in Message, NEW p \in Project, p \in Rows,
         delivered[m] \subseteq delivered'[m]
  PROVE  /\ IsFiniteSet(Settled(m, p)') /\ Cardinality(Settled(m, p)') \in Nat
         /\ Settled(m, p) \subseteq Settled(m, p)'
         /\ Cardinality(Settled(m, p)) <= Cardinality(Settled(m, p)')
<1>1. Settled(m, p)' \in SUBSET RcptTo[m] /\ IsFiniteSet(RcptTo[m])
  BY MailAssumption DEF Settled
<1>2. IsFiniteSet(Settled(m, p)')
  BY <1>1, FS_Subset
<1>3. Settled(m, p) \in SUBSET Settled(m, p)'
  BY DEF Settled, RowsKept
<1>4. Cardinality(Settled(m, p)) <= Cardinality(Settled(m, p)')
  BY <1>2, <1>3, FS_Subset
<1>. QED
  BY <1>2, <1>3, <1>4, FS_CardinalityType

\* A step that stores nothing and takes no answer away needs no payment.
LEMMA NothingOwed ==
  ASSUME TypeOK, TypeOK', RowsKept, NEW m \in Message, NEW p \in Project, p \in Rows,
         Accounted(m, p),
         Copies(m, p)' = Copies(m, p), Strays(m, p)' \subseteq Strays(m, p),
         delivered[m] \subseteq delivered'[m], faults <= faults',
         AnswerDue(m, p) => AnswerDue(m, p)'
  PROVE  Accounted(m, p)'
<1>1. IsFiniteSet(Strays(m, p)') /\ Cardinality(Strays(m, p)') <= Cardinality(Strays(m, p))
      /\ Cardinality(Strays(m, p)') \in Nat
  <2>1. Strays(m, p)' \in SUBSET Strays(m, p)
    OBVIOUS
  <2>. QED
    BY <2>1, FS_Subset, FS_CardinalityType DEF Accounted
<1>. DEFINE d == IF AnswerDue(m, p) THEN 1 ELSE 0
            e == IF AnswerDue(m, p)' THEN 1 ELSE 0
<1>2. d \in Nat /\ e \in Nat /\ d <= e
  OBVIOUS
<1>3. /\ IsFiniteSet(Copies(m, p)) /\ IsFiniteSet(Strays(m, p))
      /\ Cardinality(Copies(m, p)) + Cardinality(Strays(m, p)) <=
            faults + Cardinality(Settled(m, p)) + d
  BY DEF Accounted
<1>4. faults' \in Nat
  BY MailAssumption DEF TypeOK
<1>. HIDE DEF d
<1>5. Cardinality(Copies(m, p)') + Cardinality(Strays(m, p)') <=
        faults' + Cardinality(Settled(m, p)') + e
  <2>. HIDE DEF e
  <2>. QED
    BY <1>1, <1>2, <1>3, <1>4, SettledGrows, QuantityTypes
<1>. QED
  BY <1>1, <1>3, <1>5 DEF Accounted

\* A session that neither stores nor answers with a 250, and whose sender stays.
LEMMA QuietSession ==
  ASSUME TypeOK, TypeOK', TransactionsConsistent, RowsKept,
         NEW m \in Message, NEW p \in Project, p \in Rows, Accounted(m, p),
         NEW s \in Session, SessionStep(s),
         ~Deliver(s), ~DeliverFails(s), ~DropInData(s), ~AnsweredOk(s)
  PROVE  Accounted(m, p)'
<1>. SenderAgrees(s)
  BY DEF TransactionsConsistent
<1>1. /\ UNCHANGED <<emails, delivered>> /\ faults <= faults'
      /\ phase'[s] = "deliver" => sending'[s] # NoMessage
      /\ phase[s] = "ok" => sending[s] = NoMessage
  <2>. USE MailAssumption DEF TypeOK, GoTo, HangUp, Fault, store, dialogue, outcome
  <2>0. faults \in Nat
    OBVIOUS
  <2>1. CASE Connect(s) \/ Quit(s) \/ Drop(s) \/ Rset(s) \/ Abort(s)
    BY <2>0, <2>1 DEF Connect, Quit, Drop, Rset, Abort, AllNamed
  <2>2. CASE \E n \in Message : Mail(s, n)
    BY <2>0, <2>2 DEF Mail, CanMail
  <2>3. CASE \E a \in Spelling : Rcpt(s, a)
    <3>1. UNCHANGED <<emails, phase, delivered>> /\ phase[s] = "mail"
      BY <2>3 DEF Rcpt, RcptAccepted, RcptUnknown, RcptFails, RcptTooMany, Named
    <3>2. faults' = faults \/ faults' = faults + 1
      BY <2>3 DEF Rcpt, RcptAccepted, RcptUnknown, RcptFails, RcptTooMany
    <3>. QED
      BY <2>0, <3>1, <3>2
  <2>4. CASE Data(s) \/ DataTooLarge(s) \/ DataUnread(s)
    BY <2>0, <2>4 DEF Data, DataTooLarge, DataUnread, AllNamed, SenderAgrees
  <2>5. CASE AnsweredTemporary(s) \/ AnsweredPermanent(s) \/ AnswerLost(s)
    BY <2>0, <2>5 DEF AnsweredTemporary, AnsweredPermanent, AnswerLost, Answered
  <2>6. CASE DeliverRefused(s)
    BY <2>0, <2>6 DEF DeliverRefused
  <2>. QED
    BY <2>1, <2>2, <2>3, <2>4, <2>5, <2>6 DEF SessionStep, Answer
<1>2. Copies(m, p)' = Copies(m, p)
  BY <1>1 DEF Copies
<1>3. Strays(m, p)' \subseteq Strays(m, p)
  BY <1>1, OthersUntouched DEF Strays, HasRecipient
<1>4. ASSUME AnswerDue(m, p) PROVE AnswerDue(m, p)'
  <2>1. PICK t \in Session : sending[t] = m /\ phase[t] = "ok" /\ HasRecipient(t, p)
    BY <1>4 DEF AnswerDue
  <2>2. t # s
    BY <1>1, <2>1, MailAssumption
  <2>3. sending'[t] = m /\ phase'[t] = "ok" /\ HasRecipient(t, p)'
    BY <2>1, <2>2, OthersUntouched DEF HasRecipient
  <2>. QED
    BY <2>3 DEF AnswerDue
<1>. QED
  BY <1>1, <1>2, <1>3, <1>4, NothingOwed

\* The sender of s goes away while Data is at work: this fault pays for the copy that
\* is still to come, or for the one whose answer is lost.
LEMMA SenderGone ==
  ASSUME TypeOK, TypeOK', RowsKept, NEW m \in Message, NEW p \in Project, p \in Rows,
         Accounted(m, p), NEW s \in Session, DropInData(s)
  PROVE  Accounted(m, p)'
<1>. USE MailAssumption
<1>1. /\ UNCHANGED <<emails, delivered, phase, raw, recipients>> /\ faults' = faults + 1
      /\ sending' = [sending EXCEPT ![s] = NoMessage] /\ sending[s] # NoMessage
  BY DEF DropInData, Fault, HangUp, store, server, outcome
<1>2. Copies(m, p)' = Copies(m, p)
  BY <1>1 DEF Copies
<1>. DEFINE S == Strays(m, p)
            T == Strays(m, p)'
<1>3. T \in SUBSET (S \cup {s})
  BY <1>1 DEF Strays, HasRecipient, TypeOK
<1>4. CASE phase[s] = "deliver"
  <2>1. AnswerDue(m, p)' = AnswerDue(m, p)
    BY <1>1, <1>4 DEF AnswerDue, HasRecipient, TypeOK
  <2>2. IsFiniteSet(S)
    BY DEF Accounted
  <2>. HIDE DEF S, T
  <2>3. IsFiniteSet(S \cup {s}) /\ Cardinality(S \cup {s}) <= Cardinality(S) + 1
        /\ Cardinality(S \cup {s}) \in Nat
    <3>1. IsFiniteSet(S \cup {s})
          /\ Cardinality(S \cup {s}) = IF s \in S THEN Cardinality(S) ELSE Cardinality(S) + 1
      BY <2>2, FS_AddElement
    <3>2. Cardinality(S) \in Nat
      BY <2>2, FS_CardinalityType
    <3>. QED
      BY <3>1, <3>2
  <2>4. IsFiniteSet(T) /\ Cardinality(T) <= Cardinality(S \cup {s}) /\ Cardinality(T) \in Nat
    BY <1>3, <2>3, FS_Subset, FS_CardinalityType
  <2>5. Cardinality(S) \in Nat
    BY <2>2, FS_CardinalityType
  <2>6. Cardinality(T) <= Cardinality(S) + 1
    BY <2>3, <2>4, <2>5
  <2>7. Settled(m, p)' = Settled(m, p)
    BY <1>1 DEF Settled, RowsKept
  <2>. QED
    BY <1>1, <1>2, <2>1, <2>4, <2>6, <2>7, QuantityTypes DEF Accounted, S, T
<1>5. CASE phase[s] # "deliver"
  <2>1. T \subseteq S
    BY <1>1, <1>5 DEF Strays, HasRecipient, TypeOK
  <2>2. IsFiniteSet(T) /\ Cardinality(T) <= Cardinality(S) /\ Cardinality(T) \in Nat
    <3>1. T \in SUBSET S /\ IsFiniteSet(S)
      BY <2>1 DEF Accounted
    <3>. HIDE DEF S, T
    <3>. QED
      BY <3>1, FS_Subset, FS_CardinalityType
  <2>3. Settled(m, p)' = Settled(m, p)
    BY <1>1 DEF Settled, RowsKept
  <2>. QED
    BY <1>1, <1>2, <2>2, <2>3, QuantityTypes DEF Accounted
<1>. QED
  BY <1>4, <1>5

\* Deliver, with or without an error: the copy was paid for if nobody waits for the
\* answer, and otherwise the answer or the error pays for it.
LEMMA OneDelivered ==
  ASSUME TypeOK, TypeOK', TransactionsConsistent, DialoguesConsistent, RowsKept,
         NEW m \in Message, NEW p \in Project, p \in Rows, Accounted(m, p),
         NEW s \in Session, Deliver(s) \/ DeliverFails(s)
  PROVE  Accounted(m, p)'
<1>. USE MailAssumption
<1>. SenderAgrees(s) /\ RawIsFromSender(s) /\ DialogueConsistent(s)
  BY DEF TransactionsConsistent, DialoguesConsistent
<1>1. /\ UNCHANGED <<projects, delivered, raw, recipients, sending>>
      /\ phase[s] = "deliver" /\ phase'[s] # "deliver"
      /\ \A t \in Session \ {s} : phase'[t] = phase[t]
      /\ faults' = faults \/ faults' = faults + 1
      /\ InsertEmails(s) \/ UNCHANGED emails
  BY DEF Deliver, DeliverRefused, DeliverFails, GoTo, Fault, TypeOK, dialogue, outcome, store
<1>2. faults \in Nat
  BY DEF TypeOK
<1>3. Strays(m, p)' = Strays(m, p) \ {s}
  BY <1>1 DEF Strays, HasRecipient
<1>4. AnswerDue(m, p) => AnswerDue(m, p)'
  BY <1>1 DEF AnswerDue, HasRecipient
<1>5. CASE Copies(m, p)' = Copies(m, p)
  BY <1>1, <1>2, <1>3, <1>4, <1>5, NothingOwed
<1>6. CASE InsertEmails(s) /\ raw[s] = m /\ HasRecipient(s, p)
  <2>1. IsFiniteSet(Copies(m, p)') /\ Cardinality(Copies(m, p)') <= Cardinality(Copies(m, p)) + 1
        /\ Cardinality(Copies(m, p)') \in Nat
    BY <1>6, CopyAdded, FS_CardinalityType DEF Accounted
  <2>2. Settled(m, p)' = Settled(m, p)
    BY <1>1 DEF Settled
  <2>. DEFINE S == Strays(m, p)
              c == Cardinality(S)
  <2>3. IsFiniteSet(S) /\ c \in Nat
    BY QuantityTypes DEF Accounted
  <2>4. /\ IsFiniteSet(S \ {s}) /\ Cardinality(S \ {s}) \in Nat
        /\ Cardinality(S \ {s}) = IF s \in S THEN c - 1 ELSE c
    <3>. HIDE DEF S
    <3>. QED
      BY <2>3, FS_RemoveElement, FS_CardinalityType
  <2>5. CASE sending[s] = NoMessage
    <3>1. s \in S
      BY <1>1, <1>6, <2>5 DEF Strays
    <3>2. Cardinality(S \ {s}) = c - 1
      BY <2>4, <3>1
    <3>. HIDE DEF c
    <3>. QED
      BY <1>1, <1>2, <1>3, <1>4, <2>1, <2>2, <2>3, <2>4, <3>2, QuantityTypes DEF Accounted, c
  <2>6. CASE sending[s] # NoMessage
    <3>1. sending[s] = m
      BY <1>1, <1>6, <2>6 DEF SenderAgrees, RawIsFromSender
    <3>2. ~AnswerDue(m, p)
      BY <1>1, <3>1 DEF AnswerDue, DialogueConsistent
    <3>3. CASE Deliver(s)
      <4>1. phase'[s] = "ok" /\ faults' = faults
        BY <3>3 DEF Deliver, GoTo, TypeOK
      <4>2. AnswerDue(m, p)'
        BY <1>1, <1>6, <3>1, <4>1 DEF AnswerDue, HasRecipient
      <4>3. Cardinality(S \ {s}) <= c
        BY <2>3, <2>4
      <4>. QED
        BY <1>2, <1>3, <2>1, <2>2, <2>3, <2>4, <3>2, <4>1, <4>2, <4>3, QuantityTypes DEF Accounted
    <3>4. CASE DeliverFails(s)
      <4>1. faults' = faults + 1
        BY <3>4 DEF DeliverFails, Fault
      <4>2. Cardinality(S \ {s}) <= c
        BY <2>3, <2>4
      <4>. QED
        BY <1>2, <1>3, <2>1, <2>2, <2>3, <2>4, <3>2, <4>1, <4>2, QuantityTypes DEF Accounted
    <3>. QED
      BY <3>3, <3>4
  <2>. QED
    BY <2>5, <2>6
<1>7. Copies(m, p)' = Copies(m, p) \/ (InsertEmails(s) /\ raw[s] = m /\ HasRecipient(s, p))
  <2>1. CASE UNCHANGED emails
    BY <2>1 DEF Copies
  <2>2. CASE InsertEmails(s)
    BY <2>2, CopyAdded DEF Accounted
  <2>. QED
    BY <1>1, <2>1, <2>2
<1>. QED
  BY <1>5, <1>6, <1>7

\* A 250 crosses the spellings off whose copies have been waiting for it.
LEMMA OkSettles ==
  ASSUME TypeOK, TypeOK', TransactionsConsistent, DialoguesConsistent, RowsKept,
         NEW m \in Message, NEW p \in Project, p \in Rows, Accounted(m, p),
         NEW s \in Session, AnsweredOk(s)
  PROVE  Accounted(m, p)'
<1>. USE MailAssumption
<1>. RecipientsOwned(s) /\ SenderAgrees(s) /\ DialogueConsistent(s)
  BY DEF TransactionsConsistent, DialoguesConsistent
<1>1. /\ UNCHANGED <<projects, emails, faults>>
      /\ phase[s] = "ok" /\ phase'[s] = "idle" /\ sending[s] \in Message
      /\ delivered' = [delivered EXCEPT ![sending[s]] = @ \cup accepted[s]]
  BY DEF AnsweredOk, Answered, GoTo, TypeOK, Maybe, store
<1>2. \A t \in Session \ {s} : /\ phase'[t] = phase[t] /\ sending'[t] = sending[t]
                               /\ raw'[t] = raw[t] /\ recipients'[t] = recipients[t]
  BY OthersUntouched DEF SessionStep, Answer
<1>3. Copies(m, p)' = Copies(m, p) /\ Strays(m, p)' \subseteq Strays(m, p)
  BY <1>1, <1>2 DEF Copies, Strays, HasRecipient
<1>4. faults \in Nat /\ delivered[m] \subseteq delivered'[m]
  BY <1>1 DEF TypeOK
<1>5. CASE sending[s] # m \/ ~HasRecipient(s, p)
  <2>1. ASSUME AnswerDue(m, p) PROVE AnswerDue(m, p)'
    <3>1. PICK t \in Session : sending[t] = m /\ phase[t] = "ok" /\ HasRecipient(t, p)
      BY <2>1 DEF AnswerDue
    <3>2. t # s
      BY <1>5, <3>1
    <3>. QED
      BY <1>2, <3>1, <3>2 DEF AnswerDue, HasRecipient
  <2>. QED
    BY <1>1, <1>3, <1>4, <2>1, NothingOwed
<1>6. CASE sending[s] = m /\ HasRecipient(s, p)
  <2>1. PICK i \in DOMAIN recipients[s] : recipients[s][i].project = p
    BY <1>6 DEF HasRecipient
  <2>. DEFINE a == recipients[s][i].address
  <2>2. /\ a \in RcptTo[m] /\ NormalOf[a] = projects[p].address
        /\ a \in accepted[s] /\ a \notin delivered[m]
    BY <1>1, <1>6, <2>1 DEF RecipientsOwned, SenderAgrees, DialogueConsistent
  <2>3. a \in delivered'[m]
    BY <1>1, <1>6, <2>2 DEF TypeOK
  <2>. DEFINE S == Settled(m, p)
              T == Settled(m, p)'
  <2>4. a \in T /\ a \notin S
    BY <1>1, <2>2, <2>3 DEF Settled
  <2>5. IsFiniteSet(T) /\ S \subseteq T /\ Cardinality(T) \in Nat
    BY <1>4, SettledGrows
  <2>6. Cardinality(S) \in Nat /\ IsFiniteSet(S)
    BY QuantityTypes
  <2>7. Cardinality(S) + 1 <= Cardinality(T)
    <3>. HIDE DEF S, T
    <3>1. S \in SUBSET T /\ S # T
      BY <2>4, <2>5
    <3>2. Cardinality(S) <= Cardinality(T) /\ Cardinality(S) # Cardinality(T)
      BY <2>5, <3>1, FS_Subset
    <3>. QED
      BY <2>5, <2>6, <3>2
  <2>8. /\ IsFiniteSet(Strays(m, p)') /\ Cardinality(Strays(m, p)') \in Nat
        /\ Cardinality(Strays(m, p)') <= Cardinality(Strays(m, p))
    <3>1. Strays(m, p)' \in SUBSET Strays(m, p) /\ IsFiniteSet(Strays(m, p))
      BY <1>3 DEF Accounted
    <3>. QED
      BY <3>1, FS_Subset, FS_CardinalityType
  <2>. QED
    BY <1>1, <1>3, <1>4, <2>6, <2>5, <2>7, <2>8, QuantityTypes DEF Accounted
<1>. QED
  BY <1>5, <1>6

\* A crash ends every delivery, and may swallow one answer for a message.
LEMMA CrashPays ==
  ASSUME TypeOK, TypeOK', RowsKept, NEW m \in Message, NEW p \in Project, p \in Rows,
         Accounted(m, p), Crash
  PROVE  Accounted(m, p)'
<1>1. /\ UNCHANGED <<emails, delivered>> /\ faults' = faults + 1
      /\ \A t \in Session : phase'[t] = "closed"
  BY DEF Crash, Fault, store, outcome
<1>2. Copies(m, p)' = Copies(m, p) /\ Strays(m, p)' = {} /\ Settled(m, p)' = Settled(m, p)
  BY <1>1 DEF Copies, Strays, Settled, RowsKept
<1>3. IsFiniteSet({}) /\ Cardinality({}) = 0
  BY FS_EmptySet
<1>. QED
  BY <1>1, <1>2, <1>3, QuantityTypes DEF Accounted

(* Copies stay accounted for, and a new project starts with none.           *)
LEMMA AccountedStep ==
  ASSUME IInv, TypeOK', DialoguesConsistent, CopiesAccounted, [Next]_vars
  PROVE  CopiesAccounted'
<1>. SUFFICES ASSUME NEW m \in Message, NEW p \in Project, p \in Rows'
              PROVE  Accounted(m, p)'
  BY DEF CopiesAccounted, Rows
<1>0. TypeOK /\ TransactionsConsistent /\ MailReachesOwner /\ RowsKept
  BY StepKeepsRows DEF IInv
<1>1. CASE p \in Rows
  <2>1. Accounted(m, p)
    BY <1>1 DEF CopiesAccounted
  <2>2. ASSUME NEW s \in Session, SessionStep(s)
        PROVE Accounted(m, p)'
    BY <1>0, <1>1, <2>1, <2>2, QuietSession, SenderGone, OneDelivered, OkSettles
  <2>3. CASE Crash
    BY <1>0, <1>1, <2>1, <2>3, CrashPays
  <2>4. CASE ProjectStep \/ UNCHANGED vars
    <3>1. UNCHANGED <<emails, server, dialogue, outcome, faults>>
      BY <2>4 DEF ProjectStep, vars, store
    <3>2. /\ Copies(m, p)' = Copies(m, p) /\ Strays(m, p)' = Strays(m, p)
          /\ AnswerDue(m, p)' = AnswerDue(m, p)
      BY <3>1 DEF Copies, Strays, AnswerDue, HasRecipient, server, dialogue
    <3>3. delivered[m] \subseteq delivered'[m] /\ faults <= faults'
      BY <1>0, <3>1, QuantityTypes, <2>1 DEF outcome
    <3>. QED
      BY <1>0, <1>1, <2>1, <3>2, <3>3, NothingOwed
  <2>. QED
    BY <2>2, <2>3, <2>4 DEF Next
<1>2. CASE p \notin Rows
  <2>1. UNCHANGED <<emails, server, dialogue, faults>>
    BY <1>2, EmailsStep DEF Next, SessionStep, Connect, Quit, Drop, DropInData, Mail, Rcpt,
     RcptAccepted, RcptUnknown, RcptFails, RcptTooMany, Named, Rset, Abort, Data,
     DataTooLarge, DataUnread, Deliver, DeliverRefused, DeliverFails, Answer, AnsweredOk, AnsweredTemporary,
     AnsweredPermanent, AnswerLost, Answered, Crash, ProjectStep, vars, Rows, store
  <2>2. Copies(m, p)' = {}
    BY <1>0, <1>2, <2>1 DEF Copies, MailReachesOwner
  <2>3. Strays(m, p)' = {}
    BY <1>0, <1>2, <2>1 DEF Strays, HasRecipient, server, dialogue, TransactionsConsistent,
       RecipientsOwned
  <2>4. IsFiniteSet({}) /\ Cardinality({}) = 0
    BY FS_EmptySet
  <2>5. Cardinality(Settled(m, p)') \in Nat
    <3>1. Settled(m, p)' \in SUBSET RcptTo[m] /\ IsFiniteSet(RcptTo[m])
      BY MailAssumption DEF Settled
    <3>. QED
      BY <3>1, FS_Subset, FS_CardinalityType
  <2>6. faults' \in Nat
    BY MailAssumption DEF TypeOK
  <2>. QED
    BY <2>2, <2>3, <2>4, <2>5, <2>6 DEF Accounted
<1>. QED
  BY <1>1, <1>2

(* The inductive invariant behind the count of copies.                      *)
CopiesInv == IInv /\ DialoguesConsistent /\ CopiesAccounted

LEMMA CopiesInvInit == Init => CopiesInv
<1>. SUFFICES ASSUME Init PROVE CopiesInv
  OBVIOUS
<1>1. DialoguesConsistent
  BY MailAssumption DEF Init, DialoguesConsistent, DialogueConsistent
<1>2. Rows = {}
  BY DEF Init, StoreInit, Rows
<1>. QED
  BY <1>1, <1>2, InitIInv DEF CopiesInv, CopiesAccounted

LEMMA CopiesInvStep == CopiesInv /\ [Next]_vars => CopiesInv'
<1>. SUFFICES ASSUME CopiesInv, [Next]_vars PROVE CopiesInv'
  OBVIOUS
<1>1. IInv' /\ TypeOK'
  BY IInvStep DEF CopiesInv, IInv
<1>2. TypeOK /\ TransactionsConsistent
  BY DEF CopiesInv, IInv
<1>. QED
  BY <1>1, <1>2, DialoguesStep, AccountedStep DEF CopiesInv

\* What is settled was spelled by the sender, and so was what waits for its answer.
LEMMA AccountedExplains == CopiesInv => CopiesExplained
<1>. SUFFICES ASSUME CopiesInv, NEW m \in Message, NEW p \in Project, p \in Rows
              PROVE  Cardinality(Copies(m, p)) <=
                        faults + Cardinality({a \in RcptTo[m] : NormalOf[a] = projects[p].address})
  BY DEF CopiesExplained, Copies, Rows
<1>. DEFINE A == {a \in RcptTo[m] : NormalOf[a] = projects[p].address}
            S == Settled(m, p)
<1>1. TypeOK /\ Accounted(m, p)
  BY DEF CopiesInv, IInv, CopiesAccounted
<1>2. S \in SUBSET A
  BY DEF Settled
<1>3. IsFiniteSet(A) /\ Cardinality(A) \in Nat
  <2>1. A \in SUBSET RcptTo[m] /\ IsFiniteSet(RcptTo[m])
    BY MailAssumption
  <2>. HIDE DEF A
  <2>. QED
    BY <2>1, FS_Subset, FS_CardinalityType
<1>4. /\ Cardinality(Copies(m, p)) \in Nat /\ Cardinality(Strays(m, p)) \in Nat
      /\ Cardinality(S) \in Nat /\ faults \in Nat
  BY <1>1, QuantityTypes
<1>5. Cardinality(S) <= Cardinality(A) /\ (S # A => Cardinality(S) # Cardinality(A))
  <2>. HIDE DEF S, A
  <2>. QED
    BY <1>2, <1>3, FS_Subset
<1>6. CASE AnswerDue(m, p)
  <2>1. PICK s \in Session : sending[s] = m /\ phase[s] = "ok" /\ HasRecipient(s, p)
    BY <1>6 DEF AnswerDue
  <2>2. RecipientsOwned(s) /\ SenderAgrees(s) /\ DialogueConsistent(s) /\ sending[s] # NoMessage
    BY <2>1, MailAssumption DEF CopiesInv, IInv, TransactionsConsistent, DialoguesConsistent
  <2>3. PICK i \in DOMAIN recipients[s] : recipients[s][i].project = p
    BY <2>1 DEF HasRecipient
  <2>4. recipients[s][i].address \in A /\ recipients[s][i].address \notin S
    BY <2>1, <2>2, <2>3 DEF RecipientsOwned, SenderAgrees, DialogueConsistent, Settled
  <2>5. Cardinality(S) # Cardinality(A)
    BY <1>5, <2>4
  <2>. HIDE DEF S, A
  <2>6. Cardinality(S) + 1 <= Cardinality(A)
    BY <1>3, <1>4, <1>5, <2>5
  <2>. QED
    BY <1>1, <1>3, <1>4, <1>6, <2>6 DEF Accounted, S, A
<1>7. CASE ~AnswerDue(m, p)
  BY <1>1, <1>3, <1>4, <1>5, <1>7 DEF Accounted
<1>. QED
  BY <1>6, <1>7

(* Every copy of a message beyond one per spelling of the project's address *)
(* is paid for by a fault: a retry alone never duplicates (the map `seen` of*)
(* Deliver, and a 250 that is only sent once the INSERT is committed).      *)
THEOREM CopiesAreExplained == Spec => []CopiesExplained
  BY CopiesInvInit, CopiesInvStep, AccountedExplains, PTL DEF Spec
=============================================================================
