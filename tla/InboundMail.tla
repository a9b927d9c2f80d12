----------------------------- MODULE InboundMail -----------------------------
(***************************************************************************)
(* The SMTP side of the program: mailserver/mailserver.go on top of        *)
(* services/inbound/store.go, the transaction states that go-smtp keeps    *)
(* around it, and the mail servers that send to it.                        *)
(*                                                                         *)
(* A sending server keeps, per message, the recipients it still has to     *)
(* hand over (queue).  It retries after a 4xx answer or a lost connection, *)
(* gives a recipient up after a 5xx answer (bounced) and forgets it after  *)
(* a 250 (delivered).  The HTTP handlers insert, edit and soft-delete      *)
(* projects at any moment (StoreNext).                                     *)
(*                                                                         *)
(* Faults (a lost connection, a message that is not read to its end, an    *)
(* aborted transaction, a database error, a crash) draw on the bound       *)
(* MaxFaults.                                                              *)
(***************************************************************************)
EXTENDS ProjectStore, Naturals, Sequences, FiniteSets

CONSTANTS
    Session,        \* connections the server can hold at once
    Message,        \* messages that senders have queued for us
    NoMessage,      \* no message
    Spelling,       \* recipient addresses as a sender writes them
    NormalOf,       \* NormalizeAddress, as a function on Spelling
    OwnDomain,      \* normal forms whose AddressDomain is Store.Domain
    RcptTo,         \* the recipients of each message
    Oversized,      \* messages larger than maxMessageBytes, or with too long a line
    Unstorable,     \* messages whose row PostgreSQL refuses; see MailFormat
    MaxRecipients,  \* maxRecipients
    MaxFaults       \* bound on the faults of a behaviour

ASSUME MailAssumption ==
    /\ NoMessage \notin Message
    /\ DOMAIN NormalOf = Spelling
    /\ RcptTo \in [Message -> SUBSET Spelling]
    /\ \A m \in Message : IsFiniteSet(RcptTo[m])
    /\ Oversized \subseteq Message
    /\ Unstorable \subseteq Message
    /\ MaxRecipients \in Nat \ {0}
    /\ MaxFaults \in Nat

VARIABLES
    emails,     \* the rows of the emails table
    transfers,  \* INSERTs into it so far
    phase,      \* per session: where go-smtp and the session are
    from,       \* per session: session.from
    recipients, \* per session: session.recipients
    raw,        \* per session: raw, in Data
    sending,    \* per session: the message its sender is handing over
    tried,      \* per session: recipients the sender has named in a RCPT
    accepted,   \* per session: recipients that were answered with 250
    queue,      \* per message: recipients not handed over yet
    delivered,  \* per message: recipients whose DATA was answered with 250
    bounced,    \* per message: recipients answered with 5xx
    faults      \* faults so far

store == <<emails, transfers>>
server == <<phase, from, recipients, raw>>
dialogue == <<sending, tried, accepted>>
outcome == <<queue, delivered, bounced>>
vars == <<projects, store, server, dialogue, outcome, faults>>

-----------------------------------------------------------------------------
Maybe(M) == M \cup {NoMessage}

\* The last four: Data has returned and its answer is on its way.
Phase == {"closed", "idle", "mail", "deliver", "ok", "temporary", "toolarge", "unread"}

Recipient == [address : Spelling, project : Project]

\* One copy of a message.  <<transfer, item>> stands for the UUIDv7 key that
\* BeforeAppendModel gives the row; `from` and `raw` are the messages whose
\* MAIL and DATA commands envelope_from and raw_message come from.
Email ==
    [transfer : Nat, item : Nat, project : Project,
     to : {NormalOf[a] : a \in Spelling}, from : Message, raw : Message]

TypeOK ==
    /\ TypeOK_Projects
    /\ emails \in SUBSET Email
    /\ transfers \in Nat
    /\ phase \in [Session -> Phase]
    /\ from \in [Session -> Maybe(Message)]
    /\ recipients \in [Session -> Seq(Recipient)]
    /\ raw \in [Session -> Maybe(Message)]
    /\ sending \in [Session -> Maybe(Message)]
    /\ tried \in [Session -> SUBSET Spelling]
    /\ accepted \in [Session -> SUBSET Spelling]
    /\ queue \in [Message -> SUBSET Spelling]
    /\ delivered \in [Message -> SUBSET Spelling]
    /\ bounced \in [Message -> SUBSET Spelling]
    /\ faults \in 0..MaxFaults

Init ==
    /\ StoreInit
    /\ emails = {}
    /\ transfers = 0
    /\ phase = [s \in Session |-> "closed"]
    /\ from = [s \in Session |-> NoMessage]
    /\ recipients = [s \in Session |-> <<>>]
    /\ raw = [s \in Session |-> NoMessage]
    /\ sending = [s \in Session |-> NoMessage]
    /\ tried = [s \in Session |-> {}]
    /\ accepted = [s \in Session |-> {}]
    /\ queue = RcptTo
    /\ delivered = [m \in Message |-> {}]
    /\ bounced = [m \in Message |-> {}]
    /\ faults = 0

-----------------------------------------------------------------------------
GoTo(s, ph) == phase' = [phase EXCEPT ![s] = ph]

Fault == faults < MaxFaults /\ faults' = faults + 1

\* Faulty variant: the recipients stay for the next transaction.
ResetFromOnly(s) ==
    /\ from' = [from EXCEPT ![s] = NoMessage]
    /\ raw' = [raw EXCEPT ![s] = NoMessage]
    /\ UNCHANGED recipients

\* Session.Reset, which go-smtp calls after DATA and on RSET; NewSession starts
\* from the same values.  raw is gone once Data has returned.
Reset(s) ==
    /\ from' = [from EXCEPT ![s] = NoMessage]
    /\ recipients' = [recipients EXCEPT ![s] = <<>>]
    /\ raw' = [raw EXCEPT ![s] = NoMessage]

\* The sender is in no transaction on s any more.
HangUp(s) ==
    /\ sending' = [sending EXCEPT ![s] = NoMessage]
    /\ tried' = [tried EXCEPT ![s] = {}]
    /\ accepted' = [accepted EXCEPT ![s] = {}]

-----------------------------------------------------------------------------
(* Opening and closing connections.                                         *)

\* NewSession, and Logout with what go-smtp does around it.
Connect(s) ==
    /\ phase[s] = "closed"
    /\ GoTo(s, "idle")
    /\ UNCHANGED <<projects, store, from, recipients, raw, dialogue, outcome, faults>>

Quit(s) ==
    /\ phase[s] = "idle"
    /\ GoTo(s, "closed")
    /\ UNCHANGED <<projects, store, from, recipients, raw, dialogue, outcome, faults>>

\* The sender goes away between two commands,
Drop(s) ==
    /\ phase[s] \in {"idle", "mail"}
    /\ Fault
    /\ GoTo(s, "closed") /\ Reset(s) /\ HangUp(s)
    /\ UNCHANGED <<projects, store, outcome>>

\* or while Data is at work.  Deliver runs under context.Background(), so it
\* is not interrupted.
DropInData(s) ==
    /\ phase[s] \in {"deliver", "ok", "temporary", "toolarge", "unread"}
    /\ sending[s] # NoMessage
    /\ Fault
    /\ HangUp(s)
    /\ UNCHANGED <<projects, store, server, outcome>>

\* The process stops: every connection is gone, the database is not.
Crash ==
    /\ Fault
    /\ phase' = [s \in Session |-> "closed"]
    /\ from' = [s \in Session |-> NoMessage]
    /\ recipients' = [s \in Session |-> <<>>]
    /\ raw' = [s \in Session |-> NoMessage]
    /\ sending' = [s \in Session |-> NoMessage]
    /\ tried' = [s \in Session |-> {}]
    /\ accepted' = [s \in Session |-> {}]
    /\ UNCHANGED <<projects, store, outcome>>

-----------------------------------------------------------------------------
(* MAIL, RCPT and RSET.                                                     *)

\* A sender does not hand one message over on two connections at a time.
CanMail(s, m) ==
    /\ phase[s] = "idle"
    /\ queue[m] # {}
    /\ \A t \in Session : sending[t] # m

\* Faulty variant: Mail does not keep the envelope sender.
MailWithoutFrom(s, m) ==
    /\ CanMail(s, m)
    /\ GoTo(s, "mail")
    /\ sending' = [sending EXCEPT ![s] = m]
    /\ UNCHANGED <<projects, store, from, recipients, raw, tried, accepted, outcome, faults>>

Mail(s, m) ==
    /\ CanMail(s, m)
    /\ GoTo(s, "mail")
    /\ from' = [from EXCEPT ![s] = m]
    /\ sending' = [sending EXCEPT ![s] = m]
    /\ UNCHANGED <<projects, store, recipients, raw, tried, accepted, outcome, faults>>

\* Faulty variant: any project of the domain will do.
FindProjectByDomain(a) ==
    {p \in Project : NormalOf[a] \in OwnDomain /\ Active(p)}

\* FindProjectID: the empty set is ok=false.
FindProject(a) ==
    {p \in Project : /\ NormalOf[a] \in OwnDomain
                     /\ Active(p)
                     /\ projects[p].address = NormalOf[a]}

\* The sender names a recipient it has still queued; it asks once for each.
Named(s, a) ==
    /\ phase[s] = "mail"
    /\ a \in queue[sending[s]] \ tried[s]
    /\ tried' = [tried EXCEPT ![s] = @ \cup {a}]
    /\ UNCHANGED <<projects, store, phase, from, raw, sending, delivered>>

RcptAccepted(s, a, p) ==
    /\ Named(s, a)
    /\ Len(recipients[s]) < MaxRecipients
    /\ p \in FindProject(a)
    /\ recipients' = [recipients EXCEPT ![s] = Append(@, [address |-> a, project |-> p])]
    /\ accepted' = [accepted EXCEPT ![s] = @ \cup {a}]
    /\ UNCHANGED <<queue, bounced, faults>>

GiveUp(m, S) ==
    /\ queue' = [queue EXCEPT ![m] = @ \ S]
    /\ bounced' = [bounced EXCEPT ![m] = @ \cup S]

\* Faulty variant: an unknown address is answered with a temporary error.
RcptUnknownTemporary(s, a) ==
    /\ Named(s, a)
    /\ Len(recipients[s]) < MaxRecipients
    /\ FindProject(a) = {}
    /\ UNCHANGED <<recipients, accepted, queue, bounced, faults>>

\* 550, "No such mailbox".
RcptUnknown(s, a) ==
    /\ Named(s, a)
    /\ Len(recipients[s]) < MaxRecipients
    /\ FindProject(a) = {}
    /\ GiveUp(sending[s], {a})
    /\ UNCHANGED <<recipients, accepted, faults>>

\* Faulty variant: a failed lookup is answered like an unknown address.
RcptFailsForGood(s, a) ==
    /\ Named(s, a)
    /\ Len(recipients[s]) < MaxRecipients
    /\ Fault
    /\ GiveUp(sending[s], {a})
    /\ UNCHANGED <<recipients, accepted>>

\* 451: the lookup failed or ran into its 5 seconds.
RcptFails(s, a) ==
    /\ Named(s, a)
    /\ Len(recipients[s]) < MaxRecipients
    /\ Fault
    /\ UNCHANGED <<recipients, accepted, queue, bounced>>

\* 452, go-smtp's answer beyond MaxRecipients; Session.Rcpt is not called.
RcptTooMany(s, a) ==
    /\ Named(s, a)
    /\ Len(recipients[s]) >= MaxRecipients
    /\ UNCHANGED <<recipients, accepted, queue, bounced, faults>>

Rcpt(s, a) ==
    \/ \E p \in Project : RcptAccepted(s, a, p)
    \/ RcptUnknown(s, a)
    \/ RcptFails(s, a)
    \/ RcptTooMany(s, a)

\* The sender has named every recipient.
AllNamed(s) == phase[s] = "mail" /\ queue[sending[s]] \subseteq tried[s]

\* RSET, or a new EHLO: with no recipient accepted there is nothing to send.
Rset(s) ==
    /\ AllNamed(s)
    /\ recipients[s] = <<>>
    /\ GoTo(s, "idle") /\ Reset(s) /\ HangUp(s)
    /\ UNCHANGED <<projects, store, outcome, faults>>

\* A sender may also give a transaction up half-way.
Abort(s) ==
    /\ phase[s] = "mail"
    /\ Fault
    /\ GoTo(s, "idle") /\ Reset(s) /\ HangUp(s)
    /\ UNCHANGED <<projects, store, outcome>>

-----------------------------------------------------------------------------
(* DATA, which go-smtp refuses before the first accepted RCPT.              *)
Data(s) ==
    /\ AllNamed(s)
    /\ recipients[s] # <<>>
    /\ sending[s] \notin Oversized
    /\ GoTo(s, "deliver")
    /\ raw' = [raw EXCEPT ![s] = sending[s]]
    /\ UNCHANGED <<projects, store, from, recipients, dialogue, outcome, faults>>

\* io.ReadAll stops at what go-smtp does not read; its error goes back as it is:
\* 552 for a message beyond maxMessageBytes, 554 for a line that is too long.
DataTooLarge(s) ==
    /\ AllNamed(s)
    /\ recipients[s] # <<>>
    /\ sending[s] \in Oversized
    /\ GoTo(s, "toolarge")
    /\ UNCHANGED <<projects, store, from, recipients, raw, dialogue, outcome, faults>>

\* A sender that is slow runs into ReadTimeout, and is still there.  That error goes
\* back as it is, too, and go-smtp answers any error that is no SMTPError with 554.
DataUnread(s) ==
    /\ AllNamed(s)
    /\ recipients[s] # <<>>
    /\ Fault
    /\ GoTo(s, "unread")
    /\ UNCHANGED <<projects, store, from, recipients, raw, dialogue, outcome>>

\* Faulty variant: duplicates are not dropped.
EveryOccurrence(r, i) == i \in DOMAIN r

\* The loop over `seen`: recipient i is the first of its project.
FirstOfProject(r, i) ==
    i \in DOMAIN r /\ \A j \in DOMAIN r : j < i => r[j].project # r[i].project

\* The row that Deliver builds for recipient i.
EmailFor(s, i) ==
    [transfer |-> transfers + 1, item |-> i, project |-> recipients[s][i].project,
     to |-> NormalOf[recipients[s][i].address], from |-> from[s], raw |-> raw[s]]

NewEmails(s) ==
    {EmailFor(s, i) : i \in {j \in DOMAIN recipients[s] : FirstOfProject(recipients[s], j)}}

\* The one INSERT, when PostgreSQL takes the row.
InsertEmails(s) ==
    /\ raw[s] \notin Unstorable
    /\ emails' = emails \cup NewEmails(s)
    /\ transfers' = transfers + 1

\* Faulty variant: fewer rows than recipients are taken for an error.
DeliverCountsRows(s) ==
    /\ phase[s] = "deliver"
    /\ InsertEmails(s)
    /\ GoTo(s, IF Cardinality(NewEmails(s)) = Len(recipients[s]) THEN "ok" ELSE "temporary")
    /\ UNCHANGED <<projects, from, recipients, raw, dialogue, outcome, faults>>

Deliver(s) ==
    /\ phase[s] = "deliver"
    /\ InsertEmails(s)
    /\ GoTo(s, "ok")
    /\ UNCHANGED <<projects, from, recipients, raw, dialogue, outcome, faults>>

\* 451 for a row that PostgreSQL refuses, as for any other error: the sender will
\* try again, in vain.
DeliverRefused(s) ==
    /\ phase[s] = "deliver"
    /\ raw[s] \in Unstorable
    /\ GoTo(s, "temporary")
    /\ UNCHANGED <<projects, store, from, recipients, raw, dialogue, outcome, faults>>

\* Faulty variant: Data returns the error of Deliver as it is.
DeliverFailsForGood(s) ==
    /\ phase[s] = "deliver"
    /\ Fault
    /\ UNCHANGED store
    /\ GoTo(s, "toolarge")
    /\ UNCHANGED <<projects, from, recipients, raw, dialogue, outcome>>

\* Faulty variant: the error is logged and forgotten.
DeliverFailsSilently(s) ==
    /\ phase[s] = "deliver"
    /\ Fault
    /\ InsertEmails(s) \/ UNCHANGED store
    /\ GoTo(s, "ok")
    /\ UNCHANGED <<projects, from, recipients, raw, dialogue, outcome>>

\* 451: the INSERT failed or ran into deliverTimeout.  When it is only the
\* database's answer that got lost, the rows are there all the same.
DeliverFails(s) ==
    /\ phase[s] = "deliver"
    /\ Fault
    /\ InsertEmails(s) \/ UNCHANGED store
    /\ GoTo(s, "temporary")
    /\ UNCHANGED <<projects, from, recipients, raw, dialogue, outcome>>

\* The answer to DATA reaches the sender, and go-smtp resets the session.
Answered(s, ph) ==
    /\ phase[s] = ph
    /\ sending[s] # NoMessage
    /\ GoTo(s, "idle") /\ Reset(s) /\ HangUp(s)
    /\ UNCHANGED <<projects, store, faults>>

AnsweredOk(s) ==
    /\ Answered(s, "ok")
    /\ queue' = [queue EXCEPT ![sending[s]] = @ \ accepted[s]]
    /\ delivered' = [delivered EXCEPT ![sending[s]] = @ \cup accepted[s]]
    /\ UNCHANGED bounced

AnsweredTemporary(s) == Answered(s, "temporary") /\ UNCHANGED outcome

AnsweredPermanent(s) ==
    /\ Answered(s, "toolarge") \/ Answered(s, "unread")
    /\ GiveUp(sending[s], accepted[s])
    /\ UNCHANGED delivered

\* There is nobody left to answer.
AnswerLost(s) ==
    /\ phase[s] \in {"ok", "temporary", "toolarge", "unread"}
    /\ sending[s] = NoMessage
    /\ GoTo(s, "closed") /\ Reset(s)
    /\ UNCHANGED <<projects, store, dialogue, outcome, faults>>

Answer(s) ==
    AnsweredOk(s) \/ AnsweredTemporary(s) \/ AnsweredPermanent(s) \/ AnswerLost(s)

-----------------------------------------------------------------------------
ProjectStep ==
    /\ StoreNext
    /\ UNCHANGED <<store, server, dialogue, outcome, faults>>

SessionStep(s) ==
    \/ Connect(s) \/ Quit(s) \/ Drop(s) \/ DropInData(s)
    \/ \E m \in Message : Mail(s, m)
    \/ \E a \in Spelling : Rcpt(s, a)
    \/ Rset(s) \/ Abort(s)
    \/ Data(s) \/ DataTooLarge(s) \/ DataUnread(s)
    \/ Deliver(s) \/ DeliverRefused(s) \/ DeliverFails(s)
    \/ Answer(s)

Next ==
    \/ \E s \in Session : SessionStep(s)
    \/ Crash
    \/ ProjectStep

Spec == Init /\ [][Next]_vars

(***************************************************************************)
(* The server's own steps happen in the end: a goroutine that is not       *)
(* blocked runs, and the context and connection timeouts end what is.  A   *)
(* sender goes through the dialogue it began, and a message that stays     *)
(* queued is tried again (SF: whatever other connections do meanwhile).    *)
(***************************************************************************)
Fairness ==
    /\ \A s \in Session :
        /\ WF_vars(Connect(s))
        /\ WF_vars(\E a \in Spelling : Rcpt(s, a))
        /\ WF_vars(Rset(s) \/ Data(s) \/ DataTooLarge(s))
        /\ WF_vars(Deliver(s) \/ DeliverRefused(s))
        /\ WF_vars(Answer(s))
    /\ \A m \in Message : SF_vars(\E s \in Session : Mail(s, m))

FairSpec == Spec /\ Fairness

-----------------------------------------------------------------------------
(* A stored copy belongs to the project that owns the address it was sent   *)
(* to, although the lookup (Rcpt) and the INSERT (Data) are apart and       *)
(* projects are created, edited and deleted in between.                     *)
MailReachesOwner ==
    \A e \in emails : e.project \in Rows /\ projects[e.project].address = e.to

(* Once a sender has its 250 it forgets the recipient: there is then a copy *)
(* of the message at the project behind that address, whatever connections, *)
(* retries, duplicates and crashes came before.                             *)
AckedIsStored ==
    \A m \in Message : \A a \in delivered[m] :
        \E e \in emails : e.raw = m /\ projects[e.project].address = NormalOf[a]

(* Two spellings of one address in a transaction give its project one copy. *)
OneCopyPerTransfer ==
    \A e, f \in emails :
        e.transfer = f.transfer /\ e.project = f.project => e = f

(* The envelope, the recipients and the content of a row come from the same *)
(* message: nothing of one transaction leaks into the next one on the same  *)
(* connection, or into another connection.                                  *)
NothingLeaks ==
    \A e \in emails :
        e.from = e.raw /\ e.to \in {NormalOf[a] : a \in RcptTo[e.raw]}

(* Every extra copy of a message is paid for by a fault: without one, a     *)
(* project holds at most one copy per spelling of its address.              *)
CopiesExplained ==
    \A m \in Message, p \in Rows :
        Cardinality({e \in emails : e.raw = m /\ e.project = p}) <=
            faults + Cardinality({a \in RcptTo[m] : NormalOf[a] = projects[p].address})

(* A recipient is given up only when nobody owns the address, the message   *)
(* is too large, or reading it has failed in this transaction: a failing    *)
(* lookup, the recipient limit, a failing INSERT, a lost connection, a      *)
(* crash and what happened to other transactions never bounce it.           *)
NoFalseBounce ==
    [][\A m \in Message : \A a \in bounced'[m] \ bounced[m] :
          \/ m \in Oversized \/ FindProject(a) = {}
          \/ \E s \in Session : phase[s] = "unread" /\ sending[s] = m /\ a \in accepted[s]]_vars

(* Every recipient of every message that can be stored is delivered or      *)
(* bounced in the end: an answer always comes, and temporary ones do not    *)
(* keep a message queued for ever once faults stop, although messages that  *)
(* the database never takes are tried again and again beside it.            *)
EveryMessageSettles == \A m \in Message \ Unstorable : <>(queue[m] = {})

(* README.md:172 says that the server "accepts mail only for existing       *)
(* project addresses".  A project deleted between RCPT and the end of DATA  *)
(* still gets the message, and the sender a 250.                            *)
OnlyExistingProjectsGetMail ==
    [][\A e \in emails' \ emails : Active(e.project)]_vars

-----------------------------------------------------------------------------
(* What the steps of a transaction hand on to each other: recipients are    *)
(* the owners of their addresses, the sender and the session agree about    *)
(* the message and its recipients, the message read is the one announced,   *)
(* and a 250 is only on its way once one transfer has stored all copies.    *)
RecipientsOwned(s) ==
    \A i \in DOMAIN recipients[s] :
        LET r == recipients[s][i] IN
        /\ r.project \in Rows /\ projects[r.project].address = NormalOf[r.address]
        /\ from[s] \in Message /\ r.address \in RcptTo[from[s]]

SenderAgrees(s) ==
    /\ phase[s] \in {"closed", "idle"} => recipients[s] = <<>> /\ sending[s] = NoMessage
    /\ phase[s] = "mail" => sending[s] # NoMessage
    /\ phase[s] = "toolarge" => sending[s] \in Maybe(Oversized)
    /\ sending[s] = NoMessage => accepted[s] = {}
    /\ sending[s] # NoMessage =>
          /\ sending[s] = from[s]
          /\ \A a \in accepted[s] : \E i \in DOMAIN recipients[s] :
                recipients[s][i].address = a

RawIsFromSender(s) ==
    phase[s] = "deliver" => from[s] \in Message /\ raw[s] = from[s]

OkIsStored(s) ==
    phase[s] = "ok" => \E t \in 1..transfers :
        \A i \in DOMAIN recipients[s] : \E e \in emails :
            e.transfer = t /\ e.raw = from[s] /\ e.project = recipients[s][i].project

TransactionsConsistent ==
    /\ \A s \in Session : /\ RecipientsOwned(s) /\ SenderAgrees(s)
                          /\ RawIsFromSender(s) /\ OkIsStored(s)
    /\ \A e \in emails : e.transfer <= transfers
    /\ \A m \in Message : queue[m] \subseteq RcptTo[m]

-----------------------------------------------------------------------------
(* What the promise speaks about, as this module's state shows it.          *)
addressOf == [p \in Project |-> IF p \in Rows THEN projects[p].address ELSE NoRow]

CopyOf(e) == [transfer |-> e.transfer, message |-> e.raw, project |-> e.project]

copies == {CopyOf(e) : e \in emails}

Promise == INSTANCE MailPromise WITH
    NoAddress <- NoRow, owned <- addressOf, boxes <- copies, acked <- delivered

(* The SMTP side keeps what MailPromise promises: every step of it is a     *)
(* step of the promise or changes nothing the promise speaks about.         *)
KeepsPromise == Promise!Spec
=============================================================================
