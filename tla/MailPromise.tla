----------------------------- MODULE MailPromise -----------------------------
(***************************************************************************)
(* What the SMTP side promises to the servers that send to it, without     *)
(* sessions, transactions or failures: a transfer puts one copy of a       *)
(* message into the boxes of some projects, all at once and only once, and *)
(* recipients are acknowledged together only when one transfer has put the *)
(* message into the boxes of all of them.  InboundMail implements it.      *)
(***************************************************************************)
CONSTANTS Message, Project, Spelling, Address, NormalOf, NoAddress

VARIABLES
    owned,  \* the address each project receives mail at, or NoAddress
    boxes,  \* the copies stored: [transfer, message, project]
    acked   \* the recipients of each message that were acknowledged

vars == <<owned, boxes, acked>>

NewProject(p, a) ==
    /\ owned[p] = NoAddress
    /\ a \notin {owned[q] : q \in Project}
    /\ owned' = [owned EXCEPT ![p] = a]
    /\ UNCHANGED <<boxes, acked>>

\* One transfer: new copies of one message, for projects that have an address.
\* Copies already there stay, and no later transfer adds to them.
Store ==
    LET new == boxes' \ boxes IN
    /\ boxes \subseteq boxes'
    /\ \A b \in new : b.project \in Project /\ owned[b.project] # NoAddress
    /\ \A b, c \in new : b.transfer = c.transfer /\ b.message = c.message
    /\ \A b \in new, c \in boxes : b.transfer # c.transfer
    /\ UNCHANGED <<owned, acked>>

Acknowledge(m, A) ==
    /\ \E c \in boxes : \A a \in A : \E b \in boxes :
          /\ b.transfer = c.transfer /\ b.message = m
          /\ owned[b.project] = NormalOf[a]
    /\ acked' = [acked EXCEPT ![m] = @ \cup A]
    /\ UNCHANGED <<owned, boxes>>

Init ==
    /\ owned = [p \in Project |-> NoAddress]
    /\ boxes = {}
    /\ acked = [m \in Message |-> {}]

Next ==
    \/ \E p \in Project, a \in Address : NewProject(p, a)
    \/ Store
    \/ \E m \in Message, A \in (SUBSET Spelling) \ {{}} : Acknowledge(m, A)

Spec == Init /\ [][Next]_vars
=============================================================================
