----------------------------- MODULE MailFormat -----------------------------
(***************************************************************************)
(* What becomes of the text of a message: its address is looked up         *)
(* (FindProjectID), its parts are read one by one (Parse), every column is *)
(* made storable (clean) and the row is inserted (Deliver).                *)
(*                                                                         *)
(* A text is what can be read of it and whether it is soiled: it holds NUL *)
(* bytes or is no UTF-8, which a TEXT column of PostgreSQL refuses.  A     *)
(* date is refused, too, when it is one that PostgreSQL does not have,     *)
(* though Go does: one of the year 0.                                      *)
(***************************************************************************)
EXTENDS Address, Naturals, Sequences, FiniteSets

CONSTANTS
    Word,           \* what can be read in a text
    Nothing,        \* nothing can be read; no message yet
    Headers,        \* the headers messages have
    MaxParts        \* bound on the parts of a message

Text == [word : Word \cup {Nothing}, soiled : BOOLEAN, size : {"whole", "cut"}]
Whole == {text \in Text : text.size = "whole"}
Empty == [word |-> Nothing, soiled |-> FALSE, size |-> "whole"]

\* A body beyond maxBodyBytes: what can be read of its beginning, and whether that is
\* soiled, if only by a cut that goes through a character.
Long == [word : Word, soiled : BOOLEAN, size : {"long"}]

\* cleanText: a text of NUL bytes only becomes empty.
Clean(text) == [text EXCEPT !.soiled = FALSE]

\* The columns of the envelope and the header, and those of bodies.
Header == {"envelope from", "message id", "from address", "from name", "to addresses", "subject"}
Body == {"plain", "html"}
Column == Header \cup Body

\* The Date of the header: missing, broken or zero; or one that is read.
Date == {"none", "fine", "refused"}

\* An inline part that is no text is listed like an attachment; a part of an unknown
\* charset or encoding is skipped; a broken one ends the reading.
Listed == {"inline", "attachment"}
Part ==
    [kind : Body, text : Whole \cup Long] \cup [kind : Listed, text : Whole]
       \cup [kind : {"unknown", "broken"}, text : {Empty}]
Parts == UNION {[1..n -> Part] : n \in 0..MaxParts}

\* What CreateReader makes of it: it reads the header, of an unknown charset included;
\* or it does, but fails for the encoding of a message that has no parts; or it fails
\* before that.
Message ==
    [header : Headers, date : Date, top : {"read"}, parts : Parts]
       \cup [header : Headers, date : Date, top : {"encoding", "unreadable"}, parts : {<<>>}]

\* `attachments` are the file names and types.
Parsed == [texts : [Column -> Text], attachments : Seq(Text), date : Date]
NoParsed == [texts |-> [c \in Column |-> Empty], attachments |-> <<>>, date |-> "none"]

ASSUME FormatAssumption ==
    /\ Nothing \notin Word \cup Message
    /\ Headers \subseteq [Header -> Whole]
    /\ MaxParts \in Nat

VARIABLES
    domain,         \* INBOUND_EMAIL_DOMAIN
    address,        \* the recipient as spelled, later as normalised
    message,        \* the message, once it was sent
    step,           \* how far it has come
    next,           \* the part that NextPart returns next
    parsed          \* `parsed` of Parse

vars == <<domain, address, message, step, next, parsed>>

TypeOK ==
    /\ domain \in DomainText
    /\ address \in AddressText
    /\ message \in Message \cup {Nothing}
    /\ step \in {"rcpt", "unknown", "data", "header", "parts", "parsed", "stored", "refused"}
    /\ next \in 1..MaxParts + 1
    /\ parsed \in Parsed

\* A project's address, spelled by a sender in any way, under any configuration.
Init ==
    /\ domain \in {d \in DomainText : d.wrap # "half"}
    /\ \E wrap \in Wrap \ {"half"}, upper \in BOOLEAN :
          address = [wrap |-> wrap, upper |-> upper, domain |-> [domain EXCEPT !.upper = upper]]
    /\ message = Nothing
    /\ step = "rcpt"
    /\ next = 1
    /\ parsed = NoParsed

-----------------------------------------------------------------------------
(* RCPT and DATA.                                                           *)
RcptUnknown ==
    /\ step = "rcpt"
    /\ ~Finds(address, domain)
    /\ step' = "unknown"
    /\ UNCHANGED <<domain, address, message, next, parsed>>

RcptFound ==
    /\ step = "rcpt"
    /\ Finds(address, domain)
    /\ address' = Normalized(address)
    /\ step' = "data"
    /\ UNCHANGED <<domain, message, next, parsed>>

Data ==
    /\ step = "data"
    /\ message' \in Message
    /\ step' = "header"
    /\ UNCHANGED <<domain, address, next, parsed>>

-----------------------------------------------------------------------------
(* Parse.                                                                   *)
Cleaned(p) ==
    [texts |-> [c \in Column |-> Clean(p.texts[c])],
     attachments |-> [i \in DOMAIN p.attachments |-> Clean(p.attachments[i])],
     date |-> p.date]

\* Columns of the header that cannot be decoded are taken as they are.
WithHeader(p, m) ==
    [texts |-> [c \in Column |-> IF c \in Header \ {"envelope from"} THEN m.header[c]
                                 ELSE p.texts[c]],
     attachments |-> p.attachments,
     date |-> m.date]

\* readBody.
ReadBody(text) == [text EXCEPT !.size = IF @ = "long" THEN "cut" ELSE @]

\* Faulty variant: the last body is kept.
WithPartLast(p, part) ==
    IF part.kind \in Body THEN [p EXCEPT !.texts[part.kind] = ReadBody(part.text)]
    ELSE IF part.kind \in Listed THEN [p EXCEPT !.attachments = Append(@, part.text)]
    ELSE p

\* The first body of each kind that is not empty is kept.
WithPart(p, part) ==
    IF part.kind \in Body
    THEN [p EXCEPT !.texts[part.kind] = IF @ = Empty THEN ReadBody(part.text) ELSE @]
    ELSE IF part.kind \in Listed THEN [p EXCEPT !.attachments = Append(@, part.text)]
    ELSE p

\* Any error but that of an unknown charset leaves every column empty, the header's
\* included.
ReadHeader ==
    /\ step = "header"
    /\ IF message.top = "read"
       THEN step' = "parts" /\ parsed' = WithHeader(parsed, message)
       ELSE step' = "parsed" /\ UNCHANGED parsed
    /\ UNCHANGED <<domain, address, message, next>>

HasPart == step = "parts" /\ next <= Len(message.parts)

\* Faulty variant: NextPart is called twice a turn.
ReadEveryOther ==
    /\ HasPart
    /\ message.parts[next].kind # "broken"
    /\ parsed' = WithPart(parsed, message.parts[next])
    /\ next' = next + 2
    /\ UNCHANGED <<domain, address, message, step>>

ReadPart ==
    /\ HasPart
    /\ message.parts[next].kind # "broken"
    /\ parsed' = WithPart(parsed, message.parts[next])
    /\ next' = next + 1
    /\ UNCHANGED <<domain, address, message, step>>

\* Faulty variant: what was read before a broken part is returned as it is.
StopsUnclean ==
    /\ HasPart
    /\ message.parts[next].kind = "broken"
    /\ step' = "parsed"
    /\ UNCHANGED <<domain, address, message, next, parsed>>

\* Any other error of NextPart.
Stops ==
    /\ HasPart
    /\ message.parts[next].kind = "broken"
    /\ parsed' = Cleaned(parsed)
    /\ step' = "parsed"
    /\ UNCHANGED <<domain, address, message, next>>

EndOfMessage ==
    /\ step = "parts" /\ ~HasPart
    /\ parsed' = Cleaned(parsed)
    /\ step' = "parsed"
    /\ UNCHANGED <<domain, address, message, next>>

-----------------------------------------------------------------------------
(* Deliver.                                                                 *)
Row == [parsed EXCEPT !.texts["envelope from"] = Clean(message.header["envelope from"])]

\* What PostgreSQL takes.
Storable(row) ==
    /\ row.date # "refused"
    /\ \A c \in Column : ~row.texts[c].soiled
    /\ \A i \in DOMAIN row.attachments : ~row.attachments[i].soiled

Inserts ==
    /\ step = "parsed"
    /\ parsed' = Row
    /\ step' = IF Storable(Row) THEN "stored" ELSE "refused"
    /\ UNCHANGED <<domain, address, message, next>>

Next ==
    \/ RcptUnknown \/ RcptFound
    \/ Data
    \/ ReadHeader
    \/ ReadPart \/ Stops \/ EndOfMessage
    \/ Inserts

Spec == Init /\ [][Next]_vars

-----------------------------------------------------------------------------
(* Properties.                                                              *)

\* Mail finds its project however the sender spells the address, brackets and blanks
\* included, exactly when the configured domain is nothing but a domain and the
\* blanks are outside the brackets (GenerateAddress, NewStore, FindProjectID).
MailFindsAddress ==
    /\ step = "unknown" => ~Plain(domain) \/ address.wrap = "padded"
    /\ step \notin {"rcpt", "unknown"} => Plain(domain) /\ address = Generated(domain)

\* Nothing in a message, however malformed, makes the INSERT fail, which every retry of
\* the sender would meet again, but a Date that Go reads and PostgreSQL does not have
\* (clean, SentAt, Deliver).
NoTextIsRefused == step = "refused" => message.top = "read" /\ message.date = "refused"

\* The parts before the first broken one, by their place in the message.
ReadableParts ==
    {n \in DOMAIN message.parts :
        message.top = "read" /\ \A i \in 1..n : message.parts[i].kind # "broken"}

\* Those of them with a body that is not empty, or that are listed.
Bodies(S, kind) == {i \in S : message.parts[i].kind = kind /\ message.parts[i].text # Empty}
ListedOf(S) == {i \in S : message.parts[i].kind \in Listed}

\* The place of part i among the parts in S.
Place(S, i) == Cardinality({j \in S : j <= i})

\* What can be read of a message is kept up to the first broken part: of each kind the
\* first body that is not empty, up to maxBodyBytes of it, everything else in order, the
\* header and its date; unless CreateReader fails, when all of it is lost, a header
\* that could be read included (Parse).
ReadableIsKept ==
    step = "stored" =>
        LET attached == ListedOf(ReadableParts)
        IN  /\ \A kind \in Body :
                  LET bodies == Bodies(ReadableParts, kind)
                  IN  IF bodies = {} THEN parsed.texts[kind] = Empty
                      ELSE \E i \in bodies :
                              /\ \A j \in bodies : i <= j
                              /\ parsed.texts[kind] = Clean(ReadBody(message.parts[i].text))
            /\ Len(parsed.attachments) = Cardinality(attached)
            /\ \A i \in attached :
                  parsed.attachments[Place(attached, i)] = Clean(message.parts[i].text)
            /\ message.top = "read" =>
                  /\ \A c \in Header : parsed.texts[c] = Clean(message.header[c])
                  /\ parsed.date = message.date
=============================================================================
