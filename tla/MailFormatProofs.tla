-------------------------- MODULE MailFormatProofs --------------------------
(***************************************************************************)
(* Proofs about MailFormat, for any words, any headers and messages of any *)
(* number of parts.                                                        *)
(***************************************************************************)
EXTENDS MailFormat, FiniteSetTheorems, SequenceTheorems, TLAPS

-----------------------------------------------------------------------------
(* Addresses.                                                               *)
LEMMA SpelledDomain ==
  ASSUME NEW d \in DomainText, NEW upper
  PROVE  [d EXCEPT !.upper = upper] = [wrap |-> d.wrap, upper |-> upper, at |-> d.at]
  BY DEF DomainText

\* Two domains or addresses are equal if their fields are.
LEMMA SameDomain ==
  ASSUME NEW w1, NEW w2, NEW u, NEW a
  PROVE  [wrap |-> w1, upper |-> u, at |-> a] = [wrap |-> w2, upper |-> u, at |-> a] <=> w1 = w2
  OBVIOUS

LEMMA SameAddress ==
  ASSUME NEW w1, NEW w2, NEW u, NEW d1, NEW d2
  PROVE  [wrap |-> w1, upper |-> u, domain |-> d1] = [wrap |-> w2, upper |-> u, domain |-> d2]
            <=> w1 = w2 /\ d1 = d2
  OBVIOUS

\* Trimming: what is left of a text, alone or behind something else.
LEMMA TrimFacts ==
  /\ \A w \in Wrap : Trimmed(w) \in Wrap /\ EndTrimmed(w) \in Wrap
  /\ \A w \in Wrap \ {"half"} : Trimmed(w) = "bare" <=> w # "padded"
  /\ \A w \in Wrap \ {"half"} : EndTrimmed(w) = Trimmed(w) => w \in {"bare", "trailing"}
  /\ Trimmed("bare") = "bare" /\ EndTrimmed("bare") = "bare"
  /\ EndTrimmed("trailing") # "trailing"
  BY DEF Wrap, Trimmed, EndTrimmed

(* A project's address is found under every spelling exactly when the       *)
(* domain was configured as nothing but a domain and no blanks are inside   *)
(* the brackets (FindProjectID, services/inbound/store.go).                 *)
LEMMA FindsSpelling ==
  ASSUME NEW d \in DomainText, d.wrap # "half", NEW w \in Wrap \ {"half"}, NEW upper \in BOOLEAN
  PROVE  Finds([wrap |-> w, upper |-> upper, domain |-> [d EXCEPT !.upper = upper]], d)
            <=> Plain(d) /\ w # "padded"
<1>. DEFINE a == [wrap |-> w, upper |-> upper, domain |-> [d EXCEPT !.upper = upper]]
<1>1. a \in AddressText /\ a.wrap = w /\ a.domain.wrap = d.wrap /\ a.domain.at = d.at
  BY SpelledDomain DEF AddressText, DomainText
<1>. HIDE DEF a
<1>. DEFINE n == [wrap |-> Trimmed(w), upper |-> FALSE,
                  domain |-> [wrap |-> EndTrimmed(d.wrap), upper |-> FALSE, at |-> d.at]]
<1>2. Normalized(a) = n
  BY <1>1 DEF Normalized
<1>3. d.wrap \in Wrap \ {"half"} /\ d.at \in BOOLEAN
  BY DEF DomainText
<1>4. Finds(a, d) <=>
        /\ Trimmed(w) = "bare" /\ ~d.at
        /\ EndTrimmed(d.wrap) = Trimmed(d.wrap) /\ EndTrimmed(d.wrap) = d.wrap
  <2>2. InDomain(n, d) <=> /\ Trimmed(w) = "bare" /\ ~d.at
                           /\ EndTrimmed(d.wrap) = Trimmed(d.wrap)
    <3>1. [wrap |-> EndTrimmed(d.wrap), upper |-> FALSE, at |-> d.at]
             = [wrap |-> Trimmed(d.wrap), upper |-> FALSE, at |-> d.at]
            <=> EndTrimmed(d.wrap) = Trimmed(d.wrap)
      BY SameDomain
    <3>2. /\ n.wrap = Trimmed(w)
          /\ n.domain = [wrap |-> EndTrimmed(d.wrap), upper |-> FALSE, at |-> d.at]
      OBVIOUS
    <3>. HIDE DEF n
    <3>. QED
      BY <3>1, <3>2, Zenon DEF InDomain, NormalizedDomain
  <2>3. Generated(d) = [wrap |-> "bare", upper |-> FALSE,
                        domain |-> [wrap |-> d.wrap, upper |-> FALSE, at |-> d.at]]
    BY SpelledDomain, Zenon DEF Generated, Lowered
  <2>4. n = Generated(d) <=> Trimmed(w) = "bare" /\ EndTrimmed(d.wrap) = d.wrap
    <3>1. [wrap |-> EndTrimmed(d.wrap), upper |-> FALSE, at |-> d.at]
             = [wrap |-> d.wrap, upper |-> FALSE, at |-> d.at]
            <=> EndTrimmed(d.wrap) = d.wrap
      BY SameDomain
    <3>2. n = [wrap |-> "bare", upper |-> FALSE,
               domain |-> [wrap |-> d.wrap, upper |-> FALSE, at |-> d.at]]
            <=> /\ Trimmed(w) = "bare"
                /\ [wrap |-> EndTrimmed(d.wrap), upper |-> FALSE, at |-> d.at]
                      = [wrap |-> d.wrap, upper |-> FALSE, at |-> d.at]
      BY SameAddress
    <3>. HIDE DEF n
    <3>. QED
      BY <2>3, <3>1, <3>2, Zenon
  <2>. HIDE DEF n
  <2>. QED
    BY <1>2, <2>2, <2>4, Zenon DEF Finds
<1>5. (EndTrimmed(d.wrap) = Trimmed(d.wrap) /\ EndTrimmed(d.wrap) = d.wrap) <=> d.wrap = "bare"
  BY <1>3, TrimFacts
<1>. QED
  BY <1>4, <1>5, TrimFacts DEF Plain, a

-----------------------------------------------------------------------------
(* Texts and what Parse returns.                                            *)
LEMMA CleanFacts ==
  /\ \A t \in Text : Clean(t) \in Text /\ ~Clean(t).soiled
  /\ Empty \in Text /\ Clean(Empty) = Empty /\ ~Empty.soiled
<1>1. ASSUME NEW w, NEW b, NEW c, NEW s
      PROVE  [[word |-> w, soiled |-> b, size |-> s] EXCEPT !.soiled = c]
                = [word |-> w, soiled |-> c, size |-> s]
  OBVIOUS
<1>2. Clean(Empty) = Empty
  BY <1>1, Zenon DEF Clean, Empty
<1>3. \A t \in Text : Clean(t) \in Text /\ ~Clean(t).soiled
  BY DEF Text, Clean
<1>4. Empty \in Text /\ ~Empty.soiled
  BY DEF Text, Empty
<1>. QED
  BY <1>2, <1>3, <1>4

\* The beginning of a body is empty only if the body is.
LEMMA ReadBodyFacts ==
  ASSUME NEW t \in Whole \cup Long
  PROVE  ReadBody(t) \in Text /\ (t = Empty <=> ReadBody(t) = Empty)
<1>1. CASE t \in Whole
  <2>1. t \in Text /\ t.size = "whole"
    BY <1>1 DEF Whole
  <2>2. ReadBody(t) = t
    BY <2>1 DEF ReadBody, Text
  <2>. QED
    BY <2>1, <2>2
<1>2. CASE t \in Long
  <2>1. ReadBody(t) \in Text /\ ReadBody(t).size = "cut"
    BY <1>2 DEF ReadBody, Text, Long
  <2>2. Empty.size = "whole" /\ t.size = "long"
    BY <1>2 DEF Empty, Long
  <2>. QED
    BY <2>1, <2>2
<1>. QED
  BY <1>1, <1>2

\* The texts of parts.
LEMMA PartFacts ==
  ASSUME NEW part \in Part
  PROVE  /\ part.kind \in Body => part.text \in Whole \cup Long
         /\ part.kind \in Listed => part.text \in Text
  BY DEF Part, Whole, Body, Listed

LEMMA NoParsedFacts ==
  /\ NoParsed \in Parsed /\ NoParsed.attachments = <<>>
  /\ NoParsed.date = "none"
  /\ \A c \in Column : NoParsed.texts[c] = Empty
  BY CleanFacts DEF NoParsed, Parsed, Date

LEMMA CleanedFacts ==
  ASSUME NEW p \in Parsed
  PROVE  /\ Cleaned(p) \in Parsed /\ Cleaned(p).date = p.date
         /\ \A c \in Column : Cleaned(p).texts[c] = Clean(p.texts[c])
         /\ Len(Cleaned(p).attachments) = Len(p.attachments)
         /\ \A i \in 1..Len(p.attachments) :
               Cleaned(p).attachments[i] = Clean(p.attachments[i])
<1>. DEFINE n == Len(p.attachments)
            s == [i \in 1..n |-> Clean(p.attachments[i])]
<1>1. p.texts \in [Column -> Text] /\ p.attachments \in Seq(Text)
      /\ n \in Nat /\ DOMAIN p.attachments = 1..n /\ p.date \in Date
  BY DEF Parsed
<1>2. \A i \in 1..n : Clean(p.attachments[i]) \in Text
  BY <1>1, CleanFacts
<1>3. s \in Seq(Text) /\ Len(s) = n
  BY <1>1, <1>2
<1>4. [c \in Column |-> Clean(p.texts[c])] \in [Column -> Text]
  BY <1>1, CleanFacts
<1>5. Cleaned(p).attachments = s /\ Cleaned(p).texts = [c \in Column |-> Clean(p.texts[c])]
  BY <1>1 DEF Cleaned
<1>6. Cleaned(p) = [texts |-> Cleaned(p).texts, attachments |-> Cleaned(p).attachments,
                   date |-> p.date]
  BY DEF Cleaned
<1>7. Cleaned(p).date = p.date
  BY DEF Cleaned
<1>. QED
  BY <1>1, <1>3, <1>4, <1>5, <1>6, <1>7 DEF Parsed

LEMMA WithHeaderFacts ==
  ASSUME NEW p \in Parsed, NEW m, m.header \in [Header -> Text], m.date \in Date
  PROVE  /\ WithHeader(p, m) \in Parsed
         /\ WithHeader(p, m).attachments = p.attachments
         /\ WithHeader(p, m).date = m.date
         /\ \A c \in Header \ {"envelope from"} : WithHeader(p, m).texts[c] = m.header[c]
         /\ \A c \in Body : WithHeader(p, m).texts[c] = p.texts[c]
  BY DEF WithHeader, Parsed, Column, Header, Body

LEMMA WithBodyFacts ==
  ASSUME NEW p \in Parsed, NEW part \in Part, part.kind \in Body
  PROVE  /\ WithPart(p, part) \in Parsed
         /\ WithPart(p, part).attachments = p.attachments
         /\ WithPart(p, part).date = p.date
         /\ WithPart(p, part).texts[part.kind] =
               IF p.texts[part.kind] = Empty THEN ReadBody(part.text) ELSE p.texts[part.kind]
         /\ \A c \in Column \ {part.kind} : WithPart(p, part).texts[c] = p.texts[c]
<1>. DEFINE body == ReadBody(part.text)
            kind == part.kind
<1>1. body \in Text /\ kind \in Column
  BY PartFacts, ReadBodyFacts DEF Column
<1>2. WithPart(p, part) =
         [p EXCEPT !.texts[kind] = IF p.texts[kind] = Empty THEN body ELSE p.texts[kind]]
  BY DEF WithPart
<1>. HIDE DEF body, kind
<1>3. /\ WithPart(p, part) \in Parsed
      /\ WithPart(p, part).attachments = p.attachments
      /\ WithPart(p, part).date = p.date
      /\ WithPart(p, part).texts[kind] = IF p.texts[kind] = Empty THEN body ELSE p.texts[kind]
      /\ \A c \in Column \ {kind} : WithPart(p, part).texts[c] = p.texts[c]
  BY <1>1, <1>2 DEF Parsed
<1>. QED
  BY <1>3 DEF body, kind

LEMMA WithListedFacts ==
  ASSUME NEW p \in Parsed, NEW part \in Part, part.kind \in Listed
  PROVE  /\ WithPart(p, part) \in Parsed
         /\ WithPart(p, part).texts = p.texts
         /\ WithPart(p, part).date = p.date
         /\ WithPart(p, part).attachments = Append(p.attachments, part.text)
<1>1. part.text \in Text /\ part.kind \notin Body
  BY PartFacts DEF Body, Listed
<1>2. p.texts \in [Column -> Text] /\ p.attachments \in Seq(Text) /\ p.date \in Date
      /\ p = [texts |-> p.texts, attachments |-> p.attachments, date |-> p.date]
  BY DEF Parsed
<1>3. Append(p.attachments, part.text) \in Seq(Text)
  BY <1>1, <1>2
<1>4. WithPart(p, part) = [p EXCEPT !.attachments = Append(p.attachments, part.text)]
  BY <1>1 DEF WithPart
<1>5. WithPart(p, part) = [texts |-> p.texts, attachments |-> Append(p.attachments, part.text),
                           date |-> p.date]
  BY <1>2, <1>4
<1>. QED
  BY <1>2, <1>3, <1>5 DEF Parsed

LEMMA WithOtherFacts ==
  ASSUME NEW p \in Parsed, NEW part \in Part, part.kind \notin Body \cup Listed
  PROVE  WithPart(p, part) = p
  BY DEF WithPart

LEMMA PartTyped == 
  ASSUME NEW p \in Parsed, NEW part \in Part
  PROVE  WithPart(p, part) \in Parsed
  BY WithBodyFacts, WithListedFacts, WithOtherFacts

LEMMA MessageFacts ==
  ASSUME NEW m \in Message
  PROVE  /\ m.header \in [Header -> Text] /\ m.date \in Date
         /\ m.parts \in Seq(Part) /\ Len(m.parts) \in 0..MaxParts
         /\ DOMAIN m.parts = 1..Len(m.parts)
<1>1. PICK n \in 0..MaxParts : m.parts \in [1..n -> Part]
  <2>1. m.parts = <<>> => m.parts \in [1..0 -> Part] /\ 0 \in 0..MaxParts
    BY FormatAssumption
  <2>2. m.parts = <<>> \/ m.parts \in Parts
    BY DEF Message
  <2>. QED
    BY <2>1, <2>2 DEF Parts
<1>2. n \in Nat /\ m.parts \in Seq(Part) /\ Len(m.parts) = n
  BY <1>1, FormatAssumption
<1>3. m.header \in Headers /\ m.date \in Date
  BY DEF Message
<1>4. m.header \in [Header -> Text]
  BY <1>3, FormatAssumption DEF Whole
<1>. QED
  BY <1>1, <1>2, <1>3, <1>4

-----------------------------------------------------------------------------
(* Places of parts.                                                         *)
LEMMA InitialPlaces ==
  ASSUME NEW n \in Nat, NEW S \in SUBSET (1..n)
  PROVE  /\ IsFiniteSet(S) /\ Cardinality(S) \in Nat
         /\ \A i \in S : Place(S, i) \in 1..Cardinality(S)
<1>1. IsFiniteSet(1..n)
  BY FS_Interval
<1>2. IsFiniteSet(S) /\ Cardinality(S) \in Nat
  BY <1>1, FS_Subset, FS_CardinalityType
<1>3. ASSUME NEW i \in S
      PROVE  Place(S, i) \in 1..Cardinality(S)
  <2>. DEFINE T == {j \in S : j <= i}
  <2>1. T \in SUBSET S /\ i \in T
    OBVIOUS
  <2>. HIDE DEF T
  <2>2. IsFiniteSet(T) /\ Cardinality(T) <= Cardinality(S) /\ Cardinality(T) \in Nat
    BY <1>2, <2>1, FS_Subset, FS_CardinalityType
  <2>3. Cardinality(T) # 0
    BY <2>1, <2>2, FS_EmptySet
  <2>. QED
    BY <1>2, <2>2, <2>3 DEF Place, T
<1>. QED
  BY <1>2, <1>3

\* A new last member leaves the places of the others, and has the last place.
LEMMA PlacesExtended ==
  ASSUME NEW n \in Nat, NEW S \in SUBSET (1..n)
  PROVE  /\ Cardinality(S \cup {n + 1}) = Cardinality(S) + 1 /\ n + 1 \notin S
         /\ \A i \in S : Place(S \cup {n + 1}, i) = Place(S, i)
         /\ Place(S \cup {n + 1}, n + 1) = Cardinality(S) + 1
<1>0. \A j \in S : j \in Nat /\ j <= n
  OBVIOUS
<1>1. n + 1 \notin S /\ IsFiniteSet(S)
  <2>1. n + 1 \notin S
    BY <1>0
  <2>. QED
    BY <2>1, InitialPlaces
<1>2. Cardinality(S \cup {n + 1}) = Cardinality(S) + 1
  BY <1>1, FS_AddElement
<1>3. ASSUME NEW i \in S
      PROVE  {j \in S \cup {n + 1} : j <= i} = {j \in S : j <= i}
  OBVIOUS
<1>4. {j \in S \cup {n + 1} : j <= n + 1} = S \cup {n + 1}
  <2>1. \A j \in S \cup {n + 1} : j <= n + 1
    BY <1>0
  <2>. QED
    BY <2>1
<1>. QED
  BY <1>1, <1>2, <1>3, <1>4 DEF Place

-----------------------------------------------------------------------------
(* What has been read.                                                      *)

\* Texts are cleaned when the last part was read.
Seen(text) == IF step = "parts" THEN text ELSE Clean(text)

\* `parsed` holds what the parts in S and the header say.
BodiesKept(S) ==
    \A kind \in Body :
        IF Bodies(S, kind) = {} THEN parsed.texts[kind] = Empty
        ELSE \E i \in Bodies(S, kind) :
                /\ \A j \in Bodies(S, kind) : i <= j
                /\ parsed.texts[kind] = Seen(ReadBody(message.parts[i].text))

ListedKept(S) ==
    /\ Len(parsed.attachments) = Cardinality(ListedOf(S))
    /\ \A i \in ListedOf(S) :
          parsed.attachments[Place(ListedOf(S), i)] = Seen(message.parts[i].text)

HeaderKept ==
    message.top = "read" =>
        \A c \in Header \ {"envelope from"} : parsed.texts[c] = Seen(message.header[c])

Kept(S) == BodiesKept(S) /\ ListedKept(S) /\ HeaderKept

\* There is a date when the header was read.
DateKept == parsed.date = IF message.top = "read" THEN message.date ELSE "none"

\* Nothing soiled is left.
Unsoiled(p) ==
    /\ \A c \in Column : ~p.texts[c].soiled
    /\ \A i \in DOMAIN p.attachments : ~p.attachments[i].soiled

(* The inductive invariant: what was read so far is kept, nothing soiled    *)
(* is left when Parse returns, and only an address that can be found is.    *)
ReadInv ==
    /\ step \in {"rcpt", "unknown", "data", "header"} => next = 1 /\ parsed = NoParsed
    /\ step \notin {"rcpt", "unknown", "data"} => message \in Message
    /\ step = "parts" =>
          /\ message.top = "read" /\ next <= Len(message.parts) + 1
          /\ \A i \in 1..(next - 1) : message.parts[i].kind # "broken"
          /\ Kept(1..(next - 1))
    /\ step \in {"parts", "parsed", "stored"} => DateKept
    /\ step \in {"parsed", "stored"} => Kept(ReadableParts)
    /\ step = "parsed" => Unsoiled(parsed)
    /\ step = "stored" => parsed.texts["envelope from"] = Clean(message.header["envelope from"])

AddressInv ==
    /\ domain.wrap # "half"
    /\ step = "rcpt" => \E wrap \in Wrap \ {"half"}, upper \in BOOLEAN :
          address = [wrap |-> wrap, upper |-> upper, domain |-> [domain EXCEPT !.upper = upper]]

IInv == TypeOK /\ AddressInv /\ MailFindsAddress /\ ReadInv /\ NoTextIsRefused

-----------------------------------------------------------------------------
LEMMA InitIInv == Init => IInv
<1>. SUFFICES ASSUME Init PROVE IInv
  OBVIOUS
<1>1. PICK wrap \in Wrap \ {"half"}, upper \in BOOLEAN :
          address = [wrap |-> wrap, upper |-> upper, domain |-> [domain EXCEPT !.upper = upper]]
  BY DEF Init
<1>2. domain \in DomainText /\ domain.wrap # "half"
  BY DEF Init
<1>3. [domain EXCEPT !.upper = upper] \in DomainText
  BY <1>2 DEF DomainText
<1>4. address \in AddressText
  BY <1>1, <1>3 DEF AddressText
<1>5. 1 \in 1..MaxParts + 1
  BY FormatAssumption
<1>6. TypeOK
  BY <1>2, <1>4, <1>5, NoParsedFacts DEF Init, TypeOK
<1>. QED
  BY <1>1, <1>2, <1>6 DEF Init, IInv, AddressInv, MailFindsAddress, ReadInv, NoTextIsRefused

(* RCPT: what is looked up is found exactly when it should be.              *)
LEMMA AddressStep ==
  ASSUME IInv, [Next]_vars
  PROVE  AddressInv' /\ MailFindsAddress'
<1>. USE DEF IInv, AddressInv, MailFindsAddress
<1>1. CASE RcptUnknown \/ RcptFound
  <2>1. PICK wrap \in Wrap \ {"half"}, upper \in BOOLEAN :
          address = [wrap |-> wrap, upper |-> upper, domain |-> [domain EXCEPT !.upper = upper]]
    BY <1>1 DEF RcptUnknown, RcptFound
  <2>2. address.wrap = wrap /\ domain \in DomainText /\ domain.wrap # "half"
    BY <2>1 DEF TypeOK
  <2>3. Finds(address, domain) <=> Plain(domain) /\ wrap # "padded"
    BY <2>1, <2>2, FindsSpelling
  <2>4. CASE RcptUnknown
    BY <2>2, <2>3, <2>4 DEF RcptUnknown
  <2>5. CASE RcptFound
    BY <2>2, <2>3, <2>5 DEF RcptFound, Finds
  <2>. QED
    BY <1>1, <2>4, <2>5
<1>2. CASE Data \/ ReadHeader \/ ReadPart \/ Stops \/ EndOfMessage \/ Inserts
  <2>1. /\ UNCHANGED <<domain, address>>
        /\ step \notin {"rcpt", "unknown"} /\ step' \notin {"rcpt", "unknown"}
    BY <1>2 DEF Data, ReadHeader, ReadPart, Stops, EndOfMessage, Inserts, HasPart
  <2>. QED
    BY <2>1
<1>3. CASE UNCHANGED vars
  BY <1>3 DEF vars
<1>. QED
  BY <1>1, <1>2, <1>3 DEF Next

-----------------------------------------------------------------------------
(* Reading one more part.                                                   *)
LEMMA BodyRead ==
  ASSUME NEW n \in Nat, \A i \in 1..(n + 1) : message.parts[i] \in Part, parsed \in Parsed,
         message.parts[n + 1].kind \in Body, Kept(1..n), step = "parts",
         UNCHANGED <<message, step>>, parsed' = WithPart(parsed, message.parts[n + 1])
  PROVE  Kept(1..(n + 1))'
<1>. DEFINE part == message.parts[n + 1]
            S == 1..n
            T == 1..(n + 1)
<1>0. part \in Part
  OBVIOUS
<1>1. /\ parsed'.attachments = parsed.attachments
      /\ parsed'.texts[part.kind] =
            IF parsed.texts[part.kind] = Empty THEN ReadBody(part.text)
                                               ELSE parsed.texts[part.kind]
      /\ \A c \in Column \ {part.kind} : parsed'.texts[c] = parsed.texts[c]
  BY <1>0, WithBodyFacts
<1>2. T = S \cup {n + 1} /\ (\A i \in S : i < n + 1) /\ n + 1 \notin S
  OBVIOUS
<1>3. ListedOf(T) = ListedOf(S)
  BY <1>2 DEF ListedOf, Body, Listed
<1>4. ListedKept(T)'
  <2>1. ListedOf(T)' = ListedOf(S)
    BY <1>3 DEF ListedOf
  <2>2. ListedKept(S)
    BY DEF Kept
  <2>. QED
    BY <1>1, <2>1, <2>2 DEF ListedKept, Seen, Place
<1>5. HeaderKept'
  <2>1. \A c \in Header \ {"envelope from"} : c \in Column /\ c # part.kind
    BY DEF Header, Column, Body
  <2>. QED
    BY <1>1, <2>1 DEF Kept, HeaderKept, Seen
<1>6. ASSUME NEW kind \in Body
      PROVE  IF Bodies(T, kind)' = {} THEN parsed'.texts[kind] = Empty
             ELSE \E i \in Bodies(T, kind)' :
                /\ \A j \in Bodies(T, kind)' : i <= j
                /\ parsed'.texts[kind] = ReadBody(message.parts[i].text)
  <2>. DEFINE B == Bodies(S, kind)
              C == Bodies(T, kind)'
  <2>1. IF B = {} THEN parsed.texts[kind] = Empty
        ELSE \E i \in B : /\ \A j \in B : i <= j
                         /\ parsed.texts[kind] = ReadBody(message.parts[i].text)
    BY DEF Kept, BodiesKept, Seen
  <2>2. \A i \in B : i \in S /\ i < n + 1 /\ ReadBody(message.parts[i].text) # Empty
    <3>1. ASSUME NEW i \in B PROVE ReadBody(message.parts[i].text) # Empty
      <4>1. /\ message.parts[i] \in Part /\ message.parts[i].kind \in Body
            /\ message.parts[i].text # Empty
        BY <1>2 DEF Bodies
      <4>. QED
        BY <4>1, PartFacts, ReadBodyFacts
    <3>. QED
      BY <1>2, <3>1 DEF Bodies
  <2>3. CASE kind # part.kind
    <3>1. C = B
      BY <1>2, <2>3 DEF Bodies
    <3>2. parsed'.texts[kind] = parsed.texts[kind]
      BY <1>1, <2>3 DEF Column
    <3>. QED
      BY <2>1, <3>1, <3>2
  <2>4. CASE kind = part.kind /\ part.text = Empty
    <3>1. C = B
      BY <1>2, <2>4 DEF Bodies
    <3>2. parsed'.texts[kind] = parsed.texts[kind]
      <4>1. ReadBody(part.text) = Empty
        BY <1>0, <2>4, PartFacts, ReadBodyFacts
      <4>. QED
        BY <1>1, <2>4, <4>1
    <3>. QED
      BY <2>1, <3>1, <3>2
  <2>5. CASE kind = part.kind /\ part.text # Empty
    <3>1. C = B \cup {n + 1}
      BY <1>2, <2>5 DEF Bodies
    <3>2. CASE B = {}
      <4>1. parsed'.texts[kind] = ReadBody(message.parts[n + 1].text)
        BY <1>1, <2>1, <2>5, <3>2
      <4>2. Bodies(T, kind)' = {n + 1}
        BY <3>1, <3>2
      <4>3. \A j \in {n + 1} : n + 1 <= j
        OBVIOUS
      <4>4. Bodies(T, kind)' # {} /\ n + 1 \in Bodies(T, kind)'
        BY <4>2
      <4>. QED
        BY <4>1, <4>2, <4>3, <4>4, Zenon
    <3>3. CASE B # {}
      <4>1. PICK i \in B : /\ \A j \in B : i <= j
                          /\ parsed.texts[kind] = ReadBody(message.parts[i].text)
        BY <2>1, <3>3
      <4>2. parsed'.texts[kind] = ReadBody(message.parts[i].text)
        BY <1>1, <2>2, <2>5, <4>1
      <4>3. i <= n + 1
        BY <2>2
      <4>. QED
        BY <3>1, <4>1, <4>2, <4>3
    <3>. QED
      BY <3>2, <3>3
  <2>. QED
    BY <2>3, <2>4, <2>5
<1>7. BodiesKept(T)'
  BY <1>6 DEF BodiesKept, Seen
<1>. QED
  BY <1>4, <1>5, <1>7 DEF Kept

LEMMA ListedRead ==
  ASSUME NEW n \in Nat, message.parts[n + 1] \in Part, parsed \in Parsed,
         message.parts[n + 1].kind \in Listed, Kept(1..n), step = "parts",
         UNCHANGED <<message, step>>, parsed' = WithPart(parsed, message.parts[n + 1])
  PROVE  Kept(1..(n + 1))'
<1>. DEFINE part == message.parts[n + 1]
            S == 1..n
            T == 1..(n + 1)
            L == ListedOf(S)
<1>1. /\ parsed'.texts = parsed.texts
      /\ parsed'.attachments = Append(parsed.attachments, part.text)
  BY WithListedFacts
<1>2. T = S \cup {n + 1} /\ n + 1 \notin S
  OBVIOUS
<1>3. \A kind \in Body : Bodies(T, kind)' = Bodies(S, kind)
  BY <1>2 DEF Bodies, Body, Listed
<1>4. BodiesKept(T)'
  BY <1>1, <1>3 DEF Kept, BodiesKept, Seen
<1>5. HeaderKept'
  BY <1>1 DEF Kept, HeaderKept, Seen
<1>6. ListedOf(T)' = L \cup {n + 1} /\ L \in SUBSET (1..n)
  BY <1>2 DEF ListedOf
<1>7. ListedKept(T)'
  <2>. DEFINE a == parsed.attachments
              M == L \cup {n + 1}
  <2>1. /\ a \in Seq(Text) /\ part.text \in Text
        /\ Len(a) = Cardinality(L)
        /\ \A i \in L : a[Place(L, i)] = message.parts[i].text
    BY PartFacts DEF Parsed, Kept, ListedKept, Seen
  <2>. HIDE DEF L
  <2>2. /\ Cardinality(M) = Cardinality(L) + 1 /\ n + 1 \notin L
        /\ \A i \in L : Place(M, i) = Place(L, i)
        /\ Place(M, n + 1) = Cardinality(L) + 1
    BY <1>6, PlacesExtended
  <2>3. \A i \in L : Place(L, i) \in 1..Cardinality(L)
    BY <1>6, InitialPlaces
  <2>4. Len(parsed'.attachments) = Cardinality(M)
    BY <1>1, <2>1, <2>2
  <2>5. ASSUME NEW i \in M
        PROVE  parsed'.attachments[Place(M, i)] = message.parts[i].text
    <3>1. CASE i \in L
      <4>1. Place(M, i) \in 1..Len(a)
        BY <2>1, <2>2, <2>3, <3>1
      <4>2. parsed'.attachments[Place(M, i)] = a[Place(M, i)]
        BY <1>1, <2>1, <4>1
      <4>. QED
        BY <2>1, <2>2, <3>1, <4>2
    <3>2. CASE i = n + 1
      BY <1>1, <2>1, <2>2, <3>2
    <3>. QED
      BY <3>1, <3>2
  <2>6. ListedOf(T)' = M
    BY <1>6
  <2>. HIDE DEF M
  <2>. QED
    BY <2>4, <2>5, <2>6 DEF ListedKept, Seen, Place
<1>. QED
  BY <1>4, <1>5, <1>7 DEF Kept

LEMMA OtherRead ==
  ASSUME NEW n \in Nat, message.parts[n + 1] \in Part,
         message.parts[n + 1].kind \notin Body \cup Listed, Kept(1..n), step = "parts",
         UNCHANGED <<message, step>>, parsed' = WithPart(parsed, message.parts[n + 1]),
         parsed \in Parsed
  PROVE  Kept(1..(n + 1))'
<1>1. parsed' = parsed
  BY WithOtherFacts
<1>2. 1..(n + 1) = 1..n \cup {n + 1}
  OBVIOUS
<1>3. /\ ListedOf(1..(n + 1))' = ListedOf(1..n)
      /\ \A kind \in Body : Bodies(1..(n + 1), kind)' = Bodies(1..n, kind)
  BY <1>2 DEF ListedOf, Bodies
<1>4. BodiesKept(1..(n + 1))'
  BY <1>1, <1>3 DEF Kept, BodiesKept, Seen
<1>5. ListedKept(1..(n + 1))'
  BY <1>1, <1>3 DEF Kept, ListedKept, Seen, Place
<1>6. HeaderKept'
  BY <1>1 DEF Kept, HeaderKept, Seen
<1>. QED
  BY <1>4, <1>5, <1>6 DEF Kept

LEMMA OneMoreRead ==
  ASSUME NEW n \in Nat, \A i \in 1..(n + 1) : message.parts[i] \in Part, parsed \in Parsed,
         Kept(1..n), step = "parts",
         UNCHANGED <<message, step>>, parsed' = WithPart(parsed, message.parts[n + 1])
  PROVE  Kept(1..(n + 1))'
<1>1. message.parts[n + 1] \in Part
  OBVIOUS
<1>. QED
  BY <1>1, BodyRead, ListedRead, OtherRead

-----------------------------------------------------------------------------
(* The end of reading.                                                      *)

\* The parts that were read are the readable ones.
LEMMA ReadAll ==
  ASSUME message \in Message, message.top = "read", NEW n \in 0..Len(message.parts),
         \A i \in 1..n : message.parts[i].kind # "broken",
         n = Len(message.parts) \/ message.parts[n + 1].kind = "broken"
  PROVE  ReadableParts = 1..n
<1>1. DOMAIN message.parts = 1..Len(message.parts) /\ Len(message.parts) \in Nat
  BY MessageFacts, FormatAssumption
<1>2. ASSUME NEW k \in 1..n PROVE k \in ReadableParts
  <2>1. k \in DOMAIN message.parts /\ 1..k \subseteq 1..n
    BY <1>1
  <2>. QED
    BY <2>1 DEF ReadableParts
<1>3. ASSUME NEW k \in ReadableParts PROVE k \in 1..n
  <2>1. k \in 1..Len(message.parts) /\ \A i \in 1..k : message.parts[i].kind # "broken"
    BY <1>1 DEF ReadableParts
  <2>2. CASE n = Len(message.parts)
    BY <2>1, <2>2
  <2>3. CASE message.parts[n + 1].kind = "broken"
    <3>1. n + 1 \notin 1..k
      BY <2>1, <2>3
    <3>. QED
      BY <1>1, <2>1, <3>1
  <2>. QED
    BY <2>2, <2>3
<1>. QED
  BY <1>2, <1>3

(* Cleaning keeps what was read, and leaves nothing PostgreSQL refuses.     *)
LEMMA CleaningKeeps ==
  ASSUME NEW n \in Nat, parsed \in Parsed, Kept(1..n), step = "parts",
         UNCHANGED message, step' = "parsed", parsed' = Cleaned(parsed)
  PROVE  Kept(1..n)' /\ Unsoiled(parsed)' /\ parsed' \in Parsed /\ parsed'.date = parsed.date
<1>. DEFINE S == 1..n
<1>1. /\ parsed' \in Parsed /\ parsed'.date = parsed.date
      /\ \A c \in Column : parsed'.texts[c] = Clean(parsed.texts[c])
      /\ Len(parsed'.attachments) = Len(parsed.attachments)
      /\ \A i \in 1..Len(parsed.attachments) :
            parsed'.attachments[i] = Clean(parsed.attachments[i])
  BY CleanedFacts
<1>2. /\ ListedOf(S)' = ListedOf(S) /\ ListedOf(S) \in SUBSET (1..n)
      /\ \A kind \in Body : Bodies(S, kind)' = Bodies(S, kind)
  BY DEF ListedOf, Bodies
<1>3. BodiesKept(S)'
  <2>1. \A kind \in Body : kind \in Column
    BY DEF Column
  <2>. QED
    BY <1>1, <1>2, <2>1, CleanFacts DEF Kept, BodiesKept, Seen
<1>4. ListedKept(S)'
  <2>1. /\ Len(parsed.attachments) = Cardinality(ListedOf(S))
        /\ \A i \in ListedOf(S) :
              parsed.attachments[Place(ListedOf(S), i)] = message.parts[i].text
    BY DEF Kept, ListedKept, Seen
  <2>2. \A i \in ListedOf(S) : Place(ListedOf(S), i) \in 1..Cardinality(ListedOf(S))
    BY <1>2, InitialPlaces
  <2>. QED
    BY <1>1, <1>2, <2>1, <2>2 DEF ListedKept, Seen, Place
<1>5. HeaderKept'
  BY <1>1 DEF Kept, HeaderKept, Seen, Column
<1>6. Unsoiled(parsed)'
  <2>1. /\ \A c \in Column : parsed.texts[c] \in Text
        /\ \A i \in 1..Len(parsed.attachments) : parsed.attachments[i] \in Text
        /\ DOMAIN parsed'.attachments = 1..Len(parsed'.attachments)
    BY <1>1 DEF Parsed
  <2>. QED
    BY <1>1, <2>1, CleanFacts DEF Unsoiled
<1>. QED
  BY <1>1, <1>3, <1>4, <1>5, <1>6 DEF Kept

-----------------------------------------------------------------------------
(* The start of reading, and the row.                                       *)
LEMMA NothingRead ==
  ASSUME parsed'.attachments = <<>>, \A kind \in Body : parsed'.texts[kind] = Empty,
         HeaderKept'
  PROVE  Kept({})'
<1>1. ListedOf({})' = {} /\ \A kind \in Body : Bodies({}, kind)' = {}
  BY DEF ListedOf, Bodies
<1>2. Cardinality({}) = 0
  BY FS_EmptySet
<1>3. BodiesKept({})'
  BY <1>1 DEF BodiesKept
<1>4. ListedKept({})'
  BY <1>1, <1>2 DEF ListedKept
<1>. QED
  BY <1>3, <1>4 DEF Kept

LEMMA RowFacts ==
  ASSUME message \in Message, parsed \in Parsed, Unsoiled(parsed)
  PROVE  /\ Row \in Parsed /\ (Storable(Row) <=> parsed.date # "refused")
         /\ Row.date = parsed.date
         /\ Row.attachments = parsed.attachments
         /\ Row.texts["envelope from"] = Clean(message.header["envelope from"])
         /\ \A c \in Column \ {"envelope from"} : Row.texts[c] = parsed.texts[c]
<1>. DEFINE from == Clean(message.header["envelope from"])
<1>1. "envelope from" \in Header /\ "envelope from" \in Column
  BY DEF Header, Column
<1>2. message.header["envelope from"] \in Text
  BY <1>1, MessageFacts
<1>3. from \in Text /\ ~from.soiled
  BY <1>2, CleanFacts
<1>. HIDE DEF from
<1>4. Row = [parsed EXCEPT !.texts["envelope from"] = from]
  BY DEF Row, from
<1>5. /\ Row \in Parsed /\ Row.attachments = parsed.attachments
      /\ Row.date = parsed.date
      /\ Row.texts["envelope from"] = from
      /\ \A c \in Column \ {"envelope from"} : Row.texts[c] = parsed.texts[c]
  BY <1>1, <1>3, <1>4 DEF Parsed
<1>. HIDE DEF Row
<1>6. Unsoiled(Row)
  BY <1>3, <1>5 DEF Unsoiled
<1>7. Storable(Row) <=> parsed.date # "refused"
  BY <1>5, <1>6 DEF Storable, Unsoiled
<1>. QED
  BY <1>5, <1>7 DEF from

-----------------------------------------------------------------------------
LEMMA TypeStep == IInv /\ [Next]_vars => TypeOK'
<1>. SUFFICES ASSUME IInv, [Next]_vars PROVE TypeOK'
  OBVIOUS
<1>. USE DEF TypeOK
<1>1. TypeOK /\ MaxParts \in Nat
  BY FormatAssumption DEF IInv
<1>2. CASE RcptUnknown
  BY <1>1, <1>2 DEF RcptUnknown
<1>3. CASE RcptFound
  <2>1. Normalized(address) \in AddressText
    <3>1. address.domain \in DomainText /\ address.wrap \in Wrap
      BY <1>1 DEF AddressText
    <3>2. EndTrimmed(address.domain.wrap) \in Wrap /\ Trimmed(address.wrap) \in Wrap
      BY <3>1, TrimFacts DEF DomainText
    <3>. QED
      BY <3>1, <3>2 DEF Normalized, AddressText, DomainText
  <2>. QED
    BY <1>1, <1>3, <2>1 DEF RcptFound
<1>4. CASE Data
  BY <1>1, <1>4 DEF Data
<1>5. CASE ReadHeader
  <2>1. message \in Message
    BY <1>5 DEF ReadHeader, IInv, ReadInv
  <2>2. WithHeader(parsed, message) \in Parsed
    BY <1>1, <2>1, MessageFacts, WithHeaderFacts
  <2>. QED
    BY <1>1, <1>5, <2>2 DEF ReadHeader
<1>6. CASE ReadPart
  <2>1. message \in Message /\ next \in 1..Len(message.parts)
    BY <1>1, <1>6 DEF ReadPart, HasPart, IInv, ReadInv
  <2>2. message.parts[next] \in Part /\ Len(message.parts) \in 0..MaxParts
    BY <2>1, MessageFacts
  <2>3. WithPart(parsed, message.parts[next]) \in Parsed
    BY <1>1, <2>2, PartTyped
  <2>. QED
    BY <1>1, <1>6, <2>1, <2>2, <2>3 DEF ReadPart
<1>7. CASE Stops \/ EndOfMessage
  BY <1>1, <1>7, CleanedFacts DEF Stops, EndOfMessage
<1>8. CASE Inserts
  <2>1. message \in Message /\ Unsoiled(parsed)
    BY <1>8 DEF Inserts, IInv, ReadInv
  <2>. QED
    BY <1>1, <1>8, <2>1, RowFacts DEF Inserts
<1>9. CASE UNCHANGED vars
  BY <1>1, <1>9 DEF vars
<1>. QED
  BY <1>2, <1>3, <1>4, <1>5, <1>6, <1>7, <1>8, <1>9 DEF Next

LEMMA HeaderStep ==
  ASSUME IInv, ReadHeader
  PROVE  ReadInv' /\ NoTextIsRefused'
<1>1. /\ message \in Message /\ next = 1 /\ parsed = NoParsed
      /\ UNCHANGED <<message, next>>
  BY DEF IInv, ReadInv, ReadHeader
<1>2. CASE message.top = "read"
  <2>1. step' = "parts" /\ parsed' = WithHeader(parsed, message)
    BY <1>2 DEF ReadHeader
  <2>2. /\ parsed'.attachments = <<>>
        /\ \A kind \in Body : parsed'.texts[kind] = Empty
        /\ \A c \in Header \ {"envelope from"} : parsed'.texts[c] = message.header[c]
        /\ parsed'.date = message.date
    <3>1. message.header \in [Header -> Text] /\ message.date \in Date
      BY <1>1, MessageFacts
    <3>2. /\ WithHeader(parsed, message).attachments = <<>>
          /\ WithHeader(parsed, message).date = message.date
          /\ \A c \in Header \ {"envelope from"} :
                WithHeader(parsed, message).texts[c] = message.header[c]
          /\ \A kind \in Body : WithHeader(parsed, message).texts[kind] = parsed.texts[kind]
      BY <1>1, <3>1, WithHeaderFacts, NoParsedFacts
    <3>. QED
      BY <1>1, <2>1, <3>2, NoParsedFacts DEF Column
  <2>3. HeaderKept'
    BY <1>1, <2>1, <2>2 DEF HeaderKept, Seen
  <2>4. Kept({})'
    BY <2>2, <2>3, NothingRead
  <2>5. 1..(next' - 1) = {} /\ next' <= Len(message'.parts) + 1
    BY <1>1, MessageFacts, FormatAssumption
  <2>6. Kept(1..(next - 1))'
    BY <2>4, <2>5
  <2>7. DateKept'
    BY <1>1, <1>2, <2>2 DEF DateKept
  <2>. QED
    BY <1>1, <1>2, <2>1, <2>5, <2>6, <2>7 DEF ReadInv, NoTextIsRefused
<1>3. CASE message.top # "read"
  <2>1. step' = "parsed" /\ parsed' = NoParsed
    BY <1>1, <1>3 DEF ReadHeader
  <2>2. HeaderKept'
    BY <1>1, <1>3 DEF HeaderKept
  <2>3. Kept({})'
    BY <2>1, <2>2, NothingRead, NoParsedFacts DEF Column
  <2>4. ReadableParts' = {}
    BY <1>1, <1>3 DEF ReadableParts
  <2>5. Kept(ReadableParts)'
    BY <2>3, <2>4
  <2>6. Unsoiled(parsed)'
    BY <2>1, NoParsedFacts, CleanFacts DEF Unsoiled
  <2>7. DateKept'
    BY <1>1, <1>3, <2>1, NoParsedFacts DEF DateKept
  <2>. QED
    BY <1>1, <2>1, <2>5, <2>6, <2>7 DEF ReadInv, NoTextIsRefused
<1>. QED
  BY <1>2, <1>3

LEMMA PartStep ==
  ASSUME IInv, ReadPart
  PROVE  ReadInv' /\ NoTextIsRefused'
<1>1. /\ message \in Message /\ parsed \in Parsed /\ step = "parts" /\ message.top = "read"
      /\ next \in 1..MaxParts + 1 /\ next <= Len(message.parts)
      /\ \A i \in 1..(next - 1) : message.parts[i].kind # "broken"
      /\ message.parts[next].kind # "broken"
      /\ Kept(1..(next - 1)) /\ DateKept
      /\ UNCHANGED <<message, step>> /\ next' = next + 1
      /\ parsed' = WithPart(parsed, message.parts[next])
  BY DEF IInv, TypeOK, ReadInv, ReadPart, HasPart
<1>2. PICK n \in Nat : n = next - 1
  BY <1>1, FormatAssumption
<1>3. next = n + 1 /\ next' = n + 2 /\ Len(message.parts) \in Nat
  BY <1>1, <1>2, MessageFacts, FormatAssumption
<1>4. \A i \in 1..(n + 1) : message.parts[i] \in Part
  BY <1>1, <1>3, MessageFacts
<1>5. Kept(1..(n + 1))'
  BY <1>1, <1>2, <1>3, <1>4, OneMoreRead
<1>6. next' - 1 = n + 1 /\ next' <= Len(message.parts) + 1
  BY <1>1, <1>3
<1>7. Kept(1..(next - 1))'
  BY <1>5, <1>6
<1>8. \A i \in 1..(n + 1) : message.parts[i].kind # "broken"
  BY <1>1, <1>2, <1>3
<1>9. DateKept'
  <2>1. parsed'.date = parsed.date
    BY <1>1, <1>3, <1>4, WithBodyFacts, WithListedFacts, WithOtherFacts
  <2>. QED
    BY <1>1, <2>1 DEF DateKept
<1>. QED
  BY <1>1, <1>6, <1>7, <1>8, <1>9 DEF ReadInv, NoTextIsRefused

LEMMA EndStep ==
  ASSUME IInv, Stops \/ EndOfMessage
  PROVE  ReadInv' /\ NoTextIsRefused'
<1>1. /\ message \in Message /\ parsed \in Parsed /\ step = "parts" /\ message.top = "read"
      /\ next \in 1..MaxParts + 1 /\ next <= Len(message.parts) + 1
      /\ \A i \in 1..(next - 1) : message.parts[i].kind # "broken"
      /\ Kept(1..(next - 1)) /\ DateKept
      /\ UNCHANGED <<message, next>> /\ step' = "parsed"
      /\ parsed' = Cleaned(parsed)
      /\ message.parts[next].kind = "broken" \/ ~(next <= Len(message.parts))
  BY DEF IInv, TypeOK, ReadInv, Stops, EndOfMessage, HasPart
<1>2. PICK n \in Nat : n = next - 1
  BY <1>1, FormatAssumption
<1>3. next = n + 1 /\ n \in 0..Len(message.parts)
  BY <1>1, <1>2, MessageFacts, FormatAssumption
<1>4. ReadableParts = 1..n
  <2>1. n = Len(message.parts) \/ message.parts[n + 1].kind = "broken"
    BY <1>1, <1>3
  <2>. QED
    BY <1>1, <1>2, <1>3, <2>1, ReadAll
<1>5. Kept(1..n)' /\ Unsoiled(parsed)' /\ parsed'.date = parsed.date
  BY <1>1, <1>2, CleaningKeeps
<1>6. ReadableParts' = 1..n
  BY <1>1, <1>4 DEF ReadableParts
<1>7. Kept(ReadableParts)'
  BY <1>5, <1>6
<1>8. DateKept'
  BY <1>1, <1>5 DEF DateKept
<1>. QED
  BY <1>1, <1>5, <1>7, <1>8 DEF ReadInv, NoTextIsRefused

LEMMA InsertStep ==
  ASSUME IInv, Inserts
  PROVE  ReadInv' /\ NoTextIsRefused'
<1>1. /\ message \in Message /\ parsed \in Parsed /\ step = "parsed"
      /\ Kept(ReadableParts) /\ Unsoiled(parsed) /\ DateKept
      /\ UNCHANGED message /\ parsed' = Row
  BY DEF IInv, TypeOK, ReadInv, Inserts
<1>2. /\ Storable(Row) <=> parsed.date # "refused"
      /\ Row.attachments = parsed.attachments /\ Row.date = parsed.date
      /\ Row.texts["envelope from"] = Clean(message.header["envelope from"])
      /\ \A c \in Column \ {"envelope from"} : Row.texts[c] = parsed.texts[c]
  BY <1>1, RowFacts
<1>3. step' = IF parsed.date # "refused" THEN "stored" ELSE "refused"
  BY <1>2 DEF Inserts
<1>. HIDE DEF Row
<1>. DEFINE R == ReadableParts
<1>4. /\ R' = R /\ ListedOf(R)' = ListedOf(R)
      /\ \A kind \in Body : Bodies(R, kind)' = Bodies(R, kind)
  BY <1>1 DEF ReadableParts, ListedOf, Bodies
<1>5. BodiesKept(R)'
  <2>1. \A kind \in Body : kind \in Column \ {"envelope from"}
    BY DEF Body, Column
  <2>. QED
    BY <1>1, <1>2, <1>3, <1>4, <2>1 DEF Kept, BodiesKept, Seen
<1>6. ListedKept(R)'
  BY <1>1, <1>2, <1>3, <1>4 DEF Kept, ListedKept, Seen, Place
<1>7. HeaderKept'
  BY <1>1, <1>2, <1>3 DEF Kept, HeaderKept, Seen, Column
<1>8. DateKept'
  BY <1>1, <1>2 DEF DateKept
<1>9. NoTextIsRefused'
  <2>1. step' = "refused" => parsed.date = "refused"
    BY <1>3
  <2>. QED
    BY <1>1, <2>1 DEF DateKept, NoTextIsRefused
<1>10. Kept(ReadableParts)'
  BY <1>4, <1>5, <1>6, <1>7 DEF Kept
<1>. QED
  BY <1>1, <1>2, <1>3, <1>8, <1>9, <1>10 DEF ReadInv

LEMMA IInvStep == IInv /\ [Next]_vars => IInv'
<1>. SUFFICES ASSUME IInv, [Next]_vars PROVE IInv'
  OBVIOUS
<1>1. TypeOK' /\ AddressInv' /\ MailFindsAddress'
  BY TypeStep, AddressStep
<1>2. ReadInv' /\ NoTextIsRefused'
  <2>1. CASE RcptUnknown \/ RcptFound
    BY <2>1 DEF RcptUnknown, RcptFound, IInv, ReadInv, NoTextIsRefused
  <2>2. CASE Data
    BY <2>2 DEF Data, IInv, ReadInv, NoTextIsRefused
  <2>3. CASE UNCHANGED vars
    <3>. USE <2>3 DEF vars
    <3>1. ReadableParts' = ReadableParts
      BY DEF ReadableParts
    <3>2. ASSUME NEW S, Kept(S) PROVE Kept(S)'
      <4>1. ListedOf(S)' = ListedOf(S) /\ \A kind \in Body : Bodies(S, kind)' = Bodies(S, kind)
        BY DEF ListedOf, Bodies
      <4>2. BodiesKept(S)'
        BY <3>2, <4>1 DEF Kept, BodiesKept, Seen
      <4>3. ListedKept(S)'
        BY <3>2, <4>1 DEF Kept, ListedKept, Seen, Place
      <4>4. HeaderKept'
        BY <3>2 DEF Kept, HeaderKept, Seen
      <4>. QED
        BY <4>2, <4>3, <4>4 DEF Kept
    <3>3. step = "parts" => Kept(1..(next - 1))'
      <4>1. step = "parts" => Kept(1..(next - 1))
        BY DEF IInv, ReadInv
      <4>2. PICK n : n = next - 1
        OBVIOUS
      <4>3. next' - 1 = n
        BY <4>2
      <4>4. step = "parts" => Kept(1..n)'
        BY <3>2, <4>1, <4>2
      <4>. QED
        BY <4>3, <4>4
    <3>4. step \in {"parsed", "stored"} => Kept(ReadableParts)'
      BY <3>1, <3>2 DEF IInv, ReadInv
    <3>5. (Unsoiled(parsed)' <=> Unsoiled(parsed)) /\ (DateKept' <=> DateKept)
      BY DEF Unsoiled, DateKept
    <3>. QED
      BY <3>3, <3>4, <3>5 DEF IInv, ReadInv, NoTextIsRefused
  <2>. QED
    BY <2>1, <2>2, <2>3, HeaderStep, PartStep, EndStep, InsertStep DEF Next
<1>. QED
  BY <1>1, <1>2 DEF IInv

\* What was read is what ReadableIsKept asks for.
LEMMA StoredIsKept == IInv => ReadableIsKept
<1>. SUFFICES ASSUME IInv, step = "stored" PROVE ReadableIsKept
  BY DEF ReadableIsKept
<1>1. /\ Kept(ReadableParts)
      /\ parsed.texts["envelope from"] = Clean(message.header["envelope from"])
  BY DEF IInv, ReadInv
<1>0. message.top = "read" => parsed.date = message.date
  BY DEF IInv, ReadInv, DateKept
<1>2. message.top = "read" => \A c \in Header : parsed.texts[c] = Clean(message.header[c])
  <2>1. \A c \in Header \ {"envelope from"} :
          message.top = "read" => parsed.texts[c] = Clean(message.header[c])
    BY <1>1 DEF Kept, HeaderKept, Seen
  <2>. QED
    BY <1>1, <2>1
<1>3. BodiesKept(ReadableParts) /\ ListedKept(ReadableParts)
  BY <1>1 DEF Kept
<1>. QED
  BY <1>0, <1>2, <1>3 DEF BodiesKept, ListedKept, ReadableIsKept, Seen

-----------------------------------------------------------------------------
(* The theorems.                                                            *)
LEMMA Reading == Spec => []IInv
<1>. QED
  BY InitIInv, IInvStep, PTL DEF Spec

\* Whatever a message holds, what Parse returns keeps its type.
THEOREM TextIsTyped == Spec => []TypeOK
<1>1. IInv => TypeOK
  BY DEF IInv
<1>. QED
  BY <1>1, Reading, PTL

(* Under every configured domain and every spelling of the recipient, RCPT  *)
(* finds the project exactly when the domain is nothing but a domain and    *)
(* no blanks are inside the brackets (FindProjectID, GenerateAddress).      *)
THEOREM AddressesAreFound == Spec => []MailFindsAddress
<1>1. IInv => MailFindsAddress
  BY DEF IInv
<1>. QED
  BY <1>1, Reading, PTL

(* No message, of any number of parts and soiled wherever it may be, makes  *)
(* the INSERT of Deliver fail, but one with a Date that Go reads and        *)
(* PostgreSQL does not have.                                                *)
THEOREM EveryTextIsStored == Spec => []NoTextIsRefused
<1>1. IInv => NoTextIsRefused
  BY DEF IInv
<1>. QED
  BY <1>1, Reading, PTL

(* What Deliver stores is, of a message of any number of parts, the first   *)
(* body of each kind, cut at maxBodyBytes, every attachment, the header and *)
(* its date, up to the first part that cannot be read, unless CreateReader  *)
(* fails, be it for an encoding only (Parse).                               *)
THEOREM ReadableTextIsKept == Spec => []ReadableIsKept
<1>. QED
  BY StoredIsKept, Reading, PTL
=============================================================================
