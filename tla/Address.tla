------------------------------- MODULE Address -------------------------------
(***************************************************************************)
(* Project addresses as text (services/inbound/address.go): how they are   *)
(* generated from the configured domain, and what is trimmed and lowered   *)
(* before they are compared.                                               *)
(***************************************************************************)

\* What is around a text: nothing, blanks, brackets (with or without blanks around
\* them), brackets with blanks inside, blanks after it only, or what is left of any
\* of these in front once its end was trimmed.
Wrap == {"bare", "spaced", "bracketed", "padded", "trailing", "half"}

\* TrimSpace, TrimPrefix and TrimSuffix, once each.
Trimmed(wrap) == CASE wrap = "padded" -> "spaced"
                   [] wrap = "half" -> "half"
                   [] OTHER -> "bare"

\* The same at the end of a text that has something else in front.
EndTrimmed(wrap) == IF wrap \in {"bare", "trailing"} THEN "bare" ELSE "half"

\* `at`: the domain contains an "@" itself.
DomainText == [wrap : Wrap, upper : BOOLEAN, at : BOOLEAN]
AddressText == [wrap : Wrap, upper : BOOLEAN, domain : DomainText]

Lowered(text) == [text EXCEPT !.upper = FALSE]

\* GenerateAddress: a new local part, and the domain as configured but lowered.
Generated(domain) == [wrap |-> "bare", upper |-> FALSE, domain |-> Lowered(domain)]

\* NormalizeAddress of a domain, and of an address.
NormalizedDomain(domain) ==
    [wrap |-> Trimmed(domain.wrap), upper |-> FALSE, at |-> domain.at]

\* Faulty variant: case is kept.
NormalizedInCase(address) ==
    [address EXCEPT !.wrap = Trimmed(@), !.domain.wrap = EndTrimmed(@)]

Normalized(address) ==
    [wrap |-> Trimmed(address.wrap), upper |-> FALSE,
     domain |-> [wrap |-> EndTrimmed(address.domain.wrap), upper |-> FALSE,
                 at |-> address.domain.at]]

\* AddressDomain compared with Store.Domain: blanks after an address belong to its
\* domain, and an "@" in the domain cuts it short.
InDomain(address, domain) ==
    address.wrap = "bare" /\ ~domain.at /\ address.domain = NormalizedDomain(domain)

\* FindProjectID of a project whose address was generated for `domain`.
Finds(address, domain) ==
    InDomain(Normalized(address), domain) /\ Normalized(address) = Generated(domain)

\* The domain is configured as nothing but a domain.
Plain(domain) == domain.wrap = "bare" /\ ~domain.at
=============================================================================
