--------------------------- MODULE MCInboundMail ---------------------------
(* Small instances of InboundMail for TLC.                                  *)
EXTENDS InboundMail, TLC

CONSTANTS p1, p2, u1, c1, s1, s2, m1, m2, m3

\* Two addresses; "a1" and "A1" are spellings of address 1, "b1" of address 2.
MCAddress == {1, 2}
MCSpelling == {"a1", "A1", "b1"}
MCNormalOf == [a1 |-> 1, A1 |-> 1, b1 |-> 2]

\* One message names an address twice and has more recipients than fit into a
\* transaction; the other has one of its recipients.
MCRcptTo == [m \in Message |-> IF m = m1 THEN {"a1", "A1", "b1"} ELSE {"a1"}]

MCSymmetry == Permutations({s1, s2}) \cup Permutations({p1, p2})
=============================================================================
