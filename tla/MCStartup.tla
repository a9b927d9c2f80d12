------------------------------ MODULE MCStartup ------------------------------
(* A small history of releases for TLC.                                     *)
EXTENDS Startup

\* The first release; the next, of a branch without 2; one with 2 merged late; and
\* one that was released after both.
MCEmbedded == [old |-> {1}, next |-> {1, 3}, late |-> {1, 2, 3}, last |-> {1, 2, 3, 5}]
=============================================================================
