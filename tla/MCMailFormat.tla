---------------------------- MODULE MCMailFormat ----------------------------
(* MailFormat for TLC, with two headers.                                    *)
EXTENDS MailFormat

\* A header that is empty, and one whose columns all hold a word and a NUL byte.
MCHeaders ==
    {[c \in Header |-> Empty], [c \in Header |-> [word |-> "w", soiled |-> TRUE, size |-> "whole"]]}
=============================================================================
