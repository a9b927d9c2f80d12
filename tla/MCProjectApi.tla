---------------------------- MODULE MCProjectApi ----------------------------
(* Small instances of ProjectApi for TLC.                                   *)
EXTENDS ProjectApi

CONSTANTS p1, p2, u1, u2, a1, a2, h1, h2

\* Contents are good, nameless or of an odd status.
MCValid == Content \ {"odd status"}
MCNamed == Content \ {"nameless"}
=============================================================================
