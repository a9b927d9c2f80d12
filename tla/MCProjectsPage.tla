--------------------------- MODULE MCProjectsPage ---------------------------
(* ProjectsPage for TLC; the numbers are in the .cfg file.                  *)
EXTENDS ProjectsPage
=============================================================================
