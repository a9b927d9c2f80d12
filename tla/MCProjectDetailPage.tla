------------------------- MODULE MCProjectDetailPage -------------------------
(* ProjectDetailPage for TLC; everything is in the .cfg files.              *)
EXTENDS ProjectDetailPage
=============================================================================
