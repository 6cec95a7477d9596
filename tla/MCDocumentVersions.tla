------------------------- MODULE MCDocumentVersions -------------------------
(***************************************************************************)
(* Instances of DocumentVersions for TLC.                                  *)
(***************************************************************************)
EXTENDS DocumentVersions, TLC
=============================================================================
