---------------------------- MODULE MCIndexBuild ----------------------------
(***************************************************************************)
(* Instances of IndexBuild for TLC.                                        *)
(***************************************************************************)
EXTENDS IndexBuild, TLC
=============================================================================
