-------------------------- MODULE MCFileProcessing --------------------------
(***************************************************************************)
(* Instances of FileProcessing for TLC.                                    *)
(***************************************************************************)
EXTENDS FileProcessing
=============================================================================
