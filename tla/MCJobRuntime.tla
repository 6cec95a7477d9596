---------------------------- MODULE MCJobRuntime ----------------------------
(***************************************************************************)
(* An instance of JobRuntime for TLC; the configuration gives the model    *)
(* values and the bounds.                                                  *)
(***************************************************************************)
EXTENDS JobRuntime, TLC
=============================================================================
