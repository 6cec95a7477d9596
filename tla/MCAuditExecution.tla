-------------------------- MODULE MCAuditExecution --------------------------
(***************************************************************************)
(* Instances of AuditExecution for TLC.                                    *)
(***************************************************************************)
EXTENDS AuditExecution
=============================================================================
