--------------------------- MODULE MCAuditCluster ---------------------------
(***************************************************************************)
(* Instances of AuditCluster for TLC.                                      *)
(***************************************************************************)
EXTENDS AuditCluster
=============================================================================
