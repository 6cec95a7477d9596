-------------------------- MODULE ReportLifecycle --------------------------
(***************************************************************************)
(* What the database promises about the report of an execution: the        *)
(* trigger function enforce_audit_report_runtime_v2 (migration 023), and   *)
(* the outdating of ready reports by the trigger on executions (migration  *)
(* 020).  A step is one transaction.                                       *)
(***************************************************************************)
VARIABLES execution, report

ReportEdges ==
  {"queued"} \X {"generating", "failed"}
  \cup {"generating"} \X {"ready", "failed"}
  \cup {"failed"} \X {"queued"}
  \cup {"ready"} \X {"outdated"}

\* Reports are inserted for completed executions; every update is an edge of the
\* matrix, or settles the draft once, while the report is generated; failed
\* reports have a failure code and no others; an outdated execution has no ready
\* report.
ReportAllowed ==
  /\ \/ report' = report
     \/ /\ report.status = "absent" /\ report'.status = "queued"
        /\ execution'.status = "completed"
        /\ report'.draft = "disabled"
     \/ /\ <<report.status, report'.status>> \in ReportEdges
        /\ report'.draft = report.draft
     \/ /\ report.status = "generating" /\ report.draft = "disabled"
        /\ \E draft \in {"succeeded", "degraded"} :
             report' = [report EXCEPT !.draft = draft]
  /\ report'.failure # "none" <=> report'.status = "failed"
  /\ execution.status # "outdated" /\ execution'.status = "outdated" =>
       report'.status # "ready"

Init == report.status = "absent" /\ report.draft = "disabled"

Spec == Init /\ [][ReportAllowed]_<<execution, report>>
=============================================================================
