--------------------------- MODULE AuditLifecycle ---------------------------
(***************************************************************************)
(* What the database promises about one audit execution and its risks: the *)
(* trigger function enforce_audit_report_runtime_v1 (migration 020),       *)
(* whatever statement writes the rows.  A step is one transaction.         *)
(* AuditExecution implements it when no transaction of the repository is   *)
(* refused by the trigger.                                                 *)
(***************************************************************************)
CONSTANTS
  Risks,      \* the risks that the rules of the catalog may raise
  HighRisks,  \* those whose rule has the default level high
  Nobody      \* a reviewer column that is NULL

VARIABLES execution, risks

\* The status matrix of executions; draft and validating are never visible
\* between transactions.
ExecutionEdges ==
  {"absent"} \X {"queued"}
  \cup {"queued"} \X {"running", "failed", "cancelled", "outdated"}
  \cup {"running"} \X {"pending_finance_review", "failed", "cancelled", "outdated"}
  \cup {"pending_finance_review"} \X
       {"completed", "pending_audit_review", "returned_for_correction", "cancelled",
        "outdated"}
  \cup {"pending_audit_review"} \X
       {"completed", "returned_for_correction", "cancelled", "outdated"}
  \cup {"failed"} \X {"queued", "outdated"}
  \cup {"completed"} \X {"outdated"}

Undecided(its, level) ==
  \E r \in Risks : its[r].review = "pending" /\ its[r].effective = level

\* A waiting audit review has a high risk to decide; a completed execution has
\* none undecided, and an auditor when a rule raised a high risk.
ReviewGate(new, its) ==
  /\ new.status = "pending_audit_review" =>
       new.finance # Nobody /\ Undecided(its, "high")
  /\ new.status = "completed" =>
       /\ new.finance # Nobody
       /\ \A r \in Risks : its[r].review # "pending"
       /\ (\E r \in HighRisks : its[r].review # "absent") => new.auditor # Nobody

\* Every update of the row is an edge of the matrix.
ExecutionAllowed ==
  \/ execution' = execution
  \/ /\ <<execution.status, execution'.status>> \in ExecutionEdges
     /\ ReviewGate(execution', risks')

\* A risk is inserted while the execution runs, at the level of its rule, and
\* decided once: the high ones by somebody else than the finance reviewer, the
\* others by finance, which raises none to high.
RiskAllowed(r) ==
  \/ risks'[r] = risks[r]
  \/ /\ risks[r].review = "absent" /\ risks'[r].review = "pending"
     /\ risks'[r].effective = IF r \in HighRisks THEN "high" ELSE "low"
     /\ execution.status = "running"
  \/ /\ risks[r].review = "pending" /\ risks'[r].review = "reviewed"
     /\ IF risks[r].effective = "high"
          THEN /\ execution.status = "pending_audit_review"
               /\ risks'[r].by # execution.finance
          ELSE /\ execution.status = "pending_finance_review"
               /\ risks'[r].effective # "high"

Init ==
  /\ execution.status = "absent"
  /\ \A r \in Risks : risks[r].review = "absent"

Next ==
  /\ ExecutionAllowed
  /\ \A r \in Risks : RiskAllowed(r)

Spec == Init /\ [][Next]_<<execution, risks>>
=============================================================================
