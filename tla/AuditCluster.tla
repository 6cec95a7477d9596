---------------------------- MODULE AuditCluster ----------------------------
(***************************************************************************)
(* An audit execution together with its report: the transaction that       *)
(* completes the execution queues the report, those that outdate the       *)
(* execution reach the report and its job, and one maintenance process     *)
(* runs whatever it takes over.                                            *)
(***************************************************************************)
EXTENDS ReportGeneration

vars == <<avars, rvars>>

OfReport == INSTANCE ReportLifecycle WITH execution <- execution, report <- report

-----------------------------------------------------------------------------
Init == AuditInit /\ ReportInit

\* _execution_decision.
ReviewExecution ==
  /\ Decide
  /\ IF execution'.status = "completed" THEN QueueReport ELSE UNCHANGED rvars

EditAuditedFacts ==
  /\ EditFacts
  /\ IF execution.status \in Outdatable THEN OutdateReport ELSE UNCHANGED rvars

AuditAgain == ReAudit /\ OutdateReadyReport

MaintenanceTakesOver ==
  /\ aexec[Maintenance] = AIdle /\ rexec[Maintenance] = RIdle
  /\ \/ TakeOverAudit /\ UNCHANGED rvars
     \/ TakeOverReport /\ UNCHANGED avars

AuditStep  == AuditJobNext /\ UNCHANGED rvars
ReportStep == ReportNext /\ UNCHANGED avars

Next ==
  \/ AuditStep \/ ReportStep \/ MaintenanceTakesOver
  \/ ReviewExecution \/ EditAuditedFacts \/ AuditAgain

Spec == Init /\ [][Next]_vars

(***************************************************************************)
(* Fairness.  The maintenance loop comes back to every candidate when it   *)
(* is free, an executor goes on until it stops, the lease of an attempt    *)
(* nobody works on runs out.  Nothing is assumed of crashes, failures,     *)
(* users or the delivery of messages; AuditFairSpec says what the          *)
(* execution needs.                                                        *)
(***************************************************************************)
Fairness ==
  /\ WF_vars(MaintenanceTakesOver)
  /\ WF_vars(AuditExecutorNext(Maintenance) /\ UNCHANGED rvars)
  /\ WF_vars(GiveUpReport /\ UNCHANGED avars)
  /\ WF_vars(~ReportAlive /\ ReportLeaseExpires /\ UNCHANGED avars)
  /\ \A p \in Procs : WF_vars(ReportExecutorNext(p) /\ UNCHANGED avars)

FairSpec == Spec /\ Fairness

-----------------------------------------------------------------------------
(***************************** Properties *********************************)

\* Every variable stays within the values its columns and records allow.
TypeOK ==
  /\ AuditTypeOK
  /\ report \in ReportRecord
  /\ rjob \in JobRecord(ReportAttempts) /\ rmessage \in BOOLEAN
  /\ rexec \in [Procs -> ReportExec]
  /\ artifacts \subseteq Artifacts
  /\ faults \subseteq AllFaults

\* The report and its job tell the same story, whoever wrote last: worker,
\* maintenance, editor or canceller (a dead-lettered dispatch excepted), and
\* only a transient failure is to be tried again.
ReportAgreesWithJob ==
  /\ rjob.status = "queued" => report.status = "queued"
  /\ rjob.status = "running" <=> report.status = "generating"
  /\ report.status = "queued" => rjob.status \in {"queued", "failed"}
  /\ report.status \in {"ready", "outdated"} => rjob.status = "succeeded"
  /\ report.status = "failed" =>
       rjob.status \in {"failed", "cancel_requested", "cancelled"}
  /\ rjob.retry => report.failure = "TRANSIENT"

\* A ready report is of a completed execution: no race of rendering with an
\* edit or a re-audit leaves one of an outdated execution.
ReadyIsCurrent == report.status = "ready" => execution.status = "completed"

\* The objects have the keys of the report, not of the attempt: whoever writes
\* them renders the draft that the report has.
RenderedDraftIsSettled ==
  \A p \in Procs :
    rexec[p].pc \in {"rendering", "half", "stored"} => rexec[p].draft = report.draft

\* A report that became ready keeps both objects, whichever attempts crash, as
\* long as none outlives its lease and no reply of a commit is lost.
ReadyKeepsArtifacts ==
  faults \subseteq {"crash"} /\ report.status \in {"ready", "outdated"} =>
    artifacts = Artifacts

\* TECHNICAL_SPEC 11.7: what a failed generation stored is compensated exactly,
\* or the report says that the outcome is unknown.
CompensationIsExact ==
  faults = {} /\ report.status = "failed" /\ report.failure \in {"TRANSIENT", "INVALID"}
    => artifacts = {} \/ \E p \in Procs : rexec[p] # RIdle

\* Every write to the report satisfies the triggers: no transaction of a
\* handler or a service is ever refused by them.
ImplementsReportLifecycle == OfReport!Spec

\* Every write to the job report_generate is one its trigger accepts, whichever
\* service or executor makes it.
ReportRow == INSTANCE JobRowLifecycle WITH MaxAttempts <- ReportAttempts, row <- rjob
ImplementsReportRow == ReportRow!Spec

\* A report does not stay in generation, unless its execution is outdated.
GenerationSettles ==
  report.status = "generating" ~>
    report.status # "generating" \/ execution.status = "outdated"

=============================================================================
