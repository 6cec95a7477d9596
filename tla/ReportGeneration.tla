-------------------------- MODULE ReportGeneration --------------------------
(***************************************************************************)
(* The formal report of an execution: the audit_reports row with its       *)
(* draft, the job report_generate and its executors                        *)
(* (services/report_job_executor.py), and the two objects of the report in *)
(* MinIO, whose keys all attempts share (adapters/minio_report_storage.py).*)
(* Every action is one transaction, one call of the object store or one    *)
(* process event.  The bytes of the objects are a function of the frozen   *)
(* payload and of the draft, so an object is present or absent, and each   *)
(* executor remembers the draft it renders.                                *)
(***************************************************************************)
EXTENDS AuditExecution

CONSTANTS
  ReportAttempts,   \* async_jobs.max_attempts (3 in the report handler registry)
  Drafting          \* whether the executors have an AI draft service

ASSUME ReportGenerationAssumption ==
  /\ ReportAttempts \in Nat \ {0}
  /\ Drafting \in BOOLEAN

Artifacts == {"pdf", "xlsx"}

\* crash: executors die or cannot write their failure; stall: they outlive
\* their lease, which nothing renews;
\* lost_reply: a commit succeeds although its reply is lost.
AllFaults == {"crash", "stall", "lost_reply"}

VARIABLES
  report,       \* the audit_reports row
  rjob,         \* the job report_generate
  rmessage,     \* a message for the queued attempt is, or will be, at a worker
  rexec,        \* what each executor does, for which attempt and draft
  artifacts,    \* the objects of the report that exist in MinIO
  faults        \* the faults of this behaviour; never changes

rvars == <<report, rjob, rmessage, rexec, artifacts, faults>>

ReportRecord ==
  [status : {"absent", "queued", "generating", "ready", "failed", "outdated"},
   draft : {"disabled", "succeeded", "degraded"},
   failure : {"none", "TRANSIENT", "INVALID", "UNKNOWN", "WORKER_LOST", "OUTDATED"}]
NoReport == [status |-> "absent", draft |-> "disabled", failure |-> "none"]

\* todo: the objects still to be deleted; code: the failure that is reported
\* afterwards, FENCED when the executor raises instead.
ReportExec ==
  [pc : {"idle", "claimed", "drafting", "drafted", "rendering", "half", "stored",
         "undoing", "failing"},
   attempt : 0..ReportAttempts, draft : {"disabled", "succeeded", "degraded"},
   todo : SUBSET Artifacts,
   code : {"none", "TRANSIENT", "INVALID", "UNKNOWN", "FENCED"}]
RIdle == [pc |-> "idle", attempt |-> 0, draft |-> "disabled", todo |-> {},
          code |-> "none"]

RHolds(p)    == HoldsLease(rjob, rexec[p].attempt)
RGoes(p, pc) == rexec' = [rexec EXCEPT ![p].pc = pc]
RStops(p)    == rexec' = [rexec EXCEPT ![p] = RIdle]
RStarts(p)   ==
  rexec' = [rexec EXCEPT ![p] = [RIdle EXCEPT !.pc = "claimed",
                                              !.attempt = rjob.attempt + 1]]
\* _compensate(uploaded), then _fail or raise.
Undoes(p, todo, code) ==
  rexec' = [rexec EXCEPT ![p] = [@ EXCEPT !.pc = "undoing", !.todo = todo,
                                          !.code = code]]
Fails(p, code) == Undoes(p, {}, code)

\* What _preflight, _adopt_draft and _complete have in common.
Generating == report.status = "generating" /\ execution.status = "completed"

-----------------------------------------------------------------------------
(************************ Creation and delivery ***************************)

\* queue_formal_report, in the transaction that completes the execution.
QueueReport ==
  /\ report' = [NoReport EXCEPT !.status = "queued"]
  /\ rjob' = NewJob
  /\ rmessage' = TRUE
  /\ UNCHANGED <<rexec, artifacts, faults>>

Claimable ==
  /\ rjob.status = "queued"
  /\ report.status = "queued" /\ execution.status = "completed"

ClaimReport(w) ==
  /\ rexec[w] = RIdle
  /\ rmessage /\ Claimable
  /\ report' = [report EXCEPT !.status = "generating"]
  /\ rjob' = Started(rjob)
  /\ RStarts(w)
  /\ rmessage' = FALSE
  /\ UNCHANGED <<artifacts, faults>>

RefuseReportMessage ==
  /\ rmessage /\ ~Claimable
  /\ rmessage' = FALSE
  /\ UNCHANGED <<report, rjob, rexec, artifacts, faults>>

\* mark_outbox_failure, dead letter: the report is not touched.
ReportDispatchDies ==
  /\ rmessage /\ rjob.status = "queued"
  /\ rjob' = Over(rjob, "failed", FALSE)
  /\ rmessage' = FALSE
  /\ UNCHANGED <<report, rexec, artifacts, faults>>

\* requeue_failed_report_job.
RequeueReport ==
  /\ rjob.status = "failed" /\ rjob.retry
  /\ report.status = "failed" /\ report.failure # "UNKNOWN"
  /\ execution.status = "completed"
  /\ report' = [report EXCEPT !.status = "queued", !.failure = "none"]
  /\ rjob' = Requeued(rjob)
  /\ rmessage' = TRUE
  /\ UNCHANGED <<rexec, artifacts, faults>>

\* recover_expired_report_job.  Once the execution is outdated it tries to fail
\* report and job with AUDIT_EXECUTION_OUTDATED; the job trigger admits no code
\* but WORKER_LOST after the lease, so that transaction is always refused and
\* has no action here.
ReportRecoverable ==
  /\ Lost(rjob)
  /\ report.status = "generating" /\ execution.status = "completed"

TakeOverReport ==
  /\ rexec[Maintenance] = RIdle
  /\ ReportRecoverable /\ rjob.attempt < ReportAttempts
  /\ rjob' = Started(rjob)
  /\ RStarts(Maintenance)
  /\ UNCHANGED <<report, rmessage, artifacts, faults>>

\* Faulty variant: only the job is ended.
GiveUpReportJob ==
  /\ ReportRecoverable /\ rjob.attempt = ReportAttempts
  /\ rjob' = Over(rjob, "failed", FALSE)
  /\ UNCHANGED <<report, rmessage, rexec, artifacts, faults>>

GiveUpReport ==
  /\ ReportRecoverable /\ rjob.attempt = ReportAttempts
  /\ report' = [report EXCEPT !.status = "failed", !.failure = "WORKER_LOST"]
  /\ rjob' = Over(rjob, "failed", FALSE)
  /\ UNCHANGED <<rmessage, rexec, artifacts, faults>>

-----------------------------------------------------------------------------
(*************************** Payload and draft ****************************)

\* _preflight, before and after the draft is settled.
PreflightReport(p) ==
  /\ rexec[p].pc \in {"claimed", "drafted"}
  /\ \/ /\ Generating
        /\ rexec' = [rexec EXCEPT
             ![p].pc = IF rexec[p].pc = "claimed" /\ Drafting
                          /\ report.draft = "disabled"
                         THEN "drafting" ELSE "rendering",
             ![p].draft = report.draft]
     \/ ~Generating /\ Fails(p, "INVALID")
     \/ Fails(p, "TRANSIENT")
  /\ UNCHANGED <<report, rjob, rmessage, artifacts, faults>>

\* _adopt_draft or _mark_draft_degraded: the attempt is not compared.
SettleDraft(p) ==
  /\ rexec[p].pc = "drafting"
  /\ Generating /\ report.draft = "disabled"
  /\ \E draft \in {"succeeded", "degraded"} : report' = [report EXCEPT !.draft = draft]
  /\ \/ RGoes(p, "drafted")
     \/ "lost_reply" \in faults /\ Fails(p, "TRANSIENT")
  /\ UNCHANGED <<rjob, rmessage, artifacts, faults>>

\* Another attempt has settled it, the report is no longer generated, or the
\* transaction fails.
DraftFails(p) ==
  /\ rexec[p].pc = "drafting"
  /\ \/ ~(Generating /\ report.draft = "disabled") /\ Fails(p, "INVALID")
     \/ Fails(p, "TRANSIENT")
  /\ UNCHANGED <<report, rjob, rmessage, artifacts, faults>>

-----------------------------------------------------------------------------
(****************************** Artifacts *********************************)

\* put_verified: a put that fails is removed; when that fails too the outcome
\* is unknown and the object joins those to compensate.
Put(p, object, done, next) ==
  \/ artifacts' = artifacts \cup {object} /\ RGoes(p, next)
  \/ artifacts' = artifacts \ {object} /\ Undoes(p, done, "TRANSIENT")
  \/ /\ artifacts' \in {artifacts, artifacts \cup {object}}
     /\ Undoes(p, done \cup {object}, "TRANSIENT")

\* A report that cannot be rendered is invalid, or to be tried again.
StorePdf(p) ==
  /\ rexec[p].pc = "rendering"
  /\ \/ Put(p, "pdf", {}, "half")
     \/ /\ \E code \in {"INVALID", "TRANSIENT"} : Fails(p, code)
        /\ UNCHANGED artifacts
  /\ UNCHANGED <<report, rjob, rmessage, faults>>

\* Faulty variant: the first object is forgotten when the second put fails.
StoreXlsxAlone(p) ==
  /\ rexec[p].pc = "half"
  /\ Put(p, "xlsx", {}, "stored")
  /\ UNCHANGED <<report, rjob, rmessage, faults>>

StoreXlsx(p) ==
  /\ rexec[p].pc = "half"
  /\ Put(p, "xlsx", {"pdf"}, "stored")
  /\ UNCHANGED <<report, rjob, rmessage, faults>>

Completable(p) == Generating /\ report.draft = rexec[p].draft

ReadyReport == [report EXCEPT !.status = "ready", !.failure = "none"]

\* Faulty variant: the status of the execution is not looked at again.
CompleteOutdated(p) ==
  /\ rexec[p].pc = "stored"
  /\ report.status = "generating" /\ report.draft = rexec[p].draft /\ RHolds(p)
  /\ report' = ReadyReport
  /\ rjob' = Over(rjob, "succeeded", FALSE)
  /\ RStops(p)
  /\ UNCHANGED <<rmessage, artifacts, faults>>

\* Faulty variant: the objects are compensated after a commit, too.
CompleteAndUndo(p) ==
  /\ rexec[p].pc = "stored"
  /\ Completable(p) /\ RHolds(p)
  /\ report' = ReadyReport
  /\ rjob' = Over(rjob, "succeeded", FALSE)
  /\ RStops(p) \/ Undoes(p, Artifacts, "TRANSIENT")
  /\ UNCHANGED <<rmessage, artifacts, faults>>

\* _complete.  When its reply is lost the executor compensates.
CompleteReport(p) ==
  /\ rexec[p].pc = "stored"
  /\ Completable(p) /\ RHolds(p)
  /\ report' = ReadyReport
  /\ rjob' = Over(rjob, "succeeded", FALSE)
  /\ \/ RStops(p)
     \/ "lost_reply" \in faults /\ Undoes(p, Artifacts, "TRANSIENT")
  /\ UNCHANGED <<rmessage, artifacts, faults>>

\* _complete is rolled back: the facts or the draft are not those rendered, the
\* claim is fenced off, or the database fails.
CompletionFails(p) ==
  /\ rexec[p].pc = "stored"
  /\ \/ ~Completable(p) /\ Undoes(p, Artifacts, "INVALID")
     \/ Completable(p) /\ ~RHolds(p) /\ Undoes(p, Artifacts, "FENCED")
     \/ Undoes(p, Artifacts, "TRANSIENT")
  /\ UNCHANGED <<report, rjob, rmessage, artifacts, faults>>

\* _compensate deletes one object after the other, the last put first; a
\* failure of the store turns the reported code to unknown.
UndoOne(p) ==
  /\ rexec[p].pc = "undoing" /\ rexec[p].todo # {}
  /\ LET object == IF "xlsx" \in rexec[p].todo THEN "xlsx" ELSE "pdf" IN
       \/ /\ artifacts' = artifacts \ {object}
          /\ rexec' = [rexec EXCEPT ![p].todo = @ \ {object}]
       \/ /\ artifacts' \in {artifacts, artifacts \ {object}}
          /\ rexec' = [rexec EXCEPT ![p].todo = @ \ {object},
                                    ![p].code = IF @ = "FENCED" THEN @ ELSE "UNKNOWN"]
  /\ UNCHANGED <<report, rjob, rmessage, faults>>

Undone(p) ==
  /\ rexec[p].pc = "undoing" /\ rexec[p].todo = {}
  /\ IF rexec[p].code = "FENCED" THEN RStops(p) ELSE RGoes(p, "failing")
  /\ UNCHANGED <<report, rjob, rmessage, artifacts, faults>>

\* _fail while the report is generated: only what is transient is retried.
FailReport(p) ==
  /\ rexec[p].pc = "failing"
  /\ report.status = "generating" /\ RHolds(p)
  /\ report' = [report EXCEPT !.status = "failed", !.failure = rexec[p].code]
  /\ rjob' = Over(rjob, "failed",
                  rexec[p].code = "TRANSIENT" /\ rjob.attempt < ReportAttempts)
  /\ RStops(p)
  /\ UNCHANGED <<rmessage, artifacts, faults>>

\* _fail once somebody else has failed the report.
AdoptReportCancel(p) ==
  /\ rexec[p].pc = "failing"
  /\ report.status = "failed"
  /\ MayAdoptCancel(rjob, rexec[p].attempt)
  /\ rjob' = Over(rjob, "cancelled", FALSE)
  /\ RStops(p)
  /\ UNCHANGED <<report, rmessage, artifacts, faults>>

\* _fail finds the report over, or is fenced off.
StopStale(p) ==
  /\ rexec[p].pc = "failing"
  /\ ~(report.status = "generating" /\ RHolds(p))
  /\ ~(report.status = "failed" /\ MayAdoptCancel(rjob, rexec[p].attempt))
  /\ RStops(p)
  /\ UNCHANGED <<report, rjob, rmessage, artifacts, faults>>

-----------------------------------------------------------------------------
(*************************** Environment **********************************)

CrashReport(p) ==
  /\ "crash" \in faults
  /\ rexec[p] # RIdle
  /\ RStops(p)
  /\ UNCHANGED <<report, rjob, rmessage, artifacts, faults>>

ReportAlive == \E p \in Procs : rexec[p] # RIdle /\ rexec[p].attempt = rjob.attempt

ReportLeaseExpires ==
  /\ rjob.status = "running" /\ rjob.lease = "live"
  /\ "stall" \in faults \/ ~ReportAlive
  /\ rjob' = Expired(rjob)
  /\ UNCHANGED <<report, rmessage, rexec, artifacts, faults>>

\* The execution becomes outdated in create_execution: the trigger outdates a
\* ready report, and nothing else is done.
OutdateReadyReport ==
  /\ report' = IF report.status = "ready" THEN [report EXCEPT !.status = "outdated"]
                                          ELSE report
  /\ UNCHANGED <<rjob, rmessage, rexec, artifacts, faults>>

\* The execution becomes outdated in _outdate_current_executions: the report
\* that waits or is generated fails, its job is cancelled.
OutdateReport ==
  /\ report' = CASE report.status = "ready" -> [report EXCEPT !.status = "outdated"]
                 [] report.status \in {"queued", "generating"} ->
                      [report EXCEPT !.status = "failed", !.failure = "OUTDATED"]
                 [] OTHER -> report
  /\ rjob' = CancelAsked(rjob)
  /\ UNCHANGED <<rmessage, rexec, artifacts, faults>>

-----------------------------------------------------------------------------
ReportInit ==
  /\ report = NoReport
  /\ rjob = NoJob
  /\ rmessage = FALSE
  /\ rexec = [p \in Procs |-> RIdle]
  /\ artifacts = {}
  /\ faults \in {{}, {"crash"}, AllFaults}

ReportExecutorNext(p) ==
  \/ PreflightReport(p) \/ SettleDraft(p) \/ DraftFails(p)
  \/ StorePdf(p) \/ StoreXlsx(p) \/ CompleteReport(p) \/ CompletionFails(p)
  \/ UndoOne(p) \/ Undone(p)
  \/ FailReport(p) \/ AdoptReportCancel(p) \/ StopStale(p)

ReportDelivery ==
  RefuseReportMessage \/ ReportDispatchDies \/ \E w \in Workers : ClaimReport(w)

ReportNext ==
  \/ ReportDelivery \/ RequeueReport \/ GiveUpReport
  \/ ReportLeaseExpires
  \/ \E p \in Procs : ReportExecutorNext(p) \/ CrashReport(p)
=============================================================================
