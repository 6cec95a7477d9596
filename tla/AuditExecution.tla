--------------------------- MODULE AuditExecution ---------------------------
(***************************************************************************)
(* One audit execution: the audit_task_executions row with its snapshot,   *)
(* the rule results, the risks, the job audit_execute and its executors    *)
(* (services/audit_job_executor.py), the reviewers and the users who edit, *)
(* cancel and audit again (services/audit_management.py).  Every action is *)
(* one transaction or one process event.  An execution that is superseded  *)
(* is closed, so one execution is enough: its successor is another         *)
(* instance of this module.                                                *)
(*                                                                         *)
(* retry_execution and requeue_failed_audit_job ask for a retryable        *)
(* execution, and every caller of _fail passes retryable=False: no state   *)
(* of the program lets them act and they have no action here.              *)
(***************************************************************************)
EXTENDS LeasedJob

CONSTANTS
  Risks,        \* the risks that the rules of the catalog may raise
  HighRisks,    \* those whose rule has the default level high
  Users,        \* people who may review in either lane
  Nobody,       \* a reviewer column that is NULL
  AuditAttempts,\* async_jobs.max_attempts (3 in the audit handler registry)
  MaxFacts      \* bound on the versions of the financial facts

ASSUME AuditExecutionAssumption ==
  /\ HighRisks \subseteq Risks
  /\ Nobody \notin Users
  /\ AuditAttempts \in Nat \ {0}
  /\ MaxFacts \in Nat \ {0}

VARIABLES
  execution,    \* the execution row, its snapshot and the rule results
  risks,        \* the audit_risks rows
  facts,        \* the current version of the invoices and contracts
  ajob,         \* the job audit_execute
  amessage,     \* a message for the queued attempt is, or will be, at a worker
  aexec         \* what each executor does, and for which attempt

avars == <<execution, risks, facts, ajob, amessage, aexec>>

Lifecycle ==
  INSTANCE AuditLifecycle WITH
    Risks <- Risks, HighRisks <- HighRisks, Nobody <- Nobody,
    execution <- execution, risks <- risks

Levels == {"low", "high"}        \* low: every level below high

ExecutionRecord ==
  [status : {"absent", "queued", "running", "pending_finance_review",
             "pending_audit_review", "returned_for_correction", "completed",
             "failed", "cancelled", "outdated"},
   finance : Users \cup {Nobody}, auditor : Users \cup {Nobody},
   snapshot : 0..MaxFacts, evaluations : Nat]

RiskRecord ==
  [effective : Levels \cup {"none"}, review : {"absent", "pending", "reviewed"},
   by : Users \cup {Nobody}]

NoRisk     == [effective |-> "none", review |-> "absent", by |-> Nobody]
Default(r) == IF r \in HighRisks THEN "high" ELSE "low"

AuditExec ==
  [pc : {"idle", "claimed", "evaluating", "failing", "cancelling"},
   attempt : 0..AuditAttempts]
AIdle == [pc |-> "idle", attempt |-> 0]

Closed    == {"returned_for_correction", "cancelled", "outdated"}
ResultsIn == {"pending_finance_review", "pending_audit_review",
              "returned_for_correction", "completed"}
Withdrawn == execution.status \in {"cancelled", "outdated"}

\* The statuses that _outdate_current_executions ends.
Outdatable ==
  {"queued", "running", "pending_finance_review", "pending_audit_review",
   "failed", "completed"}

AHolds(p)    == HoldsLease(ajob, aexec[p].attempt)
AGoes(p, pc) == aexec' = [aexec EXCEPT ![p].pc = pc]
AStops(p)    == aexec' = [aexec EXCEPT ![p] = AIdle]
AStarts(p)   ==
  aexec' = [aexec EXCEPT ![p] = [pc |-> "claimed", attempt |-> ajob.attempt + 1]]
Becomes(status) == execution' = [execution EXCEPT !.status = status]

-----------------------------------------------------------------------------
(************************ Creation and delivery ***************************)

\* create_task: freeze the facts, insert execution, job and outbox event.
CreateTask ==
  /\ execution.status = "absent"
  /\ execution' = [execution EXCEPT !.status = "queued", !.snapshot = facts]
  /\ ajob' = NewJob
  /\ amessage' = TRUE
  /\ UNCHANGED <<risks, facts, aexec>>

ClaimAudit(w) ==
  /\ aexec[w] = AIdle
  /\ amessage /\ ajob.status = "queued" /\ execution.status = "queued"
  /\ Becomes("running")
  /\ ajob' = Started(ajob)
  /\ AStarts(w)
  /\ amessage' = FALSE
  /\ UNCHANGED <<risks, facts>>

\* claim_job returns None, and the message is consumed.
RefuseAuditMessage ==
  /\ amessage
  /\ ~(ajob.status = "queued" /\ execution.status = "queued")
  /\ amessage' = FALSE
  /\ UNCHANGED <<execution, risks, facts, ajob, aexec>>

\* mark_outbox_failure, dead letter: the execution is not touched.
AuditDispatchDies ==
  /\ amessage /\ ajob.status = "queued"
  /\ ajob' = Over(ajob, "failed", FALSE)
  /\ amessage' = FALSE
  /\ UNCHANGED <<execution, risks, facts, aexec>>

-----------------------------------------------------------------------------
(***************************** Execution **********************************)

\* _preflight; the explanations are generated after it, outside a transaction.
PreflightAudit(p) ==
  /\ aexec[p].pc = "claimed"
  /\ \/ Withdrawn /\ AGoes(p, "cancelling")
     \/ /\ execution.status = "running"
        /\ AGoes(p, "evaluating") \/ AGoes(p, "failing")
     \/ ~Withdrawn /\ execution.status # "running" /\ AStops(p)
  /\ UNCHANGED <<execution, risks, facts, ajob, amessage>>

Raised(some) ==
  [r \in Risks |->
     IF r \in some THEN [effective |-> Default(r), review |-> "pending", by |-> Nobody]
                   ELSE NoRisk]

Evaluated ==
  [execution EXCEPT !.status = "pending_finance_review", !.evaluations = @ + 1]

\* _complete: the results of the rules on the snapshot, the risks, the status
\* and finish_job.  When its reply is lost the executor goes on to fail.
CompleteAudit(p) ==
  /\ aexec[p].pc = "evaluating"
  /\ execution.status = "running" /\ AHolds(p)
  /\ execution' = Evaluated
  /\ \E some \in SUBSET Risks : risks' = Raised(some)
  /\ ajob' = Over(ajob, "succeeded", FALSE)
  /\ AStops(p) \/ AGoes(p, "failing")
  /\ UNCHANGED <<facts, amessage>>

\* An exception between the preflight and the end of _complete.
AuditFails(p) ==
  /\ aexec[p].pc = "evaluating"
  /\ AGoes(p, "failing")
  /\ UNCHANGED <<execution, risks, facts, ajob, amessage>>

\* _fail.
FailAudit(p) ==
  /\ aexec[p].pc = "failing"
  /\ execution.status = "running" /\ AHolds(p)
  /\ Becomes("failed")
  /\ ajob' = Over(ajob, "failed", FALSE)
  /\ AStops(p)
  /\ UNCHANGED <<risks, facts, amessage>>

\* finish_cancel_requested, in _complete, _fail and _cancel.
AdoptAuditCancel(p) ==
  /\ aexec[p].pc \in {"evaluating", "failing", "cancelling"}
  /\ Withdrawn
  /\ MayAdoptCancel(ajob, aexec[p].attempt)
  /\ ajob' = Over(ajob, "cancelled", FALSE)
  /\ AStops(p)
  /\ UNCHANGED <<execution, risks, facts, amessage>>

\* The executor dies, or stops: stale, or rejected by a fencing condition.
DropAudit(p) ==
  /\ aexec[p] # AIdle
  /\ AStops(p)
  /\ UNCHANGED <<execution, risks, facts, ajob, amessage>>

-----------------------------------------------------------------------------
(***************************** Recovery ***********************************)

\* Faulty variant: a job without attempts left is no candidate.
AuditRecoverableOnce ==
  Lost(ajob) /\ execution.status = "running" /\ ajob.attempt < AuditAttempts

AuditRecoverable == Lost(ajob) /\ execution.status = "running"

TakeOverAudit ==
  /\ aexec[Maintenance] = AIdle
  /\ AuditRecoverable /\ ajob.attempt < AuditAttempts
  /\ ajob' = Started(ajob)
  /\ AStarts(Maintenance)
  /\ UNCHANGED <<execution, risks, facts, amessage>>

GiveUpAudit ==
  /\ AuditRecoverable /\ ajob.attempt = AuditAttempts
  /\ Becomes("failed")
  /\ ajob' = Over(ajob, "failed", FALSE)
  /\ UNCHANGED <<risks, facts, amessage, aexec>>

\* Nothing renews the lease of an audit job, however long its executor takes.
AuditLeaseExpires ==
  /\ ajob.status = "running" /\ ajob.lease = "live"
  /\ ajob' = Expired(ajob)
  /\ UNCHANGED <<execution, risks, facts, amessage, aexec>>

-----------------------------------------------------------------------------
(****************************** Reviews ***********************************)

Pending(level) ==
  \E r \in Risks : risks[r].review = "pending" /\ risks[r].effective = level

Reviewed(r, level, user) ==
  risks' = [risks EXCEPT ![r] = [effective |-> level, review |-> "reviewed",
                                 by |-> user]]

\* review_risk in the lane of the risk: finance decides what is not high and
\* leaves it so, somebody else decides what is high.
ReviewRisk(r, user) ==
  /\ risks[r].review = "pending"
  /\ \/ /\ risks[r].effective # "high" /\ execution.status = "pending_finance_review"
        /\ Reviewed(r, "low", user)
     \/ /\ risks[r].effective = "high" /\ execution.status = "pending_audit_review"
        /\ user # execution.finance
        /\ \E level \in Levels : Reviewed(r, level, user)
  /\ UNCHANGED <<execution, facts, ajob, amessage, aexec>>

\* finance_review, after every risk that is not high has been decided.
FinanceReview(user) ==
  /\ execution.status = "pending_finance_review"
  /\ ~Pending("low")
  /\ \E status \in {"returned_for_correction",
                    IF Pending("high") THEN "pending_audit_review" ELSE "completed"} :
       execution' = [execution EXCEPT !.status = status, !.finance = user]
  /\ UNCHANGED <<risks, facts, ajob, amessage, aexec>>

\* Faulty variant: high risks may be left undecided.
AuditReviewWithPending(user) ==
  /\ execution.status = "pending_audit_review"
  /\ user # execution.finance
  /\ \E status \in {"returned_for_correction", "completed"} :
       execution' = [execution EXCEPT !.status = status, !.auditor = user]
  /\ UNCHANGED <<risks, facts, ajob, amessage, aexec>>

\* audit_review: a return at any time, a completion with nothing undecided.
AuditReview(user) ==
  /\ execution.status = "pending_audit_review"
  /\ user # execution.finance
  /\ \E status \in {"returned_for_correction", "completed"} :
       /\ status = "completed" => ~Pending("high") /\ ~Pending("low")
       /\ execution' = [execution EXCEPT !.status = status, !.auditor = user]
  /\ UNCHANGED <<risks, facts, ajob, amessage, aexec>>

-----------------------------------------------------------------------------
(************************* Withdrawal and re-audit ************************)

\* The job status that cancel_execution expects beside that of the execution.
ExpectedJob ==
  CASE execution.status = "queued"  -> "queued"
    [] execution.status = "running" -> "running"
    [] OTHER                        -> "succeeded"

CancelExecution ==
  /\ execution.status \in {"queued", "running", "pending_finance_review",
                           "pending_audit_review"}
  /\ ajob.status = ExpectedJob
  /\ Becomes("cancelled")
  /\ ajob' = CancelAsked(ajob)
  /\ UNCHANGED <<risks, facts, amessage, aexec>>

\* A confirmed invoice, a contract or a link that the audit rests on is edited;
\* the transaction ends the execution of the facts that were.
EditFacts ==
  /\ facts < MaxFacts
  /\ facts' = facts + 1
  /\ IF execution.status \in Outdatable
       THEN Becomes("outdated") /\ ajob' = CancelAsked(ajob)
       ELSE UNCHANGED <<execution, ajob>>
  /\ UNCHANGED <<risks, amessage, aexec>>

\* create_execution: a completed or failed execution becomes outdated, a closed
\* one stays, and any other refuses.
ReAudit ==
  /\ execution.status \in {"completed", "failed"}
  /\ Becomes("outdated")
  /\ UNCHANGED <<risks, facts, ajob, amessage, aexec>>

-----------------------------------------------------------------------------
AuditInit ==
  /\ execution = [status |-> "absent", finance |-> Nobody, auditor |-> Nobody,
                  snapshot |-> 0, evaluations |-> 0]
  /\ risks = [r \in Risks |-> NoRisk]
  /\ facts = 1
  /\ ajob = NoJob
  /\ amessage = FALSE
  /\ aexec = [p \in Procs |-> AIdle]

AuditExecutorNext(p) ==
  \/ PreflightAudit(p) \/ CompleteAudit(p) \/ AuditFails(p) \/ FailAudit(p)
  \/ AdoptAuditCancel(p) \/ DropAudit(p)

AuditDelivery == RefuseAuditMessage \/ AuditDispatchDies \/ \E w \in Workers : ClaimAudit(w)

\* The steps that neither complete nor outdate the execution.
AuditJobNext ==
  \/ CreateTask \/ AuditDelivery \/ GiveUpAudit \/ AuditLeaseExpires \/ CancelExecution
  \/ \E p \in Procs : AuditExecutorNext(p)
  \/ \E r \in Risks, user \in Users : ReviewRisk(r, user)

Decide == \E user \in Users : FinanceReview(user) \/ AuditReview(user)

AuditNext == AuditJobNext \/ TakeOverAudit \/ Decide \/ EditFacts \/ ReAudit

AuditSpec == AuditInit /\ [][AuditNext]_avars

(***************************************************************************)
(* Fairness.  A message is delivered or its event dies, the maintenance    *)
(* loop comes back to every candidate, an executor goes on until it stops, *)
(* leases run out.  Nothing is assumed of crashes, failures or users.      *)
(***************************************************************************)
AuditFairSpec ==
  /\ AuditSpec
  /\ WF_avars(AuditDelivery)
  /\ WF_avars(TakeOverAudit \/ GiveUpAudit)
  /\ WF_avars(AuditLeaseExpires)
  /\ \A p \in Procs : WF_avars(AuditExecutorNext(p))

-----------------------------------------------------------------------------
(***************************** Properties *********************************)

\* Every variable stays within the values its columns and records allow.
AuditTypeOK ==
  /\ execution \in ExecutionRecord
  /\ risks \in [Risks -> RiskRecord]
  /\ facts \in 1..MaxFacts
  /\ ajob \in JobRecord(AuditAttempts) /\ amessage \in BOOLEAN
  /\ aexec \in [Procs -> AuditExec]

\* The execution and its job tell the same story, whoever wrote last: worker,
\* maintenance, reviewer, canceller or editor.  (A dead-lettered dispatch fails
\* the job of an execution that stays queued.)
ExecutionAgreesWithJob ==
  /\ ajob.status = "queued" => execution.status = "queued"
  /\ ajob.status = "running" <=> execution.status = "running"
  /\ execution.status = "queued" => ajob.status \in {"queued", "failed"}
  /\ execution.status = "failed" => ajob.status = "failed"
  /\ execution.status \in ResultsIn => ajob.status = "succeeded"

\* However many attempts evaluate the rules, late or in parallel, the results
\* are written once, and the execution is reviewed only with them.
OneEvaluation ==
  /\ execution.evaluations <= 1
  /\ execution.status \in ResultsIn => execution.evaluations = 1

\* TECHNICAL_SPEC 11.6: a late worker does not get past a cancellation or an
\* outdating; what is closed keeps its verdicts and its risks.
ClosedIsFrozen ==
  [][execution.status \in Closed => UNCHANGED <<execution, risks>>]_avars

\* No execution is waited for, reviewed or relied on whose snapshot is not of
\* the current facts.
CurrentFacts ==
  execution.status \notin Closed \cup {"absent"} => execution.snapshot = facts

\* Two persons stand behind a completed execution with a high risk, and the
\* high risk itself was not decided by the finance reviewer.
ReviewersSeparated ==
  execution.status = "completed" =>
    \A r \in HighRisks : risks[r].review # "absent" =>
      /\ risks[r].review = "reviewed"
      /\ risks[r].by # execution.finance
      /\ execution.auditor \notin {Nobody, execution.finance}

\* An execution does not wait for its evaluation for ever (unless the dispatch
\* of its job was dead-lettered), nor is it evaluated for ever.
EvaluationSettles ==
  execution.status \in {"queued", "running"} ~>
    execution.status \notin {"queued", "running"} \/ ajob.status = "failed"

\* Every write to the execution and to its risks satisfies the triggers: no
\* transaction of a handler or a service is ever refused by them.
ImplementsAuditLifecycle == Lifecycle!Spec

\* Every write to the job audit_execute is one its trigger accepts.
AuditRow == INSTANCE JobRowLifecycle WITH MaxAttempts <- AuditAttempts, row <- ajob
ImplementsAuditRow == AuditRow!Spec
=============================================================================
