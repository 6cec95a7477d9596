------------------------- MODULE AuditClusterProofs -------------------------
(***************************************************************************)
(* Safety of an audit execution, and of the execution together with its    *)
(* report, for any risks, users, workers, attempts, edits of the facts and *)
(* faults.  The first part is about AuditExecution alone: its invariants   *)
(* and the refinement of AuditLifecycle.  The second is about AuditCluster *)
(* and begins with ClusterRunsAudit, by which the first part holds of the  *)
(* composition; then the report agrees with its job and its execution, its *)
(* artifacts are kept or removed with it, and every write to it and to the *)
(* two jobs is one the triggers accept.                                    *)
(***************************************************************************)
EXTENDS AuditCluster, TLAPS

InReview    == {"pending_finance_review", "pending_audit_review"}
Unevaluated == {"absent", "queued", "running"}

(***************************************************************************)
(* The inductive invariant: the types; the job follows the execution, and  *)
(* begins its attempts at one; results exist once the execution has been   *)
(* evaluated and not before; the snapshot is current; and what each stage  *)
(* of the reviews knows of the risks.                                      *)
(***************************************************************************)
JobMatches ==
  ExecutionAgreesWithJob /\ (ajob.status = "queued" => ajob.attempt = 0)

ResultsMatch ==
  OneEvaluation /\ (execution.status \in Unevaluated => execution.evaluations = 0)

\* Before the evaluation there is no risk; a pending one has the level of its
\* rule; finance has decided no high risk, and signs before the auditor does.
RisksMatch ==
  /\ execution.status \in Unevaluated => risks = [r \in Risks |-> NoRisk]
  /\ execution.status \in Unevaluated \cup {"pending_finance_review"} =>
       execution.finance = Nobody
  /\ \A r \in Risks : risks[r].review = "pending" => risks[r].effective = Default(r)
  /\ execution.status = "pending_finance_review" =>
       \A r \in HighRisks : risks[r].review # "reviewed"
  /\ execution.status \in {"pending_audit_review", "completed"} =>
       /\ execution.finance # Nobody
       /\ \A r \in HighRisks :
            risks[r].review = "reviewed" => risks[r].by # execution.finance
  /\ execution.status = "completed" =>
       \A r \in Risks : risks[r].review # "pending"

AuditInv ==
  /\ AuditTypeOK /\ JobMatches /\ ResultsMatch /\ CurrentFacts
  /\ RisksMatch /\ ReviewersSeparated

-----------------------------------------------------------------------------
USE AuditExecutionAssumption, LeasedJobAssumption

\* The job that does not exist and the one just inserted.
LEMMA NoJobTypes ==
  NoJob \in JobRecord(AuditAttempts) /\ NewJob \in JobRecord(AuditAttempts)
<1>1. 0 \in 0..AuditAttempts
  OBVIOUS
<1>2. NoJob \in JobRecord(AuditAttempts)
  BY <1>1 DEF NoJob, JobRecord
<1>3. QED
  BY <1>1, <1>2 DEF NoJob, NewJob, JobRecord

\* Initially nothing exists.
LEMMA AuditInitially == AuditInit => AuditInv
<1> SUFFICES ASSUME AuditInit PROVE AuditInv
  OBVIOUS
<1>1. AuditTypeOK
  <2>1. 0 \in 0..AuditAttempts /\ 0 \in 0..MaxFacts /\ 1 \in 1..MaxFacts
    OBVIOUS
  <2>2. execution \in ExecutionRecord /\ risks \in [Risks -> RiskRecord]
    BY <2>1 DEF AuditInit, ExecutionRecord, RiskRecord, NoRisk
  <2>3. ajob \in JobRecord(AuditAttempts)
    BY NoJobTypes DEF AuditInit
  <2>4. AIdle \in AuditExec
    BY <2>1 DEF AuditExec, AIdle
  <2>5. QED
    BY <2>1, <2>2, <2>3, <2>4 DEF AuditInit, AuditTypeOK
<1>2. JobMatches /\ ResultsMatch /\ CurrentFacts
  BY DEF AuditInit, JobMatches, ExecutionAgreesWithJob, ResultsMatch,
     OneEvaluation, CurrentFacts, Closed, ResultsIn, Unevaluated, NoJob
<1>3. RisksMatch /\ ReviewersSeparated
  BY DEF AuditInit, RisksMatch, ReviewersSeparated, Unevaluated, NoRisk
<1>4. QED
  BY <1>1, <1>2, <1>3 DEF AuditInv

\* What the updates of LeasedJob leave of the record's type.
LEMMA JobUpdateTypes ==
  ASSUME NEW job \in JobRecord(AuditAttempts)
  PROVE  /\ job.attempt < AuditAttempts => Started(job) \in JobRecord(AuditAttempts)
         /\ \A status \in {"succeeded", "failed", "cancelled"} :
              Over(job, status, FALSE) \in JobRecord(AuditAttempts)
         /\ Expired(job) \in JobRecord(AuditAttempts)
         /\ CancelAsked(job) \in JobRecord(AuditAttempts)
<1> USE DEF JobRecord
<1>1. ASSUME NEW status \in {"succeeded", "failed", "cancelled"}
      PROVE  Over(job, status, FALSE) \in JobRecord(AuditAttempts)
  BY DEF Over
<1>2. ASSUME job.attempt < AuditAttempts
      PROVE  Started(job) \in JobRecord(AuditAttempts)
  <2>1. job.attempt + 1 \in 0..AuditAttempts
    BY <1>2
  <2>2. QED
    BY <2>1 DEF Started
<1>3. Expired(job) \in JobRecord(AuditAttempts)
  BY DEF Expired
<1>4. CancelAsked(job) \in JobRecord(AuditAttempts)
  BY <1>1 DEF CancelAsked
<1>5. QED
  BY <1>1, <1>2, <1>3, <1>4

\* What the updates of LeasedJob write.
LEMMA JobUpdateFields ==
  ASSUME NEW job \in JobRecord(AuditAttempts)
  PROVE  /\ Started(job).status = "running"
         /\ Over(job, "succeeded", FALSE).status = "succeeded"
         /\ Over(job, "failed", FALSE).status = "failed"
         /\ Over(job, "cancelled", FALSE).status = "cancelled"
         /\ Expired(job).status = job.status /\ Expired(job).attempt = job.attempt
         /\ CancelAsked(job).status \notin {"queued", "running"}
BY DEF JobRecord, Started, Over, Expired, CancelAsked

-----------------------------------------------------------------------------
(****************************** Types *************************************)

\* Every action keeps the types.
LEMMA TypesKept == AuditInv /\ AuditNext => AuditTypeOK'
<1> SUFFICES ASSUME AuditInv, AuditNext PROVE AuditTypeOK'
  OBVIOUS
<1> USE DEF AuditInv, AuditTypeOK
<1>1. \A p \in Procs :
        /\ \A pc \in {"evaluating", "failing", "cancelling"} :
             AGoes(p, pc) => aexec' \in [Procs -> AuditExec]
        /\ AStops(p) => aexec' \in [Procs -> AuditExec]
  BY DEF AGoes, AStops, AuditExec, AIdle
<1>2. ASSUME NEW p \in Procs, AStarts(p), ajob.attempt < AuditAttempts
      PROVE  aexec' \in [Procs -> AuditExec]
  <2>1. ajob.attempt + 1 \in 0..AuditAttempts
    BY <1>2 DEF JobRecord
  <2>2. QED
    BY <1>2, <2>1 DEF AStarts, AuditExec
<1>3. ASSUME NEW status \in {"running", "failed", "cancelled", "outdated"},
             Becomes(status)
      PROVE  execution' \in ExecutionRecord
  BY <1>3 DEF Becomes, ExecutionRecord
<1>4. ASSUME NEW r \in Risks, NEW level \in Levels, NEW user \in Users,
             Reviewed(r, level, user)
      PROVE  risks' \in [Risks -> RiskRecord]
  BY <1>4 DEF Reviewed, RiskRecord
<1>5. CASE CreateTask
  <2>1. facts \in 0..MaxFacts
    OBVIOUS
  <2>2. execution' \in ExecutionRecord
    BY <1>5, <2>1 DEF CreateTask, ExecutionRecord
  <2>3. QED
    BY <1>5, <2>2, NoJobTypes DEF CreateTask
<1>6. CASE RefuseAuditMessage \/ AuditDispatchDies
  BY <1>6, JobUpdateTypes DEF RefuseAuditMessage, AuditDispatchDies
<1>7. ASSUME NEW w \in Workers, ClaimAudit(w) PROVE AuditTypeOK'
  <2>1. ajob.attempt < AuditAttempts
    BY <1>7 DEF ClaimAudit, JobMatches
  <2>2. QED
    BY <1>2, <1>3, <1>7, <2>1, JobUpdateTypes DEF ClaimAudit, Procs
<1>8. CASE GiveUpAudit
  BY <1>3, <1>8, JobUpdateTypes DEF GiveUpAudit
<1>9. CASE AuditLeaseExpires
  BY <1>9, JobUpdateTypes DEF AuditLeaseExpires
<1>10. CASE CancelExecution
  BY <1>3, <1>10, JobUpdateTypes DEF CancelExecution
<1>11. ASSUME NEW p \in Procs, PreflightAudit(p) \/ AuditFails(p) \/ DropAudit(p)
       PROVE  AuditTypeOK'
  BY <1>1, <1>11 DEF PreflightAudit, AuditFails, DropAudit
<1>12. ASSUME NEW p \in Procs, CompleteAudit(p) PROVE AuditTypeOK'
  <2>1. execution.evaluations + 1 \in Nat
    BY DEF ExecutionRecord
  <2>5. Evaluated \in ExecutionRecord
    BY <2>1 DEF Evaluated, ExecutionRecord
  <2>2. \A some \in SUBSET Risks : Raised(some) \in [Risks -> RiskRecord]
    BY DEF Raised, RiskRecord, NoRisk, Default, Levels
  <2>3. aexec' \in [Procs -> AuditExec]
    BY <1>1, <1>12 DEF CompleteAudit
  <2>4. QED
    BY <1>12, <2>2, <2>3, <2>5, JobUpdateTypes DEF CompleteAudit
<1>13. ASSUME NEW p \in Procs, FailAudit(p) \/ AdoptAuditCancel(p)
       PROVE  AuditTypeOK'
  BY <1>1, <1>3, <1>13, JobUpdateTypes DEF FailAudit, AdoptAuditCancel
<1>14. ASSUME NEW r \in Risks, NEW user \in Users, ReviewRisk(r, user)
       PROVE  AuditTypeOK'
  <2>1. \E level \in Levels : Reviewed(r, level, user)
    BY <1>14 DEF ReviewRisk, Levels
  <2>2. QED
    BY <1>4, <1>14, <2>1 DEF ReviewRisk
<1>15. CASE TakeOverAudit
  BY <1>2, <1>15, JobUpdateTypes DEF TakeOverAudit, Procs
<1>16. ASSUME NEW user \in Users, FinanceReview(user) \/ AuditReview(user)
       PROVE  AuditTypeOK'
  <2>1. execution' \in ExecutionRecord
    BY <1>16 DEF FinanceReview, AuditReview, ExecutionRecord
  <2>2. QED
    BY <1>16, <2>1 DEF FinanceReview, AuditReview
<1>17. CASE EditFacts
  <2>1. facts' \in 1..MaxFacts
    BY <1>17 DEF EditFacts
  <2>2. execution' \in ExecutionRecord /\ ajob' \in JobRecord(AuditAttempts)
    BY <1>3, <1>17, JobUpdateTypes DEF EditFacts
  <2>3. QED
    BY <1>17, <2>1, <2>2 DEF EditFacts
<1>18. CASE ReAudit
  BY <1>3, <1>18 DEF ReAudit
<1>19. QED
  BY <1>5, <1>6, <1>7, <1>8, <1>9, <1>10, <1>11, <1>12, <1>13, <1>14, <1>15,
     <1>16, <1>17, <1>18
     DEF AuditNext, AuditJobNext, AuditDelivery, AuditExecutorNext, Decide

-----------------------------------------------------------------------------
(************************ Job, results and facts **************************)

\* The steps of an executor and of the broker that only they remember.
Silent(p) == PreflightAudit(p) \/ AuditFails(p) \/ DropAudit(p)

\* Every action keeps the job beside the execution.
LEMMA JobKept == AuditInv /\ AuditNext => JobMatches'
<1> SUFFICES ASSUME AuditInv, AuditNext PROVE JobMatches'
  OBVIOUS
<1>0. ajob \in JobRecord(AuditAttempts) /\ execution \in ExecutionRecord
  BY DEF AuditInv, AuditTypeOK
<1> USE DEF JobMatches, ExecutionAgreesWithJob, ResultsIn
<1>1. JobMatches
  BY DEF AuditInv
<1>2. ASSUME NEW status \in {"running", "failed", "cancelled", "outdated"},
             Becomes(status)
      PROVE  execution'.status = status
  BY <1>0, <1>2 DEF Becomes, ExecutionRecord
<1>3. CASE CreateTask
  <2>1. execution'.status = "queued" /\ ajob'.status = "queued" /\ ajob'.attempt = 0
    BY <1>0, <1>3 DEF CreateTask, ExecutionRecord, NewJob, NoJob
  <2>2. QED
    BY <2>1
<1>4. CASE RefuseAuditMessage
  BY <1>1, <1>4 DEF RefuseAuditMessage
<1>5. CASE AuditDispatchDies
  BY <1>0, <1>1, <1>5, JobUpdateFields DEF AuditDispatchDies
<1>6. ASSUME NEW w \in Workers, ClaimAudit(w) PROVE JobMatches'
  BY <1>0, <1>2, <1>6, JobUpdateFields DEF ClaimAudit
<1>7. CASE GiveUpAudit
  BY <1>0, <1>2, <1>7, JobUpdateFields DEF GiveUpAudit
<1>8. CASE AuditLeaseExpires
  BY <1>0, <1>1, <1>8, JobUpdateFields DEF AuditLeaseExpires
<1>9. CASE CancelExecution
  <2>1. execution'.status = "cancelled"
    BY <1>2, <1>9 DEF CancelExecution
  <2>2. ajob'.status \notin {"queued", "running"}
    BY <1>0, <1>9, JobUpdateFields DEF CancelExecution
  <2>3. QED
    BY <2>1, <2>2
<1>10. ASSUME NEW p \in Procs, Silent(p) PROVE JobMatches'
  BY <1>1, <1>10 DEF Silent, PreflightAudit, AuditFails, DropAudit
<1>11. ASSUME NEW p \in Procs, CompleteAudit(p) PROVE JobMatches'
  <2>1. execution'.status = "pending_finance_review" /\ ajob'.status = "succeeded"
    BY <1>0, <1>11, JobUpdateFields DEF CompleteAudit, Evaluated, ExecutionRecord
  <2>2. QED
    BY <2>1
<1>12. ASSUME NEW p \in Procs, FailAudit(p) PROVE JobMatches'
  BY <1>0, <1>2, <1>12, JobUpdateFields DEF FailAudit
<1>13. ASSUME NEW p \in Procs, AdoptAuditCancel(p) PROVE JobMatches'
  BY <1>0, <1>1, <1>13, JobUpdateFields DEF AdoptAuditCancel, Withdrawn
<1>14. ASSUME NEW r \in Risks, NEW user \in Users, ReviewRisk(r, user)
       PROVE  JobMatches'
  BY <1>1, <1>14 DEF ReviewRisk
<1>15. CASE TakeOverAudit
  BY <1>0, <1>1, <1>15, JobUpdateFields DEF TakeOverAudit, AuditRecoverable, Lost
<1>16. ASSUME NEW user \in Users, FinanceReview(user) \/ AuditReview(user)
       PROVE  JobMatches'
  <2>1. execution'.status \in ResultsIn /\ ajob' = ajob /\ ajob.status = "succeeded"
    BY <1>0, <1>1, <1>16 DEF FinanceReview, AuditReview, ExecutionRecord
  <2>2. QED
    BY <2>1
<1>17. CASE EditFacts
  <2>1. CASE execution.status \in Outdatable
    <3>1. execution'.status = "outdated" /\ ajob'.status \notin {"queued", "running"}
      BY <1>0, <1>2, <1>17, <2>1, JobUpdateFields DEF EditFacts
    <3>2. QED
      BY <3>1
  <2>2. CASE execution.status \notin Outdatable
    BY <1>1, <1>17, <2>2 DEF EditFacts
  <2>3. QED
    BY <2>1, <2>2
<1>18. CASE ReAudit
  BY <1>0, <1>1, <1>2, <1>18 DEF ReAudit
<1>19. QED
  BY <1>3, <1>4, <1>5, <1>6, <1>7, <1>8, <1>9, <1>10, <1>11, <1>12, <1>13,
     <1>14, <1>15, <1>16, <1>17, <1>18
     DEF AuditNext, AuditJobNext, AuditDelivery, AuditExecutorNext, Decide, Silent

\* What an action may do to the execution: nothing, an evaluation that runs, or
\* another status of a row that keeps its results and its snapshot.
LEMMA ExecutionUpdates ==
  ASSUME AuditInv, AuditNext
  PROVE  \/ execution' = execution
         \/ CreateTask
         \/ execution.status = "running" /\ execution' = Evaluated
         \/ /\ execution'.evaluations = execution.evaluations
            /\ execution'.snapshot = execution.snapshot
            /\ \/ execution.status = "queued" /\ execution'.status = "running"
               \/ execution.status = "running" /\ execution'.status = "failed"
               \/ execution'.status \in {"cancelled", "outdated"}
               \/ execution.status \in InReview /\ execution'.status \in ResultsIn
<1>0. execution \in ExecutionRecord
  BY DEF AuditInv, AuditTypeOK
<1>1. ASSUME NEW status \in {"running", "failed", "cancelled", "outdated"},
             Becomes(status)
      PROVE  /\ execution'.status = status
             /\ execution'.evaluations = execution.evaluations
             /\ execution'.snapshot = execution.snapshot
  BY <1>0, <1>1 DEF Becomes, ExecutionRecord
<1>2. ASSUME NEW user \in Users, FinanceReview(user) \/ AuditReview(user)
      PROVE  /\ execution.status \in InReview /\ execution'.status \in ResultsIn
             /\ execution'.evaluations = execution.evaluations
             /\ execution'.snapshot = execution.snapshot
  BY <1>0, <1>2 DEF FinanceReview, AuditReview, ExecutionRecord, ResultsIn, InReview
<1>3. QED
  BY <1>1, <1>2
     DEF AuditNext, AuditJobNext, AuditDelivery, AuditExecutorNext, Decide,
         RefuseAuditMessage, AuditDispatchDies, ClaimAudit, GiveUpAudit,
         AuditLeaseExpires, CancelExecution, PreflightAudit, CompleteAudit,
         AuditFails, FailAudit, AdoptAuditCancel, DropAudit, ReviewRisk,
         TakeOverAudit, EditFacts, ReAudit, AuditRecoverable

\* Every action keeps the results to one evaluation.
LEMMA ResultsKept == AuditInv /\ AuditNext => ResultsMatch'
<1> SUFFICES ASSUME AuditInv, AuditNext PROVE ResultsMatch'
  OBVIOUS
<1>1. execution \in ExecutionRecord /\ ResultsMatch
  BY DEF AuditInv, AuditTypeOK
<1>2. CASE CreateTask
  BY <1>1, <1>2 DEF CreateTask, ExecutionRecord, ResultsMatch, OneEvaluation,
     Unevaluated, ResultsIn
<1>3. CASE execution.status = "running" /\ execution' = Evaluated
  <2>1. /\ execution'.status = "pending_finance_review"
        /\ execution'.evaluations = execution.evaluations + 1
    BY <1>1, <1>3 DEF Evaluated, ExecutionRecord
  <2>2. QED
    BY <1>1, <1>3, <2>1 DEF ResultsMatch, OneEvaluation, Unevaluated
<1>4. QED
  BY <1>1, <1>2, <1>3, ExecutionUpdates
     DEF ResultsMatch, OneEvaluation, Unevaluated, ResultsIn, InReview

\* Every action keeps the snapshot of what is open current.
LEMMA FactsKept == AuditInv /\ AuditNext => CurrentFacts'
<1> SUFFICES ASSUME AuditInv, AuditNext PROVE CurrentFacts'
  OBVIOUS
<1>1. execution \in ExecutionRecord /\ CurrentFacts
  BY DEF AuditInv, AuditTypeOK
<1>2. CASE CreateTask
  BY <1>1, <1>2 DEF CreateTask, ExecutionRecord, CurrentFacts
<1>3. CASE EditFacts
  <2>1. execution'.status \in Closed \cup {"absent"}
    BY <1>1, <1>3 DEF EditFacts, Becomes, ExecutionRecord, Outdatable, Closed
  <2>2. QED
    BY <2>1 DEF CurrentFacts
<1>4. ASSUME ~EditFacts PROVE facts' = facts
  BY <1>4 DEF AuditNext, AuditJobNext, AuditDelivery, AuditExecutorNext, Decide,
     CreateTask, RefuseAuditMessage, AuditDispatchDies, ClaimAudit, GiveUpAudit,
     AuditLeaseExpires, CancelExecution, PreflightAudit, CompleteAudit,
     AuditFails, FailAudit, AdoptAuditCancel, DropAudit, ReviewRisk,
     TakeOverAudit, FinanceReview, AuditReview, ReAudit
<1>5. ASSUME ~EditFacts, ~CreateTask PROVE CurrentFacts'
  <2>1. execution.status \notin Closed \cup {"absent"} =>
          execution'.snapshot = execution.snapshot
    BY <1>1, ExecutionUpdates, <1>5 DEF Evaluated, ExecutionRecord, Closed, InReview
  <2>2. QED
    BY <1>1, <1>4, <1>5, <2>1, ExecutionUpdates
       DEF CurrentFacts, Closed, InReview, Evaluated, ExecutionRecord
<1>6. QED
  BY <1>2, <1>3, <1>5

-----------------------------------------------------------------------------
(****************************** Reviews ***********************************)

\* What an action may do to execution and risks.
LEMMA ReviewUpdates ==
  ASSUME AuditInv, AuditNext
  PROVE  \/ execution' = execution /\ risks' = risks
         \/ CreateTask
         \/ \E p \in Procs : CompleteAudit(p)
         \/ \E r \in Risks, user \in Users : ReviewRisk(r, user)
         \/ \E user \in Users : FinanceReview(user) \/ AuditReview(user)
         \/ /\ execution.status = "queued" /\ Becomes("running")
            /\ risks' = risks
         \/ /\ execution.status = "running" /\ Becomes("failed")
            /\ risks' = risks
         \/ /\ execution.status \in {"queued", "running", "pending_finance_review",
                                     "pending_audit_review"}
            /\ Becomes("cancelled")
            /\ risks' = risks
         \/ /\ execution.status \in Outdatable /\ Becomes("outdated")
            /\ risks' = risks
BY DEF AuditNext, AuditJobNext, AuditDelivery, AuditExecutorNext, Decide,
   RefuseAuditMessage, AuditDispatchDies, ClaimAudit, GiveUpAudit,
   AuditLeaseExpires, CancelExecution, PreflightAudit, AuditFails, FailAudit,
   AdoptAuditCancel, DropAudit, TakeOverAudit, AuditRecoverable, EditFacts,
   ReAudit, Outdatable

\* A decision on one risk writes that risk only.
LEMMA ReviewedFields ==
  ASSUME AuditTypeOK, NEW r \in Risks, NEW level, NEW user, Reviewed(r, level, user)
  PROVE  /\ risks'[r].review = "reviewed" /\ risks'[r].by = user
         /\ risks'[r].effective = level
         /\ \A other \in Risks \ {r} : risks'[other] = risks[other]
BY DEF Reviewed, AuditTypeOK

\* The risks that an evaluation raises.
LEMMA RaisedFields ==
  ASSUME NEW some \in SUBSET Risks, NEW r \in Risks
  PROVE  \/ Raised(some)[r] = NoRisk
         \/ /\ Raised(some)[r].review = "pending"
            /\ Raised(some)[r].effective = Default(r)
BY DEF Raised

\* Every action keeps what the stages of the reviews know of the risks.
LEMMA RisksKept == AuditInv /\ AuditNext => RisksMatch' /\ ReviewersSeparated'
<1> SUFFICES ASSUME AuditInv, AuditNext PROVE RisksMatch' /\ ReviewersSeparated'
  OBVIOUS
<1>1. /\ execution \in ExecutionRecord /\ AuditTypeOK
      /\ RisksMatch /\ ReviewersSeparated
  BY DEF AuditInv, AuditTypeOK
<1>2. CASE execution' = execution /\ risks' = risks
  BY <1>1, <1>2 DEF RisksMatch, ReviewersSeparated
<1>3. CASE CreateTask
  <2>1. /\ execution.status = "absent" /\ execution'.status = "queued"
        /\ execution'.finance = execution.finance /\ risks' = risks
    BY <1>1, <1>3 DEF CreateTask, ExecutionRecord
  <2>2. QED
    BY <1>1, <2>1 DEF RisksMatch, ReviewersSeparated, Unevaluated
<1>4. ASSUME NEW p \in Procs, CompleteAudit(p)
      PROVE  RisksMatch' /\ ReviewersSeparated'
  <2>1. PICK some \in SUBSET Risks : risks' = Raised(some)
    BY <1>4 DEF CompleteAudit
  <2>2. /\ execution.status = "running"
        /\ execution'.status = "pending_finance_review"
        /\ execution'.finance = execution.finance
    BY <1>1, <1>4 DEF CompleteAudit, Evaluated, ExecutionRecord
  <2>3. \A r \in Risks :
          risks'[r].review # "reviewed"
          /\ (risks'[r].review = "pending" => risks'[r].effective = Default(r))
    BY <2>1, RaisedFields DEF NoRisk
  <2>4. QED
    BY <1>1, <2>2, <2>3 DEF RisksMatch, ReviewersSeparated, Unevaluated
<1>5. ASSUME NEW r \in Risks, NEW user \in Users, ReviewRisk(r, user)
      PROVE  RisksMatch' /\ ReviewersSeparated'
  <2>1. execution' = execution /\ risks[r].review = "pending"
    BY <1>5 DEF ReviewRisk
  <2>2. /\ risks'[r].review = "reviewed" /\ risks'[r].by = user
        /\ \A other \in Risks \ {r} : risks'[other] = risks[other]
    BY <1>1, <1>5, ReviewedFields DEF ReviewRisk
  <2>3. \/ /\ execution.status = "pending_finance_review"
           /\ risks[r].effective # "high"
        \/ /\ execution.status = "pending_audit_review"
           /\ user # execution.finance
    BY <1>5 DEF ReviewRisk
  <2>4. execution.status = "pending_finance_review" => r \notin HighRisks
    BY <1>1, <2>1, <2>3 DEF RisksMatch, Default
  <2>5. execution.status \in InReview
    BY <2>3 DEF InReview
  <2>6. RisksMatch'
    BY <1>1, <2>1, <2>2, <2>3, <2>4, <2>5 DEF RisksMatch, InReview, Unevaluated
  <2>7. QED
    BY <2>1, <2>5, <2>6 DEF ReviewersSeparated, InReview
<1>6. ASSUME NEW user \in Users, FinanceReview(user)
      PROVE  RisksMatch' /\ ReviewersSeparated'
  <2>1. PICK status \in {"returned_for_correction",
                         IF Pending("high") THEN "pending_audit_review"
                                            ELSE "completed"} :
          execution' = [execution EXCEPT !.status = status, !.finance = user]
    BY <1>6 DEF FinanceReview
  <2>2. /\ execution'.status = status /\ execution'.finance = user
        /\ risks' = risks /\ execution.status = "pending_finance_review"
        /\ user # Nobody
    BY <1>1, <1>6, <2>1 DEF FinanceReview, ExecutionRecord
  <2>3. \A r \in HighRisks : risks[r].review # "reviewed"
    BY <1>1, <2>2 DEF RisksMatch
  <2>4. status = "completed" => \A r \in Risks : risks[r].review # "pending"
    <3>1. ASSUME status = "completed", NEW r \in Risks
          PROVE  risks[r].review # "pending"
      <4>1. ~Pending("high") /\ ~Pending("low")
        BY <1>6, <3>1 DEF FinanceReview
      <4>2. QED
        BY <1>1, <4>1 DEF Pending, RisksMatch, Default
    <3>2. QED
      BY <3>1
  <2>5. status = "completed" => \A r \in HighRisks : risks[r].review = "absent"
    BY <1>1, <2>3, <2>4 DEF AuditTypeOK, RiskRecord
  <2>6. RisksMatch'
    BY <1>1, <2>1, <2>2, <2>3, <2>4 DEF RisksMatch, Unevaluated
  <2>7. QED
    BY <2>2, <2>5, <2>6 DEF ReviewersSeparated
<1>7. ASSUME NEW user \in Users, AuditReview(user)
      PROVE  RisksMatch' /\ ReviewersSeparated'
  <2>1. PICK status \in {"returned_for_correction", "completed"} :
          /\ status = "completed" => ~Pending("high") /\ ~Pending("low")
          /\ execution' = [execution EXCEPT !.status = status, !.auditor = user]
    BY <1>7 DEF AuditReview
  <2>2. /\ execution'.status = status /\ execution'.auditor = user
        /\ execution'.finance = execution.finance
        /\ risks' = risks /\ execution.status = "pending_audit_review"
        /\ user # Nobody /\ user # execution.finance
    BY <1>1, <1>7, <2>1 DEF AuditReview, ExecutionRecord
  <2>3. status = "completed" => \A r \in Risks : risks[r].review # "pending"
    BY <1>1, <2>1 DEF Pending, RisksMatch, Default
  <2>4. /\ execution.finance # Nobody
        /\ \A r \in HighRisks :
             risks[r].review = "reviewed" => risks[r].by # execution.finance
    BY <1>1, <2>2 DEF RisksMatch
  <2>5. RisksMatch'
    BY <1>1, <2>1, <2>2, <2>3, <2>4 DEF RisksMatch, Unevaluated
  <2>6. \A r \in HighRisks : risks[r].review \in {"absent", "pending", "reviewed"}
    BY <1>1 DEF AuditTypeOK, RiskRecord
  <2>7. QED
    BY <2>2, <2>3, <2>4, <2>5, <2>6 DEF ReviewersSeparated
<1>8. CASE execution.status = "queued" /\ Becomes("running") /\ risks' = risks
  <2>1. execution'.status = "running" /\ execution'.finance = execution.finance
    BY <1>1, <1>8 DEF Becomes, ExecutionRecord
  <2>2. QED
    BY <1>1, <1>8, <2>1 DEF RisksMatch, ReviewersSeparated, Unevaluated
<1>9. ASSUME NEW status \in {"failed", "cancelled", "outdated"}, Becomes(status),
             risks' = risks
      PROVE  RisksMatch' /\ ReviewersSeparated'
  <2>1. execution'.status = status
    BY <1>1, <1>9 DEF Becomes, ExecutionRecord
  <2>2. QED
    BY <1>1, <1>9, <2>1 DEF RisksMatch, ReviewersSeparated, Unevaluated
<1>10. QED
  BY <1>2, <1>3, <1>4, <1>5, <1>6, <1>7, <1>8, <1>9, ReviewUpdates

-----------------------------------------------------------------------------
\* The invariant holds in every behaviour, whatever its users and its faults.
THEOREM AuditCorrect == AuditSpec => []AuditInv
<1>1. AuditInv /\ UNCHANGED avars => AuditInv'
  BY DEF AuditInv, AuditTypeOK, JobMatches, ExecutionAgreesWithJob, ResultsMatch,
     OneEvaluation, CurrentFacts, RisksMatch, ReviewersSeparated, avars
<1>2. AuditInv /\ AuditNext => AuditInv'
  BY TypesKept, JobKept, ResultsKept, FactsKept, RisksKept DEF AuditInv
<1>3. QED
  BY <1>1, <1>2, AuditInitially, PTL DEF AuditSpec

\* Rows and remembered values stay within what their columns allow.
THEOREM AuditTypesCorrect == AuditSpec => []AuditTypeOK
<1>1. AuditInv => AuditTypeOK
  BY DEF AuditInv
<1>2. QED
  BY <1>1, AuditCorrect, PTL

\* The execution and its job tell the same story, whatever worker, maintenance
\* process, reviewer, canceller and editor do, and in any order.
THEOREM JobFollowsExecution == AuditSpec => []ExecutionAgreesWithJob
<1>1. AuditInv => ExecutionAgreesWithJob
  BY DEF AuditInv, JobMatches
<1>2. QED
  BY <1>1, AuditCorrect, PTL

\* However many attempts evaluate the rules, their results are written once.
THEOREM EvaluatedOnce == AuditSpec => []OneEvaluation
<1>1. AuditInv => OneEvaluation
  BY DEF AuditInv, ResultsMatch
<1>2. QED
  BY <1>1, AuditCorrect, PTL

\* What is reviewed or relied on was computed from the current facts.
THEOREM FactsAreCurrent == AuditSpec => []CurrentFacts
<1>1. AuditInv => CurrentFacts
  BY DEF AuditInv
<1>2. QED
  BY <1>1, AuditCorrect, PTL

\* Two persons stand behind a completed execution with a high risk.
THEOREM TwoReviewers == AuditSpec => []ReviewersSeparated
<1>1. AuditInv => ReviewersSeparated
  BY DEF AuditInv
<1>2. QED
  BY <1>1, AuditCorrect, PTL

-----------------------------------------------------------------------------
(***************************** Refinement *********************************)

\* Every action is a transaction that the triggers accept, or changes no row
\* that they guard.
LEMMA AuditLifecycleStep ==
  AuditInv /\ [AuditNext]_avars => [Lifecycle!Next]_<<execution, risks>>
<1> SUFFICES ASSUME AuditInv, AuditNext
             PROVE  Lifecycle!Next \/ UNCHANGED <<execution, risks>>
  BY DEF avars
<1> USE DEF Lifecycle!Next, Lifecycle!ExecutionAllowed, Lifecycle!RiskAllowed
<1>1. execution \in ExecutionRecord /\ AuditTypeOK /\ RisksMatch
  BY DEF AuditInv, AuditTypeOK
<1>2. CASE CreateTask
  BY <1>1, <1>2 DEF CreateTask, ExecutionRecord, Lifecycle!ExecutionEdges,
     Lifecycle!ReviewGate
<1>3. ASSUME NEW p \in Procs, CompleteAudit(p) PROVE Lifecycle!Next
  <2>1. PICK some \in SUBSET Risks : risks' = Raised(some)
    BY <1>3 DEF CompleteAudit
  <2>2. /\ execution.status = "running"
        /\ execution'.status = "pending_finance_review"
    BY <1>1, <1>3 DEF CompleteAudit, Evaluated, ExecutionRecord
  <2>3. Lifecycle!ExecutionAllowed
    BY <2>2 DEF Lifecycle!ExecutionEdges, Lifecycle!ReviewGate
  <2>4. \A r \in Risks : risks[r] = NoRisk
    BY <1>1, <2>2 DEF RisksMatch, Unevaluated
  <2>5. ASSUME NEW r \in Risks PROVE Lifecycle!RiskAllowed(r)
    BY <2>1, <2>2, <2>4, RaisedFields DEF NoRisk, Default
  <2>6. QED
    BY <2>3, <2>5
<1>4. ASSUME NEW r \in Risks, NEW user \in Users, ReviewRisk(r, user)
      PROVE  Lifecycle!Next
  <2>1. execution' = execution /\ risks[r].review = "pending"
    BY <1>4 DEF ReviewRisk
  <2>2. \A other \in Risks \ {r} : risks'[other] = risks[other]
    BY <1>1, <1>4, ReviewedFields DEF ReviewRisk
  <2>3. Lifecycle!RiskAllowed(r)
    <3>1. CASE risks[r].effective = "high"
      <4>1. /\ execution.status = "pending_audit_review"
            /\ user # execution.finance
        BY <1>4, <3>1 DEF ReviewRisk
      <4>2. risks'[r].review = "reviewed" /\ risks'[r].by = user
        BY <1>1, <1>4, ReviewedFields DEF ReviewRisk
      <4>3. QED
        BY <2>1, <3>1, <4>1, <4>2
    <3>2. CASE risks[r].effective # "high"
      <4>1. execution.status = "pending_finance_review" /\ Reviewed(r, "low", user)
        BY <1>4, <3>2 DEF ReviewRisk
      <4>2. risks'[r].review = "reviewed" /\ risks'[r].effective = "low"
        BY <1>1, <4>1, ReviewedFields
      <4>3. QED
        BY <2>1, <3>2, <4>1, <4>2
    <3>3. QED
      BY <3>1, <3>2
  <2>4. QED
    BY <2>1, <2>2, <2>3
<1>5. ASSUME NEW user \in Users, FinanceReview(user) PROVE Lifecycle!Next
  <2>1. PICK status \in {"returned_for_correction",
                         IF Pending("high") THEN "pending_audit_review"
                                            ELSE "completed"} :
          execution' = [execution EXCEPT !.status = status, !.finance = user]
    BY <1>5 DEF FinanceReview
  <2>2. /\ execution'.status = status /\ execution'.finance = user
        /\ risks' = risks /\ execution.status = "pending_finance_review"
        /\ user # Nobody
    BY <1>1, <1>5, <2>1 DEF FinanceReview, ExecutionRecord
  <2>3. status = "pending_audit_review" => Lifecycle!Undecided(risks', "high")
    BY <2>1, <2>2 DEF Pending, Lifecycle!Undecided
  <2>4. RisksMatch'
    BY RisksKept
  <2>5. status = "completed" =>
          \A r \in HighRisks : risks'[r].review = "absent"
    <3>1. \A r \in HighRisks : risks[r].review \in {"absent", "pending", "reviewed"}
      BY <1>1 DEF AuditTypeOK, RiskRecord
    <3>2. QED
      BY <1>1, <2>2, <2>4, <3>1 DEF RisksMatch
  <2>6. status = "completed" => \A r \in Risks : risks'[r].review # "pending"
    BY <2>2, <2>4 DEF RisksMatch
  <2>7. Lifecycle!ReviewGate(execution', risks')
    BY <2>1, <2>2, <2>3, <2>5, <2>6 DEF Lifecycle!ReviewGate
  <2>8. <<execution.status, execution'.status>> \in Lifecycle!ExecutionEdges
    BY <2>1, <2>2 DEF Lifecycle!ExecutionEdges
  <2>9. QED
    BY <2>2, <2>7, <2>8
<1>6. ASSUME NEW user \in Users, AuditReview(user) PROVE Lifecycle!Next
  <2>1. PICK status \in {"returned_for_correction", "completed"} :
          execution' = [execution EXCEPT !.status = status, !.auditor = user]
    BY <1>6 DEF AuditReview
  <2>2. /\ execution'.status = status /\ execution'.auditor = user
        /\ execution'.finance = execution.finance /\ risks' = risks
        /\ execution.status = "pending_audit_review" /\ user # Nobody
    BY <1>1, <1>6, <2>1 DEF AuditReview, ExecutionRecord
  <2>3. RisksMatch'
    BY RisksKept
  <2>4. Lifecycle!ReviewGate(execution', risks')
    BY <2>1, <2>2, <2>3 DEF Lifecycle!ReviewGate, RisksMatch
  <2>5. <<execution.status, execution'.status>> \in Lifecycle!ExecutionEdges
    BY <2>1, <2>2 DEF Lifecycle!ExecutionEdges
  <2>6. QED
    BY <2>2, <2>4, <2>5
<1>7. ASSUME NEW status \in {"running", "failed", "cancelled", "outdated"},
             Becomes(status), risks' = risks,
             <<execution.status, status>> \in Lifecycle!ExecutionEdges
      PROVE  Lifecycle!Next
  <2>1. execution'.status = status
    BY <1>1, <1>7 DEF Becomes, ExecutionRecord
  <2>2. Lifecycle!ReviewGate(execution', risks')
    BY <2>1 DEF Lifecycle!ReviewGate
  <2>3. QED
    BY <1>7, <2>1, <2>2
<1>8. QED
  BY <1>2, <1>3, <1>4, <1>5, <1>6, <1>7, ReviewUpdates
     DEF Lifecycle!ExecutionEdges, Outdatable

\* An audit execution implements the lifecycle that the triggers enforce.
THEOREM RefinesAuditLifecycle == AuditSpec => ImplementsAuditLifecycle
<1>1. AuditInit => Lifecycle!Init
  BY DEF AuditInit, Lifecycle!Init, NoRisk
<1>2. QED
  BY <1>1, AuditCorrect, AuditLifecycleStep, PTL
     DEF AuditSpec, ImplementsAuditLifecycle, Lifecycle!Spec

\* A late worker does not get past a cancellation or an outdating.
THEOREM ClosedKept == AuditSpec => ClosedIsFrozen
<1>1. ASSUME AuditInv, [AuditNext]_avars, execution.status \in Closed
      PROVE  UNCHANGED <<execution, risks>>
  BY <1>1, ReviewUpdates
     DEF Closed, CreateTask, CompleteAudit, ReviewRisk, FinanceReview, AuditReview,
         Outdatable, avars
<1>2. AuditInv /\ [AuditNext]_avars =>
        [execution.status \in Closed => UNCHANGED <<execution, risks>>]_avars
  BY <1>1
<1>3. QED
  BY <1>2, AuditCorrect, PTL DEF AuditSpec, ClosedIsFrozen

-----------------------------------------------------------------------------
(******************** Execution and report together ***********************)

ReportTypeOK ==
  /\ report \in ReportRecord
  /\ rjob \in JobRecord(ReportAttempts) /\ rmessage \in BOOLEAN
  /\ rexec \in [Procs -> ReportExec]
  /\ artifacts \subseteq Artifacts
  /\ faults \subseteq AllFaults

(***************************************************************************)
(* The inductive invariant: a report exists once its execution was         *)
(* completed, it agrees with its job, it has a failure code exactly when   *)
(* it failed, and what waits to be tried has an attempt left; an executor  *)
(* that has begun to render has the draft that the report will keep, and   *)
(* one that fails knows why.                                               *)
(***************************************************************************)
ReportMatches ==
  /\ ReportAgreesWithJob /\ ReadyIsCurrent
  /\ report.status = "absent" =>
       rjob.status = "absent" /\ \A p \in Procs : rexec[p] = RIdle
  /\ report.status # "absent" => execution.status \in {"completed", "outdated"}
  /\ report.failure # "none" <=> report.status = "failed"
  /\ rjob.status = "queued" \/ rjob.retry => rjob.attempt < ReportAttempts

ExecMatches(p) ==
  /\ rexec[p].pc = "drafting" => Drafting
  /\ rexec[p].pc = "drafted" => report.draft # "disabled"
  /\ rexec[p].pc \in {"rendering", "half", "stored"} =>
       /\ rexec[p].draft = report.draft
       /\ Drafting => report.draft # "disabled"
  /\ rexec[p].pc = "undoing" => rexec[p].code # "none"
  /\ rexec[p].pc = "failing" => rexec[p].code \in {"TRANSIENT", "INVALID", "UNKNOWN"}

ExecsMatch == \A p \in Procs : ExecMatches(p)

ClusterInv == ReportTypeOK /\ ReportMatches /\ ExecsMatch

USE ReportGenerationAssumption

-----------------------------------------------------------------------------
(********************* The execution in the composition *******************)

\* Every step of the composition is a step of the execution or none of its.
THEOREM ClusterRunsAudit == Spec => AuditSpec
<1>1. Init => AuditInit
  BY DEF Init
<1>2. [Next]_vars => [AuditNext]_avars
  BY DEF Next, AuditNext, AuditStep, ReportStep, MaintenanceTakesOver,
     ReviewExecution, EditAuditedFacts, AuditAgain, vars, avars
<1>3. QED
  BY <1>1, <1>2, PTL DEF Spec, AuditSpec

-----------------------------------------------------------------------------
(***************************** The job's row ******************************)

LEMMA ReportJobTypes ==
  ASSUME NEW job \in JobRecord(ReportAttempts)
  PROVE  /\ NewJob \in JobRecord(ReportAttempts)
         /\ job.attempt < ReportAttempts => Started(job) \in JobRecord(ReportAttempts)
         /\ \A status \in {"succeeded", "failed", "cancelled"} :
              Over(job, status, FALSE) \in JobRecord(ReportAttempts)
         /\ Requeued(job) \in JobRecord(ReportAttempts)
         /\ Expired(job) \in JobRecord(ReportAttempts)
         /\ CancelAsked(job) \in JobRecord(ReportAttempts)
<1> USE DEF JobRecord
<1>1. NewJob \in JobRecord(ReportAttempts)
  <2>1. 0 \in 0..ReportAttempts
    OBVIOUS
  <2>2. NoJob \in JobRecord(ReportAttempts)
    BY <2>1 DEF NoJob
  <2>3. QED
    BY <2>1, <2>2 DEF NewJob, NoJob
<1>2. ASSUME NEW status \in {"succeeded", "failed", "cancelled"}
      PROVE  Over(job, status, FALSE) \in JobRecord(ReportAttempts)
  BY DEF Over
<1>3. ASSUME job.attempt < ReportAttempts
      PROVE  Started(job) \in JobRecord(ReportAttempts)
  <2>1. job.attempt + 1 \in 0..ReportAttempts
    BY <1>3
  <2>2. QED
    BY <2>1 DEF Started
<1>4. Requeued(job) \in JobRecord(ReportAttempts) /\ Expired(job) \in JobRecord(ReportAttempts)
  BY DEF Requeued, Expired
<1>5. CancelAsked(job) \in JobRecord(ReportAttempts)
  BY <1>2 DEF CancelAsked
<1>6. QED
  BY <1>1, <1>2, <1>3, <1>4, <1>5

LEMMA ReportJobFields ==
  ASSUME NEW job \in JobRecord(ReportAttempts)
  PROVE  /\ NewJob.status = "queued" /\ NewJob.attempt = 0 /\ ~NewJob.retry
         /\ Started(job).status = "running" /\ Started(job).retry = job.retry
         /\ Started(job).attempt = job.attempt + 1
         /\ Over(job, "succeeded", FALSE).status = "succeeded"
         /\ Over(job, "failed", FALSE).status = "failed"
         /\ Over(job, "cancelled", FALSE).status = "cancelled"
         /\ ~Over(job, "succeeded", FALSE).retry /\ ~Over(job, "failed", FALSE).retry
         /\ ~Over(job, "cancelled", FALSE).retry
         /\ Requeued(job).status = "queued" /\ ~Requeued(job).retry
         /\ Requeued(job).attempt = job.attempt
         /\ Expired(job).status = job.status /\ Expired(job).attempt = job.attempt
         /\ Expired(job).retry = job.retry
BY DEF JobRecord, NoJob, NewJob, Started, Over, Requeued, Expired

\* A cancellation leaves nothing that waits or runs.
LEMMA ReportCancelFields ==
  ASSUME NEW job \in JobRecord(ReportAttempts)
  PROVE  /\ CancelAsked(job).status \notin {"queued", "running"}
         /\ job.status = "queued" => CancelAsked(job).status = "cancelled"
         /\ job.status = "running" => CancelAsked(job).status = "cancel_requested"
         /\ job.status \notin {"queued", "running"} => CancelAsked(job) = job
         /\ CancelAsked(job).retry => job.retry
         /\ CancelAsked(job).attempt = job.attempt
BY DEF JobRecord, CancelAsked, Over

\* A failure of the handler: what is to be tried again has an attempt left.
LEMMA ReportFailureFields ==
  ASSUME NEW job \in JobRecord(ReportAttempts), NEW code
  PROVE  LET row == Over(job, "failed",
                         code = "TRANSIENT" /\ job.attempt < ReportAttempts)
         IN  /\ row \in JobRecord(ReportAttempts)
             /\ row.status = "failed" /\ row.attempt = job.attempt
             /\ row.retry => code = "TRANSIENT" /\ row.attempt < ReportAttempts
<1>1. CASE code = "TRANSIENT" /\ job.attempt < ReportAttempts
  <2>1. (code = "TRANSIENT" /\ job.attempt < ReportAttempts) = TRUE
    BY <1>1
  <2>2. /\ Over(job, "failed", TRUE) \in JobRecord(ReportAttempts)
        /\ Over(job, "failed", TRUE).status = "failed"
        /\ Over(job, "failed", TRUE).attempt = job.attempt
    BY DEF JobRecord, Over
  <2>3. QED
    BY <1>1, <2>1, <2>2
<1>2. CASE ~(code = "TRANSIENT" /\ job.attempt < ReportAttempts)
  <2>1. (code = "TRANSIENT" /\ job.attempt < ReportAttempts) = FALSE
    BY <1>2
  <2>2. /\ Over(job, "failed", FALSE) \in JobRecord(ReportAttempts)
        /\ Over(job, "failed", FALSE).status = "failed"
        /\ Over(job, "failed", FALSE).attempt = job.attempt
        /\ ~Over(job, "failed", FALSE).retry
    BY DEF JobRecord, Over
  <2>3. QED
    BY <2>1, <2>2
<1>3. QED
  BY <1>1, <1>2

-----------------------------------------------------------------------------
(***************************** The executors ******************************)

LEMMA ExecWrites ==
  ASSUME ReportTypeOK, NEW p \in Procs, NEW to \in ReportExec,
         rexec' = [rexec EXCEPT ![p] = to]
  PROVE  /\ rexec' \in [Procs -> ReportExec]
         /\ rexec'[p] = to
         /\ \A q \in Procs \ {p} : rexec'[q] = rexec[q]
BY DEF ReportTypeOK

\* Each way to leave a step of the generation.
LEMMA ExecGoes ==
  ASSUME ReportTypeOK, NEW p \in Procs,
         NEW pc \in {"drafted", "half", "stored", "failing"}, RGoes(p, pc)
  PROVE  /\ rexec' \in [Procs -> ReportExec]
         /\ rexec'[p].pc = pc /\ rexec'[p].draft = rexec[p].draft
         /\ rexec'[p].code = rexec[p].code
         /\ \A q \in Procs \ {p} : rexec'[q] = rexec[q]
BY DEF RGoes, ReportTypeOK, ReportExec

LEMMA ExecStops ==
  ASSUME ReportTypeOK, NEW p \in Procs, RStops(p)
  PROVE  /\ rexec' \in [Procs -> ReportExec]
         /\ rexec'[p] = RIdle
         /\ \A q \in Procs \ {p} : rexec'[q] = rexec[q]
<1>1. RIdle \in ReportExec
  <2>1. 0 \in 0..ReportAttempts
    OBVIOUS
  <2>2. QED
    BY <2>1 DEF RIdle, ReportExec
<1>2. QED
  BY <1>1 DEF RStops, ReportTypeOK

LEMMA ExecStarts ==
  ASSUME ReportTypeOK, NEW p \in Procs, RStarts(p), rjob.attempt < ReportAttempts
  PROVE  /\ rexec' \in [Procs -> ReportExec]
         /\ rexec'[p].pc = "claimed"
         /\ \A q \in Procs \ {p} : rexec'[q] = rexec[q]
<1>1. rjob.attempt + 1 \in 0..ReportAttempts
  BY DEF ReportTypeOK, JobRecord
<1>2. [RIdle EXCEPT !.pc = "claimed", !.attempt = rjob.attempt + 1] \in ReportExec
  BY <1>1 DEF RIdle, ReportExec
<1>3. [RIdle EXCEPT !.pc = "claimed", !.attempt = rjob.attempt + 1].pc = "claimed"
  BY DEF RIdle
<1>4. QED
  BY <1>2, <1>3 DEF RStarts, ReportTypeOK

Failures == {"TRANSIENT", "INVALID", "UNKNOWN", "FENCED"}

LEMMA ExecUndoes ==
  ASSUME ReportTypeOK, NEW p \in Procs, NEW todo \in SUBSET Artifacts,
         NEW code \in Failures, Undoes(p, todo, code)
  PROVE  /\ rexec' \in [Procs -> ReportExec]
         /\ rexec'[p].pc = "undoing" /\ rexec'[p].code = code /\ rexec'[p].todo = todo
         /\ \A q \in Procs \ {p} : rexec'[q] = rexec[q]
BY DEF Undoes, ReportTypeOK, ReportExec, Failures

\* An executor in a step that says nothing of the report's draft.
LEMMA ExecMatchesAfter ==
  ASSUME ExecsMatch, NEW p \in Procs, report'.draft = report.draft,
         \A q \in Procs \ {p} : rexec'[q] = rexec[q],
         \/ rexec'[p].pc \in {"idle", "claimed"}
         \/ rexec'[p].pc = "undoing" /\ rexec'[p].code \in Failures
  PROVE  ExecsMatch'
BY DEF ExecsMatch, ExecMatches, Failures

\* A step of an executor keeps what the executors know.
LEMMA ExecutorStep ==
  ASSUME ClusterInv, NEW p \in Procs, ReportExecutorNext(p)
  PROVE  rexec' \in [Procs -> ReportExec] /\ ExecsMatch'
<1>0. ReportTypeOK /\ ExecsMatch
  BY DEF ClusterInv
<1>1. ASSUME RStops(p), report'.draft = report.draft
      PROVE  rexec' \in [Procs -> ReportExec] /\ ExecsMatch'
  BY <1>0, <1>1, ExecStops, ExecMatchesAfter DEF RIdle
<1>2. ASSUME NEW todo \in SUBSET Artifacts, NEW code \in Failures,
             Undoes(p, todo, code), report'.draft = report.draft
      PROVE  rexec' \in [Procs -> ReportExec] /\ ExecsMatch'
  BY <1>0, <1>2, ExecUndoes, ExecMatchesAfter
<1>3. ASSUME NEW code \in Failures, Fails(p, code), report'.draft = report.draft
      PROVE  rexec' \in [Procs -> ReportExec] /\ ExecsMatch'
  BY <1>2, <1>3 DEF Fails
<1>4. ASSUME NEW pc \in {"half", "stored"}, RGoes(p, pc),
             rexec[p].pc \in {"rendering", "half"}, report'.draft = report.draft
      PROVE  rexec' \in [Procs -> ReportExec] /\ ExecsMatch'
  <2>1. /\ rexec' \in [Procs -> ReportExec]
        /\ rexec'[p].pc = pc /\ rexec'[p].draft = rexec[p].draft
        /\ \A q \in Procs \ {p} : rexec'[q] = rexec[q]
    BY <1>0, <1>4, ExecGoes
  <2>2. QED
    BY <1>0, <1>4, <2>1 DEF ExecsMatch, ExecMatches
<1>5. CASE PreflightReport(p)
  <2>1. report' = report
    BY <1>5 DEF PreflightReport
  <2>2. CASE Fails(p, "INVALID") \/ Fails(p, "TRANSIENT")
    BY <1>3, <2>1, <2>2 DEF Failures
  <2>3. CASE /\ rexec[p].pc = "claimed" /\ Drafting /\ report.draft = "disabled"
             /\ rexec' = [rexec EXCEPT ![p].pc = "drafting", ![p].draft = report.draft]
    <3>1. /\ rexec' \in [Procs -> ReportExec] /\ rexec'[p].pc = "drafting"
          /\ \A q \in Procs \ {p} : rexec'[q] = rexec[q]
      <4> DEFINE to == [rexec[p] EXCEPT !.pc = "drafting", !.draft = report.draft]
      <4>1. rexec[p] \in ReportExec /\ report.draft \in {"disabled", "succeeded", "degraded"}
        BY <1>0 DEF ReportTypeOK, ReportRecord
      <4>2. to \in ReportExec /\ to.pc = "drafting" /\ to.draft = report.draft
        BY <4>1 DEF ReportExec
      <4>3. rexec' = [rexec EXCEPT ![p] = to]
        BY <1>0, <2>3 DEF ReportTypeOK
      <4>4. QED
        BY <1>0, <4>2, <4>3, ExecWrites
    <3>2. QED
      BY <1>0, <2>1, <2>3, <3>1 DEF ExecsMatch, ExecMatches
  <2>4. CASE /\ rexec[p].pc \in {"claimed", "drafted"}
             /\ ~(rexec[p].pc = "claimed" /\ Drafting /\ report.draft = "disabled")
             /\ rexec' = [rexec EXCEPT ![p].pc = "rendering", ![p].draft = report.draft]
    <3>1. /\ rexec' \in [Procs -> ReportExec] /\ rexec'[p].pc = "rendering"
          /\ rexec'[p].draft = report.draft
          /\ \A q \in Procs \ {p} : rexec'[q] = rexec[q]
      <4> DEFINE to == [rexec[p] EXCEPT !.pc = "rendering", !.draft = report.draft]
      <4>1. rexec[p] \in ReportExec /\ report.draft \in {"disabled", "succeeded", "degraded"}
        BY <1>0 DEF ReportTypeOK, ReportRecord
      <4>2. to \in ReportExec /\ to.pc = "rendering" /\ to.draft = report.draft
        BY <4>1 DEF ReportExec
      <4>3. rexec' = [rexec EXCEPT ![p] = to]
        BY <1>0, <2>4 DEF ReportTypeOK
      <4>4. QED
        BY <1>0, <4>2, <4>3, ExecWrites
    <3>2. Drafting => report.draft # "disabled"
      BY <1>0, <2>4 DEF ExecsMatch, ExecMatches
    <3>3. QED
      BY <1>0, <2>1, <3>1, <3>2 DEF ExecsMatch, ExecMatches
  <2>5. QED
    BY <1>5, <2>2, <2>3, <2>4 DEF PreflightReport
<1>6. CASE SettleDraft(p)
  <2>1. /\ rexec[p].pc = "drafting" /\ report.draft = "disabled"
        /\ report'.draft \in {"succeeded", "degraded"}
    BY <1>0, <1>6 DEF SettleDraft, ReportTypeOK, ReportRecord
  <2>2. \A q \in Procs : rexec[q].pc \notin {"rendering", "half", "stored"}
    BY <1>0, <2>1 DEF ExecsMatch, ExecMatches
  <2>3. CASE RGoes(p, "drafted")
    <3>1. /\ rexec' \in [Procs -> ReportExec] /\ rexec'[p].pc = "drafted"
          /\ \A q \in Procs \ {p} : rexec'[q] = rexec[q]
      BY <1>0, <2>3, ExecGoes
    <3>2. QED
      BY <1>0, <2>1, <2>2, <3>1 DEF ExecsMatch, ExecMatches
  <2>4. CASE Fails(p, "TRANSIENT")
    <3>1. /\ rexec' \in [Procs -> ReportExec]
          /\ rexec'[p].pc = "undoing" /\ rexec'[p].code = "TRANSIENT"
          /\ \A q \in Procs \ {p} : rexec'[q] = rexec[q]
      BY <1>0, <2>4, ExecUndoes DEF Fails, Failures
    <3>2. QED
      BY <1>0, <2>1, <2>2, <3>1 DEF ExecsMatch, ExecMatches
  <2>5. QED
    BY <1>6, <2>3, <2>4 DEF SettleDraft
<1>7. CASE DraftFails(p)
  BY <1>3, <1>7 DEF DraftFails, Failures
<1>8. CASE StorePdf(p)
  <2>1. /\ rexec[p].pc = "rendering" /\ report' = report
        /\ \/ RGoes(p, "half")
           \/ \E todo \in SUBSET Artifacts : Undoes(p, todo, "TRANSIENT")
           \/ \E code \in {"INVALID", "TRANSIENT"} : Fails(p, code)
    BY <1>8 DEF StorePdf, Put, Artifacts
  <2>2. QED
    BY <1>2, <1>3, <1>4, <2>1 DEF Failures
<1>9. CASE StoreXlsx(p)
  <2>1. /\ rexec[p].pc = "half" /\ report' = report
        /\ \/ RGoes(p, "stored")
           \/ \E todo \in SUBSET Artifacts : Undoes(p, todo, "TRANSIENT")
    BY <1>9 DEF StoreXlsx, Put, Artifacts
  <2>2. QED
    BY <1>2, <1>4, <2>1 DEF Failures
<1>10. CASE CompleteReport(p)
  <2>1. /\ report'.draft = report.draft
        /\ RStops(p) \/ Undoes(p, Artifacts, "TRANSIENT")
    BY <1>0, <1>10 DEF CompleteReport, ReadyReport, ReportTypeOK, ReportRecord
  <2>2. QED
    BY <1>1, <1>2, <2>1 DEF Failures
<1>11. CASE CompletionFails(p)
  BY <1>2, <1>11 DEF CompletionFails, Failures
<1>12. CASE UndoOne(p)
  <2>1. /\ report' = report /\ rexec[p].pc = "undoing" /\ rexec[p].code \in Failures
    BY <1>0, <1>12 DEF UndoOne, ExecsMatch, ExecMatches, ReportTypeOK, ReportExec,
       Failures
  <2>2. PICK object \in Artifacts, code \in Failures :
          rexec' = [rexec EXCEPT ![p].todo = @ \ {object}, ![p].code = code]
    <3>1. DEFINE object == IF "xlsx" \in rexec[p].todo THEN "xlsx" ELSE "pdf"
    <3>2. CASE rexec' = [rexec EXCEPT ![p].todo = @ \ {object}]
      <4>1. rexec' = [rexec EXCEPT ![p].todo = @ \ {object}, ![p].code = rexec[p].code]
        BY <1>0, <3>2 DEF ReportTypeOK, ReportExec
      <4>2. QED
        BY <2>1, <4>1 DEF Artifacts
    <3>3. CASE rexec' = [rexec EXCEPT ![p].todo = @ \ {object},
                           ![p].code = IF @ = "FENCED" THEN @ ELSE "UNKNOWN"]
      BY <2>1, <3>3 DEF Artifacts, Failures
    <3>4. QED
      BY <1>12, <3>2, <3>3 DEF UndoOne
  <2>3. /\ rexec' \in [Procs -> ReportExec]
        /\ rexec'[p].pc = "undoing" /\ rexec'[p].code \in Failures
        /\ \A q \in Procs \ {p} : rexec'[q] = rexec[q]
    <3> DEFINE to == [rexec[p] EXCEPT !.todo = @ \ {object}, !.code = code]
    <3>1. rexec[p] \in ReportExec
      BY <1>0 DEF ReportTypeOK
    <3>2. to \in ReportExec /\ to.pc = "undoing" /\ to.code = code
      BY <2>1, <3>1 DEF ReportExec, Failures
    <3>3. rexec' = [rexec EXCEPT ![p] = to]
      BY <1>0, <2>2 DEF ReportTypeOK
    <3>4. QED
      BY <1>0, <3>2, <3>3, ExecWrites
  <2>4. QED
    BY <1>0, <2>1, <2>3, ExecMatchesAfter
<1>13. CASE Undone(p)
  <2>1. report' = report
    BY <1>13 DEF Undone
  <2>2. CASE rexec[p].code = "FENCED" /\ RStops(p)
    BY <1>1, <2>1, <2>2
  <2>3. CASE rexec[p].code # "FENCED" /\ RGoes(p, "failing")
    <3>1. /\ rexec' \in [Procs -> ReportExec]
          /\ rexec'[p].pc = "failing" /\ rexec'[p].code = rexec[p].code
          /\ \A q \in Procs \ {p} : rexec'[q] = rexec[q]
      BY <1>0, <2>3, ExecGoes
    <3>2. rexec[p].code \in {"TRANSIENT", "INVALID", "UNKNOWN"}
      BY <1>0, <1>13, <2>3 DEF Undone, ExecsMatch, ExecMatches, ReportTypeOK,
         ReportExec
    <3>3. QED
      BY <1>0, <2>1, <3>1, <3>2 DEF ExecsMatch, ExecMatches
  <2>4. QED
    BY <1>13, <2>2, <2>3 DEF Undone
<1>14. CASE FailReport(p)
  <2>1. report'.draft = report.draft /\ RStops(p)
    BY <1>0, <1>14 DEF FailReport, ReportTypeOK, ReportRecord
  <2>2. QED
    BY <1>1, <2>1
<1>15. CASE AdoptReportCancel(p) \/ StopStale(p)
  BY <1>1, <1>15 DEF AdoptReportCancel, StopStale
<1>16. QED
  BY <1>5, <1>6, <1>7, <1>8, <1>9, <1>10, <1>11, <1>12, <1>13, <1>14, <1>15
     DEF ReportExecutorNext

-----------------------------------------------------------------------------
(************************** Report and job ********************************)

\* What a step of the report's own machinery writes to the two rows.
RowsWritten ==
  \/ report' = report /\ rjob' = rjob
  \/ /\ report' = [report EXCEPT !.status = "generating"]
     /\ report.status = "queued" /\ rjob.status = "queued"
     /\ rjob' = Started(rjob) /\ execution.status = "completed"
  \/ /\ report' = report /\ rjob.status = "queued"
     /\ rjob' = Over(rjob, "failed", FALSE)
  \/ /\ report' = [report EXCEPT !.status = "queued", !.failure = "none"]
     /\ report.status = "failed" /\ rjob.status = "failed" /\ rjob.retry
     /\ rjob' = Requeued(rjob) /\ execution.status = "completed"
  \/ /\ report' = report /\ rjob.status = "running" /\ rjob' = Expired(rjob)
  \/ /\ report' = report /\ rjob.status = "running" /\ rjob.attempt < ReportAttempts
     /\ rjob' = Started(rjob)
  \/ /\ report' = [report EXCEPT !.status = "failed", !.failure = "WORKER_LOST"]
     /\ report.status = "generating" /\ rjob' = Over(rjob, "failed", FALSE)
  \/ /\ \E draft \in {"succeeded", "degraded"} :
          report' = [report EXCEPT !.draft = draft]
     /\ report.status = "generating" /\ rjob' = rjob
  \/ /\ report' = ReadyReport
     /\ report.status = "generating" /\ execution.status = "completed"
     /\ rjob' = Over(rjob, "succeeded", FALSE)
  \/ /\ \E code \in {"TRANSIENT", "INVALID", "UNKNOWN"} :
          /\ report' = [report EXCEPT !.status = "failed", !.failure = code]
          /\ rjob' = Over(rjob, "failed",
                          code = "TRANSIENT" /\ rjob.attempt < ReportAttempts)
     /\ report.status = "generating"
  \/ /\ report' = report /\ report.status = "failed"
     /\ rjob.status = "cancel_requested" /\ rjob' = Over(rjob, "cancelled", FALSE)

LEMMA RowsWrittenKeep ==
  ASSUME ClusterInv, RowsWritten, execution' = execution,
         rexec' \in [Procs -> ReportExec],
         report.status = "absent" => rexec' = rexec
  PROVE  /\ report' \in ReportRecord /\ rjob' \in JobRecord(ReportAttempts)
         /\ ReportMatches'
<1>1. /\ report \in ReportRecord /\ rjob \in JobRecord(ReportAttempts)
      /\ ReportMatches
  BY DEF ClusterInv, ReportTypeOK
<1> USE DEF ReportMatches, ReportAgreesWithJob, ReadyIsCurrent
<1>2. CASE report' = report /\ rjob' = rjob
  BY <1>1, <1>2
<1>3. CASE /\ report' = [report EXCEPT !.status = "generating"]
           /\ report.status = "queued" /\ rjob.status = "queued"
           /\ rjob' = Started(rjob) /\ execution.status = "completed"
  <2>1. /\ report' \in ReportRecord /\ report'.status = "generating"
        /\ report'.failure = report.failure
    BY <1>1, <1>3 DEF ReportRecord
  <2>2. /\ rjob' \in JobRecord(ReportAttempts) /\ rjob'.status = "running"
        /\ ~rjob'.retry
    BY <1>1, <1>3, ReportJobTypes, ReportJobFields
  <2>3. QED
    BY <1>1, <1>3, <2>1, <2>2
<1>4. CASE /\ report' = report /\ rjob.status = "queued"
           /\ rjob' = Over(rjob, "failed", FALSE)
  <2>1. /\ rjob' \in JobRecord(ReportAttempts) /\ rjob'.status = "failed"
        /\ ~rjob'.retry
    BY <1>1, <1>4, ReportJobTypes, ReportJobFields
  <2>2. QED
    BY <1>1, <1>4, <2>1
<1>5. CASE /\ report' = [report EXCEPT !.status = "queued", !.failure = "none"]
           /\ report.status = "failed" /\ rjob.status = "failed" /\ rjob.retry
           /\ rjob' = Requeued(rjob) /\ execution.status = "completed"
  <2>1. /\ report' \in ReportRecord /\ report'.status = "queued"
        /\ report'.failure = "none"
    BY <1>1, <1>5 DEF ReportRecord
  <2>2. rjob' \in JobRecord(ReportAttempts)
    BY <1>1, <1>5, ReportJobTypes
  <2>3. /\ rjob'.status = "queued" /\ ~rjob'.retry /\ rjob'.attempt < ReportAttempts
    <3>1. rjob.attempt < ReportAttempts
      BY <1>1, <1>5
    <3>2. /\ Requeued(rjob).status = "queued" /\ ~Requeued(rjob).retry
          /\ Requeued(rjob).attempt = rjob.attempt
      BY ONLY <1>1, ReportJobFields
    <3>3. QED
      BY ONLY <1>5, <3>1, <3>2
  <2>4. QED
    BY <1>1, <1>5, <2>1, <2>2, <2>3
<1>6. CASE report' = report /\ rjob.status = "running" /\ rjob' = Expired(rjob)
  <2>1. /\ rjob' \in JobRecord(ReportAttempts) /\ rjob'.status = "running"
        /\ rjob'.retry = rjob.retry /\ rjob'.attempt = rjob.attempt
    BY <1>1, <1>6, ReportJobTypes, ReportJobFields
  <2>2. QED
    BY <1>1, <1>6, <2>1
<1>7. CASE /\ report' = report /\ rjob.status = "running"
           /\ rjob.attempt < ReportAttempts /\ rjob' = Started(rjob)
  <2>1. /\ rjob' \in JobRecord(ReportAttempts) /\ rjob'.status = "running"
        /\ ~rjob'.retry
    BY <1>1, <1>7, ReportJobTypes, ReportJobFields
  <2>2. QED
    BY <1>1, <1>7, <2>1
<1>8. CASE /\ report' = [report EXCEPT !.status = "failed", !.failure = "WORKER_LOST"]
           /\ report.status = "generating" /\ rjob' = Over(rjob, "failed", FALSE)
  <2>1. /\ report' \in ReportRecord /\ report'.status = "failed"
        /\ report'.failure = "WORKER_LOST"
    BY <1>1, <1>8 DEF ReportRecord
  <2>2. /\ rjob' \in JobRecord(ReportAttempts) /\ rjob'.status = "failed"
        /\ ~rjob'.retry
    BY <1>1, <1>8, ReportJobTypes, ReportJobFields
  <2>3. QED
    BY <1>1, <1>8, <2>1, <2>2
<1>9. CASE /\ \E draft \in {"succeeded", "degraded"} :
                report' = [report EXCEPT !.draft = draft]
           /\ report.status = "generating" /\ rjob' = rjob
  <2>1. /\ report' \in ReportRecord /\ report'.status = report.status
        /\ report'.failure = report.failure
    BY <1>1, <1>9 DEF ReportRecord
  <2>2. QED
    BY <1>1, <1>9, <2>1
<1>10. CASE /\ report' = ReadyReport
            /\ report.status = "generating" /\ execution.status = "completed"
            /\ rjob' = Over(rjob, "succeeded", FALSE)
  <2>1. /\ report' \in ReportRecord /\ report'.status = "ready"
        /\ report'.failure = "none"
    BY <1>1, <1>10 DEF ReportRecord, ReadyReport
  <2>2. /\ rjob' \in JobRecord(ReportAttempts) /\ rjob'.status = "succeeded"
        /\ ~rjob'.retry
    BY <1>1, <1>10, ReportJobTypes, ReportJobFields
  <2>3. QED
    BY <1>1, <1>10, <2>1, <2>2
<1>11. ASSUME NEW code \in {"TRANSIENT", "INVALID", "UNKNOWN"},
              report.status = "generating",
              report' = [report EXCEPT !.status = "failed", !.failure = code],
              rjob' = Over(rjob, "failed",
                           code = "TRANSIENT" /\ rjob.attempt < ReportAttempts)
       PROVE  /\ report' \in ReportRecord /\ rjob' \in JobRecord(ReportAttempts)
              /\ ReportMatches'
  <2>1. /\ report' \in ReportRecord /\ report'.status = "failed"
        /\ report'.failure = code
    BY <1>1, <1>11 DEF ReportRecord
  <2>2. /\ rjob' \in JobRecord(ReportAttempts) /\ rjob'.status = "failed"
        /\ rjob'.retry => code = "TRANSIENT" /\ rjob'.attempt < ReportAttempts
    BY <1>1, <1>11, ReportFailureFields
  <2>3. QED
    BY <1>1, <1>11, <2>1, <2>2
<1>12. CASE /\ report' = report /\ report.status = "failed"
            /\ rjob.status = "cancel_requested"
            /\ rjob' = Over(rjob, "cancelled", FALSE)
  <2>1. /\ rjob' \in JobRecord(ReportAttempts) /\ rjob'.status = "cancelled"
        /\ ~rjob'.retry
    BY <1>1, <1>12, ReportJobTypes, ReportJobFields
  <2>2. QED
    BY <1>1, <1>12, <2>1
<1>13. QED
  BY <1>2, <1>3, <1>4, <1>5, <1>6, <1>7, <1>8, <1>9, <1>10, <1>11, <1>12
     DEF RowsWritten

\* The report's own machinery keeps the invariant.
LEMMA ReportMachineryKeeps ==
  ASSUME ClusterInv, ReportNext \/ TakeOverReport, execution' = execution
  PROVE  ClusterInv'
<1>1. ReportTypeOK /\ ReportMatches /\ ExecsMatch
  BY DEF ClusterInv
<1>2. /\ rmessage' \in BOOLEAN /\ artifacts' \subseteq Artifacts
      /\ faults' \subseteq AllFaults
  BY <1>1 DEF ReportTypeOK, ReportNext, ReportDelivery, RefuseReportMessage,
     ReportDispatchDies, ClaimReport, RequeueReport, GiveUpReport, TakeOverReport,
     ReportLeaseExpires, CrashReport, ReportExecutorNext, PreflightReport,
     SettleDraft, DraftFails, StorePdf, StoreXlsx, Put, CompleteReport,
     CompletionFails, UndoOne, Undone, FailReport, AdoptReportCancel, StopStale,
     Artifacts
<1>3. ASSUME RowsWritten, rexec' \in [Procs -> ReportExec], ExecsMatch',
             report.status = "absent" => rexec' = rexec
      PROVE  ClusterInv'
  BY <1>2, <1>3, RowsWrittenKeep DEF ClusterInv, ReportTypeOK
<1>4. ASSUME RowsWritten, rexec' = rexec, report'.draft = report.draft
      PROVE  ClusterInv'
  BY <1>1, <1>3, <1>4 DEF ReportTypeOK, ExecsMatch, ExecMatches
<1>5. CASE RefuseReportMessage
  BY <1>4, <1>5 DEF RefuseReportMessage, RowsWritten
<1>6. CASE ReportDispatchDies
  BY <1>4, <1>6 DEF ReportDispatchDies, RowsWritten
<1>7. ASSUME NEW w \in Workers, ClaimReport(w) PROVE ClusterInv'
  <2>1. report'.draft = report.draft /\ report.status = "queued"
    BY <1>1, <1>7 DEF ClaimReport, Claimable, ReportTypeOK, ReportRecord
  <2>2. rjob.attempt < ReportAttempts /\ RStarts(w) /\ w \in Procs
    BY <1>1, <1>7 DEF ClaimReport, Claimable, ReportMatches, Procs
  <2>3. rexec' \in [Procs -> ReportExec] /\ ExecsMatch'
    BY <1>1, <2>1, <2>2, ExecStarts, ExecMatchesAfter
  <2>4. RowsWritten
    BY <1>7 DEF ClaimReport, Claimable, RowsWritten
  <2>5. QED
    BY <1>3, <2>1, <2>3, <2>4
<1>8. CASE RequeueReport
  <2>1. rjob.status = "failed" /\ rjob.retry
    BY <1>8 DEF RequeueReport
  <2>2. RowsWritten
    BY <1>8 DEF RequeueReport, RowsWritten
  <2>3. report'.draft = report.draft /\ rexec' = rexec
    BY <1>1, <1>8 DEF RequeueReport, ReportTypeOK, ReportRecord
  <2>4. QED
    BY <1>4, <2>2, <2>3
<1>9. CASE GiveUpReport
  <2>1. RowsWritten
    BY <1>9 DEF GiveUpReport, ReportRecoverable, RowsWritten
  <2>2. report'.draft = report.draft /\ rexec' = rexec
    BY <1>1, <1>9 DEF GiveUpReport, ReportTypeOK, ReportRecord
  <2>3. QED
    BY <1>4, <2>1, <2>2
<1>10. CASE ReportLeaseExpires
  BY <1>4, <1>10 DEF ReportLeaseExpires, RowsWritten
<1>11. CASE TakeOverReport
  <2>1. /\ report' = report /\ report.status = "generating"
        /\ rjob.attempt < ReportAttempts /\ RStarts(Maintenance)
        /\ Maintenance \in Procs
    BY <1>11 DEF TakeOverReport, ReportRecoverable, Procs
  <2>2. rexec' \in [Procs -> ReportExec] /\ ExecsMatch'
    BY <1>1, <2>1, ExecStarts, ExecMatchesAfter
  <2>3. RowsWritten
    BY <1>11 DEF TakeOverReport, ReportRecoverable, Lost, RowsWritten
  <2>4. QED
    BY <1>3, <2>1, <2>2, <2>3
<1>12. ASSUME NEW p \in Procs, CrashReport(p) PROVE ClusterInv'
  <2>1. report' = report /\ rjob' = rjob /\ rexec[p] # RIdle /\ RStops(p)
    BY <1>12 DEF CrashReport
  <2>2. rexec' \in [Procs -> ReportExec] /\ ExecsMatch'
    BY <1>1, <2>1, ExecStops, ExecMatchesAfter DEF RIdle
  <2>3. report.status # "absent"
    BY <1>1, <2>1 DEF ReportMatches
  <2>4. QED
    BY <1>3, <2>1, <2>2, <2>3 DEF RowsWritten
<1>13. ASSUME NEW p \in Procs, ReportExecutorNext(p) PROVE ClusterInv'
  <2>1. rexec' \in [Procs -> ReportExec] /\ ExecsMatch'
    BY <1>13, ExecutorStep
  <2>2. rexec[p].pc # "idle"
    BY <1>13 DEF ReportExecutorNext, PreflightReport, SettleDraft, DraftFails,
       StorePdf, StoreXlsx, CompleteReport, CompletionFails, UndoOne, Undone,
       FailReport, AdoptReportCancel, StopStale
  <2>3. report.status # "absent"
    BY <1>1, <2>2 DEF ReportMatches, RIdle
  <2>4. RowsWritten
    <3>1. CASE FailReport(p)
      <4>1. rexec[p].code \in {"TRANSIENT", "INVALID", "UNKNOWN"}
        BY <1>1, <3>1 DEF FailReport, ExecsMatch, ExecMatches
      <4>2. QED
        BY <3>1, <4>1 DEF FailReport, RowsWritten
    <3>2. CASE SettleDraft(p)
      BY <3>2 DEF SettleDraft, Generating, RowsWritten
    <3>3. CASE CompleteReport(p)
      BY <3>3 DEF CompleteReport, Completable, Generating, RowsWritten
    <3>4. CASE AdoptReportCancel(p)
      BY <3>4 DEF AdoptReportCancel, MayAdoptCancel, RowsWritten
    <3>5. QED
      BY <1>13, <3>1, <3>2, <3>3, <3>4
         DEF ReportExecutorNext, PreflightReport, DraftFails, StorePdf, StoreXlsx,
             CompletionFails, UndoOne, Undone, StopStale, RowsWritten
  <2>5. QED
    BY <1>3, <2>1, <2>3, <2>4
<1>14. QED
  BY <1>5, <1>6, <1>7, <1>8, <1>9, <1>10, <1>11, <1>12, <1>13
     DEF ReportNext, ReportDelivery

-----------------------------------------------------------------------------
(************************ The execution moves on **************************)

\* A step of the audit job, a person or a user that does not touch the report
\* leaves a completed or outdated execution alone, unless it outdates it.
LEMMA AuditJobStep ==
  ASSUME AuditInv, AuditJobNext \/ TakeOverAudit,
         execution.status \in {"completed", "outdated"}
  PROVE  execution' = execution
BY DEF AuditJobNext, AuditDelivery, AuditExecutorNext, CreateTask,
   RefuseAuditMessage, AuditDispatchDies, ClaimAudit, GiveUpAudit, AuditRecoverable,
   AuditLeaseExpires, CancelExecution, PreflightAudit, CompleteAudit, AuditFails,
   FailAudit, AdoptAuditCancel, DropAudit, ReviewRisk, TakeOverAudit

LEMMA ReportUntouched ==
  ASSUME ClusterInv, UNCHANGED rvars,
         report.status = "absent" \/ execution' = execution
  PROVE  ClusterInv'
BY DEF ClusterInv, ReportTypeOK, ReportMatches, ReportAgreesWithJob, ReadyIsCurrent,
   ExecsMatch, ExecMatches, rvars

\* The report is queued when the execution is completed.
LEMMA QueueReportKeeps ==
  ASSUME ClusterInv, report.status = "absent", QueueReport,
         execution'.status = "completed"
  PROVE  ClusterInv'
<1>1. /\ ReportTypeOK /\ ReportMatches
  BY DEF ClusterInv
<1>2. /\ report' \in ReportRecord /\ report'.status = "queued"
      /\ report'.failure = "none"
  BY DEF QueueReport, NoReport, ReportRecord
<1>3. /\ rjob' \in JobRecord(ReportAttempts) /\ rjob'.status = "queued"
      /\ ~rjob'.retry /\ rjob'.attempt < ReportAttempts
  <2>1. rjob' = NewJob /\ rjob \in JobRecord(ReportAttempts)
    BY <1>1 DEF QueueReport, ReportTypeOK
  <2>2. NewJob \in JobRecord(ReportAttempts)
    BY <2>1, ReportJobTypes
  <2>3. NewJob.status = "queued" /\ NewJob.attempt = 0 /\ ~NewJob.retry
    BY <2>1, ReportJobFields
  <2>4. 0 < ReportAttempts
    OBVIOUS
  <2>5. QED
    BY <2>1, <2>2, <2>3, <2>4
<1>4. \A p \in Procs : rexec'[p] = RIdle
  BY <1>1 DEF ReportMatches, QueueReport
<1>5. ExecsMatch'
  BY <1>4 DEF ExecsMatch, ExecMatches, RIdle
<1>6. ReportTypeOK'
  BY <1>1, <1>2, <1>3 DEF ReportTypeOK, QueueReport
<1>7. ReportMatches'
  BY <1>2, <1>3 DEF ReportMatches, ReportAgreesWithJob, ReadyIsCurrent
<1>8. QED
  BY <1>5, <1>6, <1>7 DEF ClusterInv

\* The report follows its execution when that is outdated by an edit.
LEMMA OutdateReportKeeps ==
  ASSUME ClusterInv, OutdateReport, execution'.status = "outdated"
  PROVE  ClusterInv'
<1>1. /\ ReportTypeOK /\ ReportMatches /\ ExecsMatch
      /\ report \in ReportRecord /\ rjob \in JobRecord(ReportAttempts)
  BY DEF ClusterInv, ReportTypeOK
<1>2. /\ report' \in ReportRecord /\ report'.draft = report.draft
      /\ report.status = "ready" =>
           report'.status = "outdated" /\ report'.failure = report.failure
      /\ report.status \in {"queued", "generating"} =>
           report'.status = "failed" /\ report'.failure = "OUTDATED"
      /\ report.status \notin {"ready", "queued", "generating"} => report' = report
  BY <1>1 DEF OutdateReport, ReportRecord
<1>3. /\ rjob' \in JobRecord(ReportAttempts)
      /\ rjob'.status \notin {"queued", "running"}
      /\ rjob.status = "queued" => rjob'.status = "cancelled"
      /\ rjob.status = "running" => rjob'.status = "cancel_requested"
      /\ rjob.status \notin {"queued", "running"} => rjob' = rjob
      /\ rjob'.retry => rjob.retry
      /\ rjob'.attempt = rjob.attempt
  BY <1>1, ReportJobTypes, ReportCancelFields DEF OutdateReport
<1>4. rexec' = rexec
  BY DEF OutdateReport
<1>5. ReportTypeOK'
  BY <1>1, <1>2, <1>3 DEF ReportTypeOK, OutdateReport
<1>6. ExecsMatch'
  BY <1>1, <1>2, <1>4 DEF ExecsMatch, ExecMatches
<1>7. ReportMatches'
  BY <1>1, <1>2, <1>3, <1>4 DEF ReportMatches, ReportAgreesWithJob, ReadyIsCurrent,
     ReportRecord, JobRecord
<1>8. QED
  BY <1>5, <1>6, <1>7 DEF ClusterInv

\* The same, when the execution is outdated by another audit.
LEMMA OutdateReadyKeeps ==
  ASSUME ClusterInv, OutdateReadyReport, execution'.status = "outdated"
  PROVE  ClusterInv'
<1>1. /\ ReportTypeOK /\ ReportMatches /\ ExecsMatch /\ report \in ReportRecord
  BY DEF ClusterInv, ReportTypeOK
<1>2. /\ report' \in ReportRecord /\ report'.draft = report.draft
      /\ report'.failure = report.failure
      /\ report'.status = IF report.status = "ready" THEN "outdated" ELSE report.status
  BY <1>1 DEF OutdateReadyReport, ReportRecord
<1>3. ReportTypeOK'
  BY <1>1, <1>2 DEF ReportTypeOK, OutdateReadyReport
<1>4. ExecsMatch'
  BY <1>1, <1>2 DEF ExecsMatch, ExecMatches, OutdateReadyReport
<1>5. ReportMatches'
  BY <1>1, <1>2 DEF ReportMatches, ReportAgreesWithJob, ReadyIsCurrent,
     OutdateReadyReport
<1>6. QED
  BY <1>3, <1>4, <1>5 DEF ClusterInv

-----------------------------------------------------------------------------
\* The ways in which a step of the composition reaches the report.
LEMMA ClusterCases ==
  ASSUME AuditInv, ClusterInv, Next
  PROVE  \/ UNCHANGED rvars /\ (report.status = "absent" \/ execution' = execution)
         \/ (ReportNext \/ TakeOverReport) /\ execution' = execution
         \/ report.status = "absent" /\ QueueReport /\ execution'.status = "completed"
         \/ OutdateReport /\ execution'.status = "outdated"
         \/ OutdateReadyReport /\ execution'.status = "outdated"
<1>1. /\ execution \in ExecutionRecord
      /\ report.status = "absent" \/ execution.status \in {"completed", "outdated"}
  BY DEF AuditInv, AuditTypeOK, ClusterInv, ReportMatches
<1>2. CASE AuditStep
  BY <1>1, <1>2, AuditJobStep DEF AuditStep
<1>3. CASE ReportStep
  BY <1>3 DEF ReportStep, avars
<1>4. CASE MaintenanceTakesOver
  BY <1>1, <1>4, AuditJobStep DEF MaintenanceTakesOver, avars
<1>5. CASE ReviewExecution
  <2>1. execution.status \in InReview
    BY <1>5 DEF ReviewExecution, Decide, FinanceReview, AuditReview, InReview
  <2>2. report.status = "absent"
    BY <1>1, <2>1 DEF InReview
  <2>3. QED
    BY <1>5, <2>2 DEF ReviewExecution
<1>6. CASE EditAuditedFacts
  <2>1. execution.status \in Outdatable => execution'.status = "outdated"
    BY <1>1, <1>6 DEF EditAuditedFacts, EditFacts, Becomes, ExecutionRecord
  <2>2. execution.status \notin Outdatable => execution' = execution
    BY <1>6 DEF EditAuditedFacts, EditFacts
  <2>3. QED
    BY <1>6, <2>1, <2>2 DEF EditAuditedFacts
<1>7. CASE AuditAgain
  <2>1. execution'.status = "outdated"
    BY <1>1, <1>7 DEF AuditAgain, ReAudit, Becomes, ExecutionRecord
  <2>2. QED
    BY <1>7, <2>1 DEF AuditAgain
<1>8. QED
  BY <1>2, <1>3, <1>4, <1>5, <1>6, <1>7 DEF Next

\* The invariant holds in every behaviour of the composition.
THEOREM ClusterCorrect == Spec => [](AuditInv /\ ClusterInv)
<1>1. Init => ClusterInv
  <2> SUFFICES ASSUME Init PROVE ClusterInv
    OBVIOUS
  <2>1. rjob \in JobRecord(ReportAttempts)
    <3>1. 0 \in 0..ReportAttempts
      OBVIOUS
    <3>2. QED
      BY <3>1 DEF Init, ReportInit, NoJob, JobRecord
  <2>2. rexec \in [Procs -> ReportExec]
    <3>1. 0 \in 0..ReportAttempts
      OBVIOUS
    <3>2. RIdle \in ReportExec
      BY <3>1 DEF RIdle, ReportExec
    <3>3. QED
      BY <3>2 DEF Init, ReportInit
  <2>3. ReportTypeOK
    BY <2>1, <2>2 DEF Init, ReportInit, ReportTypeOK, ReportRecord, NoReport,
       Artifacts, AllFaults
  <2>4. ReportMatches
    BY DEF Init, ReportInit, ReportMatches, ReportAgreesWithJob, ReadyIsCurrent,
       NoReport, NoJob
  <2>5. ExecsMatch
    BY DEF Init, ReportInit, ExecsMatch, ExecMatches, RIdle
  <2>6. QED
    BY <2>3, <2>4, <2>5 DEF ClusterInv
<1>2. AuditInv /\ ClusterInv /\ Next => ClusterInv'
  BY ClusterCases, ReportUntouched, ReportMachineryKeeps, QueueReportKeeps,
     OutdateReportKeeps, OutdateReadyKeeps
<1>3. ClusterInv /\ UNCHANGED vars => ClusterInv'
  BY ReportUntouched DEF vars, avars
<1>4. QED
  BY <1>1, <1>2, <1>3, ClusterRunsAudit, AuditCorrect, PTL DEF Spec

\* Rows and remembered values of the composition stay within their types.
THEOREM ClusterTypesCorrect == Spec => []TypeOK
<1>1. AuditInv /\ ClusterInv => TypeOK
  BY DEF AuditInv, ClusterInv, ReportTypeOK, TypeOK
<1>2. QED
  BY <1>1, ClusterCorrect, PTL

\* The report and its job tell the same story, whoever wrote last.
THEOREM JobFollowsReport == Spec => []ReportAgreesWithJob
<1>1. ClusterInv => ReportAgreesWithJob
  BY DEF ClusterInv, ReportMatches
<1>2. QED
  BY <1>1, ClusterCorrect, PTL

\* A ready report is of a completed execution, never of an outdated one.
THEOREM ReadyReportsAreCurrent == Spec => []ReadyIsCurrent
<1>1. ClusterInv => ReadyIsCurrent
  BY DEF ClusterInv, ReportMatches
<1>2. QED
  BY <1>1, ClusterCorrect, PTL

\* Whoever renders renders the draft that the report keeps.
THEOREM DraftsAreSettled == Spec => []RenderedDraftIsSettled
<1>1. ClusterInv => RenderedDraftIsSettled
  BY DEF ClusterInv, ExecsMatch, ExecMatches, RenderedDraftIsSettled
<1>2. QED
  BY <1>1, ClusterCorrect, PTL

-----------------------------------------------------------------------------
(***************************** Refinement *********************************)

\* Every step writes the report as the triggers allow, or not at all.
LEMMA ReportLifecycleStep ==
  ASSUME AuditInv, ClusterInv, ClusterInv', [Next]_vars
  PROVE  OfReport!ReportAllowed \/ UNCHANGED <<execution, report>>
<1> USE DEF OfReport!ReportAllowed, OfReport!ReportEdges
<1>1. /\ report \in ReportRecord /\ ReportMatches /\ ReportMatches'
  BY DEF ClusterInv, ReportTypeOK
<1>2. CASE UNCHANGED vars
  BY <1>2 DEF vars, avars, rvars
<1>3. CASE UNCHANGED rvars /\ (report.status = "absent" \/ execution' = execution)
  BY <1>1, <1>3 DEF rvars, ReportMatches
<1>4. CASE (ReportNext \/ TakeOverReport) /\ execution' = execution
  <2>1. ASSUME NEW p \in Procs, ReportExecutorNext(p)
        PROVE  \/ report' = report
               \/ /\ report.status = "generating" /\ report'.draft = report.draft
                  /\ report'.status \in {"ready", "failed"}
               \/ /\ report.status = "generating" /\ report.draft = "disabled"
                  /\ \E draft \in {"succeeded", "degraded"} :
                       report' = [report EXCEPT !.draft = draft]
    <3>1. CASE SettleDraft(p)
      BY <3>1 DEF SettleDraft, Generating
    <3>2. CASE CompleteReport(p) \/ FailReport(p)
      BY <1>1, <3>2 DEF CompleteReport, FailReport, Completable, Generating,
         ReadyReport, ReportRecord
    <3>3. QED
      BY <2>1, <3>1, <3>2
         DEF ReportExecutorNext, PreflightReport, DraftFails, StorePdf, StoreXlsx,
             CompletionFails, UndoOne, Undone, AdoptReportCancel, StopStale
  <2>2. \/ report' = report
        \/ /\ report'.draft = report.draft
           /\ <<report.status, report'.status>> \in OfReport!ReportEdges
        \/ /\ report.status = "generating" /\ report.draft = "disabled"
           /\ \E draft \in {"succeeded", "degraded"} :
                report' = [report EXCEPT !.draft = draft]
    <3>1. ASSUME NEW w \in Workers, ClaimReport(w)
          PROVE  /\ report'.draft = report.draft
                 /\ <<report.status, report'.status>> \in OfReport!ReportEdges
      BY <1>1, <3>1 DEF ClaimReport, Claimable, ReportRecord
    <3>2. CASE RequeueReport \/ GiveUpReport
      BY <1>1, <3>2 DEF RequeueReport, GiveUpReport, ReportRecoverable, ReportRecord
    <3>3. QED
      BY <1>4, <2>1, <3>1, <3>2
         DEF ReportNext, ReportDelivery, RefuseReportMessage, ReportDispatchDies,
             ReportLeaseExpires, CrashReport, TakeOverReport
  <2>3. QED
    BY <1>1, <1>4, <2>2 DEF ReportMatches
<1>5. CASE report.status = "absent" /\ QueueReport /\ execution'.status = "completed"
  <2>1. report'.status = "queued" /\ report'.draft = "disabled"
    BY <1>5 DEF QueueReport, NoReport
  <2>2. QED
    BY <1>1, <1>5, <2>1 DEF ReportMatches
<1>6. CASE OutdateReport /\ execution'.status = "outdated"
  <2>1. \/ report' = report /\ report.status # "ready"
        \/ /\ report'.draft = report.draft
           /\ <<report.status, report'.status>> \in OfReport!ReportEdges
           /\ report'.status # "ready"
    BY <1>1, <1>6 DEF OutdateReport, ReportRecord
  <2>2. QED
    BY <1>1, <1>6, <2>1 DEF ReportMatches
<1>7. CASE OutdateReadyReport /\ execution'.status = "outdated"
  <2>1. \/ report' = report /\ report.status # "ready"
        \/ /\ report'.draft = report.draft
           /\ report.status = "ready" /\ report'.status = "outdated"
    BY <1>1, <1>7 DEF OutdateReadyReport, ReportRecord
  <2>2. QED
    BY <1>1, <1>7, <2>1 DEF ReportMatches
<1>8. QED
  BY <1>2, <1>3, <1>4, <1>5, <1>6, <1>7, ClusterCases

\* The composition implements the lifecycle that the triggers enforce.
THEOREM RefinesReportLifecycle == Spec => ImplementsReportLifecycle
<1>1. Init => OfReport!Init
  BY DEF Init, ReportInit, OfReport!Init, NoReport
<1>2. AuditInv /\ ClusterInv /\ (AuditInv /\ ClusterInv)' /\ [Next]_vars =>
        [OfReport!ReportAllowed]_<<execution, report>>
  BY ReportLifecycleStep
<1>3. QED
  BY <1>1, <1>2, ClusterCorrect, PTL
     DEF Spec, ImplementsReportLifecycle, OfReport!Spec

-----------------------------------------------------------------------------
(**************************** The artifacts *******************************)

(***************************************************************************)
(* As long as no executor outlives its lease and every reply of a commit   *)
(* arrives, one executor at most works on the report, for the attempt the  *)
(* job has reached and with the lease live; what it has stored is there;   *)
(* and a report that became ready has both objects.                        *)
(***************************************************************************)
Works(p) == rexec[p] # RIdle

WorkMatches(p) ==
  /\ rexec[p].attempt = rjob.attempt
  /\ rjob.status \in {"running", "cancel_requested"}
  /\ rjob.status = "running" => rjob.lease = "live"
  /\ rexec[p].pc = "half" => "pdf" \in artifacts
  /\ rexec[p].pc = "stored" => artifacts = Artifacts

PunctualInv ==
  faults \subseteq {"crash"} =>
    /\ \A p, q \in Procs : Works(p) /\ Works(q) => p = q
    /\ \A p \in Procs : Works(p) => WorkMatches(p)
    /\ report.status \in {"ready", "outdated"} => artifacts = Artifacts

\* A step of an executor writes what this executor remembers, for the attempt
\* it has; it has stored an object when it goes on from storing it.
LEMMA ExecutorWrites ==
  ASSUME ClusterInv, NEW p \in Procs, ReportExecutorNext(p)
  PROVE  /\ \A q \in Procs \ {p} : rexec'[q] = rexec[q]
         /\ rexec'[p] = RIdle \/ rexec'[p].attempt = rexec[p].attempt
         /\ rexec'[p].pc = "half" => "pdf" \in artifacts'
         /\ rexec'[p].pc = "stored" =>
              rexec[p].pc = "half" /\ artifacts' = artifacts \cup {"xlsx"}
<1>1. rexec \in [Procs -> ReportExec] /\ ReportTypeOK
  BY DEF ClusterInv, ReportTypeOK
<1>2. ASSUME NEW to \in ReportExec, rexec' = [rexec EXCEPT ![p] = to],
             to.attempt = rexec[p].attempt, to.pc \notin {"half", "stored"}
      PROVE  /\ \A q \in Procs \ {p} : rexec'[q] = rexec[q]
             /\ rexec'[p].attempt = rexec[p].attempt
             /\ rexec'[p].pc \notin {"half", "stored"}
  BY <1>1, <1>2, ExecWrites
<1>3. ASSUME NEW pc \in {"drafted", "half", "stored", "failing"}, RGoes(p, pc)
      PROVE  /\ \A q \in Procs \ {p} : rexec'[q] = rexec[q]
             /\ rexec'[p].attempt = rexec[p].attempt
             /\ rexec'[p].pc = pc
  BY <1>1, <1>3 DEF RGoes, ReportExec
<1>4. ASSUME NEW todo, NEW code, Undoes(p, todo, code)
      PROVE  /\ \A q \in Procs \ {p} : rexec'[q] = rexec[q]
             /\ rexec'[p].attempt = rexec[p].attempt
             /\ rexec'[p].pc \notin {"half", "stored"}
  BY <1>1, <1>4 DEF Undoes, ReportExec
<1>5. ASSUME RStops(p)
      PROVE  /\ \A q \in Procs \ {p} : rexec'[q] = rexec[q]
             /\ rexec'[p] = RIdle /\ rexec'[p].pc \notin {"half", "stored"}
  BY <1>1, <1>5, ExecStops DEF RIdle
<1>6. CASE PreflightReport(p)
  <2>1. CASE \E code : Fails(p, code)
    BY <1>4, <2>1 DEF Fails
  <2>2. ASSUME NEW pc \in {"drafting", "rendering"},
               rexec' = [rexec EXCEPT ![p].pc = pc, ![p].draft = report.draft]
        PROVE  /\ \A q \in Procs \ {p} : rexec'[q] = rexec[q]
               /\ rexec'[p].attempt = rexec[p].attempt
               /\ rexec'[p].pc \notin {"half", "stored"}
    <3> DEFINE to == [rexec[p] EXCEPT !.pc = pc, !.draft = report.draft]
    <3>1. rexec[p] \in ReportExec /\ report.draft \in {"disabled", "succeeded", "degraded"}
      BY <1>1 DEF ReportTypeOK, ReportRecord
    <3>2. /\ to \in ReportExec /\ to.attempt = rexec[p].attempt
          /\ to.pc \notin {"half", "stored"}
      BY <3>1 DEF ReportExec
    <3>3. rexec' = [rexec EXCEPT ![p] = to]
      BY <1>1, <2>2
    <3>4. QED
      BY <1>2, <3>2, <3>3
  <2>3. QED
    BY <1>6, <2>1, <2>2 DEF PreflightReport
<1>7. CASE SettleDraft(p) \/ DraftFails(p)
  BY <1>3, <1>4, <1>7 DEF SettleDraft, DraftFails, Fails
<1>8. CASE StorePdf(p)
  BY <1>3, <1>4, <1>8 DEF StorePdf, Put, Fails
<1>9. CASE StoreXlsx(p)
  BY <1>3, <1>4, <1>9 DEF StoreXlsx, Put
<1>10. CASE CompleteReport(p) \/ CompletionFails(p)
  BY <1>4, <1>5, <1>10 DEF CompleteReport, CompletionFails
<1>11. CASE UndoOne(p)
  <2>1. PICK object \in Artifacts, code \in Failures \cup {"none"} :
          rexec' = [rexec EXCEPT ![p].todo = @ \ {object}, ![p].code = code]
    <3>1. rexec[p].code \in Failures \cup {"none"}
      BY <1>1 DEF ReportExec, Failures
    <3>2. CASE \E object \in Artifacts : rexec' = [rexec EXCEPT ![p].todo = @ \ {object}]
      <4>1. PICK object \in Artifacts : rexec' = [rexec EXCEPT ![p].todo = @ \ {object}]
        BY <3>2
      <4>2. rexec' = [rexec EXCEPT ![p].todo = @ \ {object}, ![p].code = rexec[p].code]
        BY <1>1, <4>1 DEF ReportExec
      <4>3. QED
        BY <3>1, <4>2
    <3>3. CASE \E object \in Artifacts :
                 rexec' = [rexec EXCEPT ![p].todo = @ \ {object},
                             ![p].code = IF @ = "FENCED" THEN @ ELSE "UNKNOWN"]
      BY <3>1, <3>3 DEF Failures
    <3>4. QED
      BY <1>11, <3>2, <3>3 DEF UndoOne, Artifacts
  <2>2. rexec[p] \in ReportExec /\ rexec[p].pc = "undoing"
    BY <1>1, <1>11 DEF UndoOne
  <2> DEFINE to == [rexec[p] EXCEPT !.todo = @ \ {object}, !.code = code]
  <2>3. to \in ReportExec /\ to.attempt = rexec[p].attempt /\ to.pc = "undoing"
    BY <2>2 DEF ReportExec, Failures
  <2>4. rexec' = [rexec EXCEPT ![p] = to]
    BY <1>1, <2>1
  <2>5. QED
    BY <1>2, <2>3, <2>4
<1>12. CASE Undone(p)
  BY <1>3, <1>5, <1>12 DEF Undone
<1>13. CASE FailReport(p) \/ AdoptReportCancel(p) \/ StopStale(p)
  BY <1>5, <1>13 DEF FailReport, AdoptReportCancel, StopStale
<1>14. QED
  BY <1>6, <1>7, <1>8, <1>9, <1>10, <1>11, <1>12, <1>13 DEF ReportExecutorNext

\* A step of a punctual executor: what ends the job ends its work, and nothing
\* but the completion makes the report ready.
LEMMA PunctualExecutor ==
  ASSUME ClusterInv, PunctualInv, faults \subseteq {"crash"},
         NEW p \in Procs, ReportExecutorNext(p)
  PROVE  PunctualInv'
<1>1. /\ faults' = faults /\ rexec[p].pc # "idle"
  BY DEF ReportExecutorNext, PreflightReport, SettleDraft, DraftFails, StorePdf,
     StoreXlsx, CompleteReport, CompletionFails, UndoOne, Undone, FailReport,
     AdoptReportCancel, StopStale
<1>2. Works(p) /\ WorkMatches(p) /\ \A q \in Procs \ {p} : ~Works(q)
  BY <1>1 DEF PunctualInv, Works, RIdle
<1>3. \A q \in Procs \ {p} : rexec'[q] = RIdle
  BY <1>2, ExecutorWrites DEF Works
<1>4. report.status \notin {"ready", "outdated"} /\ report \in ReportRecord
  BY <1>2 DEF WorkMatches, ClusterInv, ReportTypeOK, ReportMatches,
     ReportAgreesWithJob
<1>5. rexec'[p] = RIdle \/ rjob' = rjob
  <2>1. rexec \in [Procs -> ReportExec]
    BY DEF ClusterInv, ReportTypeOK
  <2>2. QED
    BY <2>1
     DEF ReportExecutorNext, PreflightReport, SettleDraft, DraftFails, StorePdf,
         StoreXlsx, CompleteReport, CompletionFails, UndoOne, Undone, FailReport,
         AdoptReportCancel, StopStale, RStops
<1>6. ASSUME rexec'[p] # RIdle PROVE (WorkMatches(p))'
  <2>1. rjob' = rjob /\ rexec'[p].attempt = rexec[p].attempt
    BY <1>5, <1>6, ExecutorWrites
  <2>2. rexec'[p].pc = "half" => "pdf" \in artifacts'
    BY ExecutorWrites
  <2>3. rexec'[p].pc = "stored" => artifacts' = Artifacts
    <3>1. artifacts \subseteq Artifacts
      BY DEF ClusterInv, ReportTypeOK
    <3>2. ASSUME rexec'[p].pc = "stored"
          PROVE  "pdf" \in artifacts /\ artifacts' = artifacts \cup {"xlsx"}
      BY <1>2, <3>2, ExecutorWrites DEF WorkMatches
    <3>3. QED
      BY <3>1, <3>2 DEF Artifacts
  <2>4. QED
    BY <1>2, <2>1, <2>2, <2>3 DEF WorkMatches
<1>7. report'.status \in {"ready", "outdated"} => artifacts' = Artifacts
  <2>1. CASE CompleteReport(p)
    BY <1>2, <2>1 DEF CompleteReport, WorkMatches
  <2>2. CASE ~CompleteReport(p)
    <3>1. report'.status = report.status \/ report'.status = "failed"
      BY <1>4, <2>2
         DEF ReportExecutorNext, PreflightReport, SettleDraft, DraftFails, StorePdf,
             StoreXlsx, CompletionFails, UndoOne, Undone, FailReport,
             AdoptReportCancel, StopStale, ReportRecord
    <3>2. QED
      BY <1>4, <3>1
  <2>3. QED
    BY <2>1, <2>2
<1>8. QED
  BY <1>3, <1>6, <1>7 DEF PunctualInv, Works

\* Every step of the composition keeps it.
LEMMA PunctualStep ==
  ASSUME AuditInv, ClusterInv, PunctualInv, Next
  PROVE  PunctualInv'
<1> SUFFICES ASSUME faults \subseteq {"crash"} PROVE PunctualInv'
  <2>1. faults' = faults
    BY DEF Next, AuditStep, ReportStep, MaintenanceTakesOver, ReviewExecution,
       EditAuditedFacts, AuditAgain, QueueReport, OutdateReport, OutdateReadyReport,
       TakeOverReport, rvars, ReportNext, ReportDelivery, RefuseReportMessage,
       ReportDispatchDies, ClaimReport, RequeueReport, GiveUpReport,
       ReportLeaseExpires, CrashReport, ReportExecutorNext, PreflightReport,
       SettleDraft, DraftFails, StorePdf, StoreXlsx, CompleteReport,
       CompletionFails, UndoOne, Undone, FailReport, AdoptReportCancel, StopStale
  <2>2. QED
    BY <2>1 DEF PunctualInv
<1>1. /\ \A p, q \in Procs : Works(p) /\ Works(q) => p = q
      /\ \A p \in Procs : Works(p) => WorkMatches(p)
      /\ report.status \in {"ready", "outdated"} => artifacts = Artifacts
  BY DEF PunctualInv
<1>2. /\ report \in ReportRecord /\ rjob \in JobRecord(ReportAttempts)
      /\ rexec \in [Procs -> ReportExec] /\ ReportTypeOK /\ ReportMatches
  BY DEF ClusterInv, ReportTypeOK
<1>3. ASSUME \A p \in Procs : ~Works(p), rexec' = rexec, artifacts' = artifacts,
             report'.status \in {"ready", "outdated"} =>
               report.status \in {"ready", "outdated"}
      PROVE  PunctualInv'
  BY <1>1, <1>3 DEF PunctualInv, Works
<1>4. CASE UNCHANGED rvars
  BY <1>4 DEF rvars, PunctualInv, Works, WorkMatches
<1>5. CASE report.status = "absent" /\ QueueReport
  <2>1. \A p \in Procs : ~Works(p)
    BY <1>2, <1>5 DEF ReportMatches, Works
  <2>2. QED
    BY <1>3, <1>5, <2>1 DEF QueueReport, NoReport
<1>6. CASE OutdateReport
  <2>1. /\ rexec' = rexec /\ artifacts' = artifacts
        /\ report'.status \in {"ready", "outdated"} =>
             report.status \in {"ready", "outdated"}
    BY <1>2, <1>6 DEF OutdateReport, ReportRecord
  <2>2. ASSUME NEW p \in Procs, Works(p) PROVE (WorkMatches(p))'
    <3>1. WorkMatches(p)
      BY <1>1, <2>2
    <3>2. /\ rjob'.attempt = rjob.attempt
          /\ rjob'.status = "cancel_requested"
      BY <1>2, <1>6, <3>1, ReportCancelFields DEF OutdateReport, WorkMatches
    <3>3. QED
      BY <2>1, <3>1, <3>2 DEF WorkMatches
  <2>3. QED
    BY <1>1, <2>1, <2>2 DEF PunctualInv, Works
<1>7. CASE OutdateReadyReport
  <2>1. /\ rexec' = rexec /\ artifacts' = artifacts /\ rjob' = rjob
        /\ report'.status \in {"ready", "outdated"} =>
             report.status \in {"ready", "outdated"}
    BY <1>2, <1>7 DEF OutdateReadyReport, ReportRecord
  <2>2. QED
    BY <1>1, <2>1 DEF PunctualInv, Works, WorkMatches
<1>8. ASSUME NEW p \in Procs, RStarts(p), \A q \in Procs : ~Works(q),
             rjob' = Started(rjob), rjob.attempt < ReportAttempts,
             artifacts' = artifacts,
             report'.status \notin {"ready", "outdated"}
      PROVE  PunctualInv'
  <2>1. /\ rexec'[p].pc = "claimed"
        /\ \A q \in Procs \ {p} : rexec'[q] = RIdle
    BY <1>2, <1>8, ExecStarts DEF Works
  <2>2. rexec'[p].attempt = rjob.attempt + 1
    BY <1>2, <1>8 DEF RStarts, RIdle
  <2>3. /\ rjob'.attempt = rjob.attempt + 1 /\ rjob'.status = "running"
        /\ rjob'.lease = "live"
    BY <1>2, <1>8 DEF Started, JobRecord
  <2>4. (WorkMatches(p))'
    BY <2>1, <2>2, <2>3 DEF WorkMatches
  <2>5. QED
    BY <1>8, <2>1, <2>4 DEF PunctualInv, Works
<1>9. ASSUME rjob.status \notin {"running", "cancel_requested"}
             \/ (rjob.status = "running" /\ rjob.lease = "expired")
      PROVE  \A p \in Procs : ~Works(p)
  BY <1>1, <1>9 DEF WorkMatches
<1>10. CASE RefuseReportMessage
  BY <1>1, <1>10 DEF RefuseReportMessage, PunctualInv, Works, WorkMatches
<1>11. CASE ReportDispatchDies
  BY <1>3, <1>9, <1>11 DEF ReportDispatchDies
<1>12. ASSUME NEW w \in Workers, ClaimReport(w) PROVE PunctualInv'
  <2>1. rjob.status = "queued" /\ rjob.attempt < ReportAttempts /\ w \in Procs
    BY <1>2, <1>12 DEF ClaimReport, Claimable, ReportMatches, Procs
  <2>2. report'.status = "generating"
    BY <1>2, <1>12 DEF ClaimReport, ReportRecord
  <2>3. QED
    BY <1>8, <1>9, <1>12, <2>1, <2>2 DEF ClaimReport
<1>13. CASE RequeueReport
  <2>1. report'.status = "queued" /\ rjob.status = "failed"
    BY <1>2, <1>13 DEF RequeueReport, ReportRecord
  <2>2. QED
    BY <1>3, <1>9, <1>13, <2>1 DEF RequeueReport
<1>14. CASE GiveUpReport
  <2>1. /\ report'.status = "failed"
        /\ rjob.status = "running" /\ rjob.lease = "expired"
    BY <1>2, <1>14 DEF GiveUpReport, ReportRecoverable, Lost, ReportRecord
  <2>2. QED
    BY <1>3, <1>9, <1>14, <2>1 DEF GiveUpReport
<1>15. CASE TakeOverReport
  <2>1. /\ report' = report /\ report.status = "generating"
        /\ rjob.status = "running" /\ rjob.lease = "expired"
        /\ Maintenance \in Procs
    BY <1>15 DEF TakeOverReport, ReportRecoverable, Lost, Procs
  <2>2. QED
    BY <1>8, <1>9, <1>15, <2>1 DEF TakeOverReport
<1>16. CASE ReportLeaseExpires
  <2>1. \A p \in Procs : ~Works(p)
    BY <1>1, <1>16 DEF ReportLeaseExpires, ReportAlive, Works, WorkMatches
  <2>2. QED
    BY <1>3, <1>16, <2>1 DEF ReportLeaseExpires
<1>17. ASSUME NEW p \in Procs, CrashReport(p) PROVE PunctualInv'
  <2>1. /\ rexec'[p] = RIdle /\ \A q \in Procs \ {p} : rexec'[q] = rexec[q]
        /\ rjob' = rjob /\ artifacts' = artifacts /\ report' = report
    BY <1>2, <1>17, ExecStops DEF CrashReport
  <2>2. QED
    BY <1>1, <2>1 DEF PunctualInv, Works, WorkMatches
<1>18. ASSUME NEW p \in Procs, ReportExecutorNext(p) PROVE PunctualInv'
  BY <1>18, PunctualExecutor
<1>19. ASSUME ReportNext \/ TakeOverReport PROVE PunctualInv'
  BY <1>10, <1>11, <1>12, <1>13, <1>14, <1>15, <1>16, <1>17, <1>18, <1>19
     DEF ReportNext, ReportDelivery
<1>20. QED
  BY <1>4, <1>5, <1>6, <1>7, <1>19, ClusterCases

\* A report that became ready keeps both objects, through crashes, retries,
\* takeovers, edits and repeated audits, as long as executors are punctual.
THEOREM ArtifactsAreKept == Spec => []ReadyKeepsArtifacts
<1>1. Init => PunctualInv
  BY DEF Init, ReportInit, PunctualInv, Works, NoReport
<1>2. PunctualInv /\ UNCHANGED vars => PunctualInv'
  BY DEF vars, rvars, PunctualInv, Works, WorkMatches
<1>3. PunctualInv => ReadyKeepsArtifacts
  BY DEF PunctualInv, ReadyKeepsArtifacts
<1>4. AuditInv /\ ClusterInv /\ PunctualInv /\ [Next]_vars => PunctualInv'
  BY <1>2, PunctualStep
<1>5. QED
  BY <1>1, <1>3, <1>4, ClusterCorrect, PTL DEF Spec

(***************************************************************************)
(* When nothing is lost and nobody crashes, somebody works on every job    *)
(* that runs, and whoever works knows what is stored: nothing before the   *)
(* first put, the first object after it, no more than what is to be        *)
(* deleted while it is undone.  What waits to be tried, and what failed    *)
(* with another code than unknown, has stored nothing.                     *)
(***************************************************************************)
Compensated == {"TRANSIENT", "INVALID"}

StoredExactly(p) ==
  /\ rexec[p].pc \in {"claimed", "drafting", "drafted", "rendering"} => artifacts = {}
  /\ rexec[p].pc = "half" => artifacts \subseteq {"pdf"}
  /\ rexec[p].pc = "undoing" => rexec[p].code # "FENCED"
  /\ rexec[p].pc = "undoing" /\ rexec[p].code \in Compensated =>
       artifacts \subseteq rexec[p].todo
  /\ rexec[p].pc = "failing" /\ rexec[p].code \in Compensated => artifacts = {}

ExactInv ==
  faults = {} =>
    /\ rjob.status = "running" => \E p \in Procs : Works(p)
    /\ rjob.status = "cancel_requested" => report.failure = "OUTDATED"
    /\ \A p \in Procs : Works(p) => StoredExactly(p)
    /\ report.status \in {"absent", "queued"} \/ report.failure \in Compensated =>
         artifacts = {}

\* Who works on a report that has neither failed with one of these codes nor
\* waits: the job runs or its cancellation was requested.
LEMMA WorkIsOnOpenJob ==
  ASSUME ClusterInv, PunctualInv, ExactInv, faults = {}, NEW p \in Procs, Works(p)
  PROVE  /\ report.status \notin {"absent", "queued"}
         /\ report.failure \notin Compensated
         /\ WorkMatches(p) /\ StoredExactly(p)
         /\ \A q \in Procs \ {p} : rexec[q] = RIdle
<1>1. WorkMatches(p) /\ StoredExactly(p) /\ \A q \in Procs \ {p} : rexec[q] = RIdle
  BY DEF PunctualInv, ExactInv, Works
<1>2. rjob.status = "running" \/ rjob.status = "cancel_requested"
  BY <1>1 DEF WorkMatches
<1>3. ReportMatches /\ ReportAgreesWithJob
  BY DEF ClusterInv, ReportMatches
<1>4. CASE rjob.status = "running"
  BY <1>1, <1>3, <1>4 DEF ReportMatches, ReportAgreesWithJob, Compensated
<1>5. CASE rjob.status = "cancel_requested"
  <2>1. report.failure = "OUTDATED"
    BY <1>5 DEF ExactInv
  <2> QED BY <1>1, <1>3, <1>5, <2>1 DEF ReportMatches, ReportAgreesWithJob, Compensated
<1> QED BY <1>2, <1>4, <1>5

\* A step of an executor when nothing is lost.
LEMMA ExactExecutor ==
  ASSUME ClusterInv, PunctualInv, ExactInv, faults = {},
         NEW p \in Procs, ReportExecutorNext(p)
  PROVE  ExactInv'
<1>1. faults' = {} /\ Works(p)
  <2>1. faults' = {} /\ rexec[p].pc # "idle"
    BY DEF ReportExecutorNext, PreflightReport, SettleDraft, DraftFails, StorePdf,
       StoreXlsx, CompleteReport, CompletionFails, UndoOne, Undone, FailReport,
       AdoptReportCancel, StopStale
  <2> QED BY <2>1 DEF Works, RIdle
<1>2. /\ report.status \notin {"absent", "queued"} /\ report.failure \notin Compensated
      /\ WorkMatches(p) /\ StoredExactly(p)
  BY <1>1, WorkIsOnOpenJob
<1>3. \A q \in Procs \ {p} : rexec'[q] = RIdle
  BY <1>1, ExecutorWrites, WorkIsOnOpenJob
<1>4. /\ ReportTypeOK /\ ReportMatches /\ ReportAgreesWithJob /\ ExecMatches(p)
      /\ report \in ReportRecord /\ rjob \in JobRecord(ReportAttempts)
      /\ rexec \in [Procs -> ReportExec] /\ artifacts \subseteq Artifacts
  BY DEF ClusterInv, ReportTypeOK, ReportMatches, ExecsMatch
<1>5. rjob.status = "cancel_requested" => report.failure = "OUTDATED"
  BY DEF ExactInv
<1>6. ASSUME rjob' = rjob, report'.status = report.status, report'.failure = report.failure,
             rexec'[p] # RIdle, StoredExactly(p)'
      PROVE  ExactInv'
  BY <1>2, <1>3, <1>5, <1>6 DEF ExactInv, Works
<1>7. ASSUME rexec'[p] = RIdle, rjob'.status # "running",
             rjob'.status = "cancel_requested" => report'.failure = "OUTDATED",
             report'.status \notin {"absent", "queued"},
             report'.failure \in Compensated => artifacts' = {}
      PROVE  ExactInv'
  BY <1>3, <1>7 DEF ExactInv, Works
<1>8. ASSUME NEW pc \in {"drafted", "half", "stored", "failing"}, RGoes(p, pc),
             rjob' = rjob, report'.status = report.status, report'.failure = report.failure,
             pc = "drafted" => artifacts' = {},
             pc = "half" => artifacts' \subseteq {"pdf"},
             pc = "failing" /\ rexec[p].code \in Compensated => artifacts' = {}
      PROVE  ExactInv'
  <2>1. rexec'[p].pc = pc /\ rexec'[p].code = rexec[p].code
    BY <1>4, <1>8, ExecGoes
  <2> QED BY <1>6, <1>8, <2>1 DEF StoredExactly, RIdle
<1>9. ASSUME NEW todo \in SUBSET Artifacts, NEW code \in {"TRANSIENT", "INVALID"},
             Undoes(p, todo, code), artifacts' \subseteq todo, rjob' = rjob,
             report'.status = report.status, report'.failure = report.failure
      PROVE  ExactInv'
  <2>1. rexec'[p].pc = "undoing" /\ rexec'[p].code = code /\ rexec'[p].todo = todo
    BY <1>4, <1>9, ExecUndoes DEF Failures
  <2> QED BY <1>6, <1>9, <2>1 DEF StoredExactly, RIdle
<1>10. ASSUME NEW code \in {"TRANSIENT", "INVALID"}, Fails(p, code), artifacts' = {},
              rjob' = rjob, report'.status = report.status, report'.failure = report.failure
       PROVE  ExactInv'
  BY <1>9, <1>10 DEF Fails
<1>11. CASE PreflightReport(p)
  <2>1. artifacts = {} /\ artifacts' = {} /\ report' = report /\ rjob' = rjob
    BY <1>2, <1>11 DEF PreflightReport, StoredExactly
  <2>2. CASE Fails(p, "INVALID") \/ Fails(p, "TRANSIENT")
    BY <1>10, <2>1, <2>2
  <2>3. ASSUME NEW pc \in {"drafting", "rendering"},
               rexec' = [rexec EXCEPT ![p].pc = pc, ![p].draft = report.draft]
        PROVE  ExactInv'
    <3> DEFINE to == [rexec[p] EXCEPT !.pc = pc, !.draft = report.draft]
    <3>1. rexec[p] \in ReportExec /\ report.draft \in {"disabled", "succeeded", "degraded"}
      BY <1>4 DEF ReportRecord
    <3>2. to \in ReportExec /\ to.pc = pc
      BY <3>1 DEF ReportExec
    <3>3. rexec' = [rexec EXCEPT ![p] = to]
      BY <1>4, <2>3
    <3>4. rexec'[p].pc = pc
      BY <1>4, <3>2, <3>3, ExecWrites
    <3> QED BY <1>6, <2>1, <3>4 DEF StoredExactly, RIdle
  <2> QED BY <1>11, <2>2, <2>3 DEF PreflightReport
<1>12. CASE SettleDraft(p)
  <2>1. /\ artifacts' = {} /\ rjob' = rjob
        /\ report'.status = report.status /\ report'.failure = report.failure
    BY <1>2, <1>4, <1>12 DEF SettleDraft, StoredExactly, ReportRecord
  <2> QED BY <1>8, <1>10, <1>12, <2>1 DEF SettleDraft
<1>13. CASE DraftFails(p)
  <2>1. artifacts' = {} /\ rjob' = rjob /\ report' = report
    BY <1>2, <1>13 DEF DraftFails, StoredExactly
  <2> QED BY <1>10, <1>13, <2>1 DEF DraftFails
<1>14. CASE StorePdf(p)
  <2>1. artifacts = {} /\ rjob' = rjob /\ report' = report
    BY <1>2, <1>14 DEF StorePdf, StoredExactly
  <2>2. CASE artifacts' = artifacts \cup {"pdf"} /\ RGoes(p, "half")
    BY <1>8, <2>1, <2>2
  <2>3. CASE artifacts' = artifacts \ {"pdf"} /\ Undoes(p, {}, "TRANSIENT")
    BY <1>9, <2>1, <2>3
  <2>4. CASE /\ artifacts' \in {artifacts, artifacts \cup {"pdf"}}
             /\ Undoes(p, {} \cup {"pdf"}, "TRANSIENT")
    <3>1. {} \cup {"pdf"} \in SUBSET Artifacts /\ artifacts' \subseteq {} \cup {"pdf"}
      BY <2>1, <2>4 DEF Artifacts
    <3> QED BY <1>9, <2>1, <2>4, <3>1
  <2>5. CASE (\E code \in {"INVALID", "TRANSIENT"} : Fails(p, code)) /\ UNCHANGED artifacts
    BY <1>10, <2>1, <2>5
  <2> QED BY <1>14, <2>2, <2>3, <2>4, <2>5 DEF StorePdf, Put
<1>15. CASE StoreXlsx(p)
  <2>1. artifacts \subseteq {"pdf"} /\ rjob' = rjob /\ report' = report
    BY <1>2, <1>15 DEF StoreXlsx, StoredExactly
  <2>2. CASE RGoes(p, "stored")
    BY <1>8, <2>1, <2>2
  <2>3. CASE artifacts' = artifacts \ {"xlsx"} /\ Undoes(p, {"pdf"}, "TRANSIENT")
    <3>1. {"pdf"} \in SUBSET Artifacts /\ artifacts' \subseteq {"pdf"}
      BY <2>1, <2>3 DEF Artifacts
    <3> QED BY <1>9, <2>1, <2>3, <3>1
  <2>4. CASE /\ artifacts' \in {artifacts, artifacts \cup {"xlsx"}}
             /\ Undoes(p, {"pdf"} \cup {"xlsx"}, "TRANSIENT")
    <3>1. /\ {"pdf"} \cup {"xlsx"} \in SUBSET Artifacts
          /\ artifacts' \subseteq {"pdf"} \cup {"xlsx"}
      BY <2>1, <2>4 DEF Artifacts
    <3> QED BY <1>9, <2>1, <2>4, <3>1
  <2> QED BY <1>15, <2>2, <2>3, <2>4 DEF StoreXlsx, Put
<1>16. CASE CompleteReport(p)
  <2>1. RStops(p) /\ report' = ReadyReport /\ rjob' = Over(rjob, "succeeded", FALSE)
    BY <1>16 DEF CompleteReport
  <2>2. rexec'[p] = RIdle
    BY <1>4, <2>1, ExecStops
  <2>3. report'.status = "ready" /\ report'.failure = "none" /\ rjob'.status = "succeeded"
    BY <1>4, <2>1, ReportJobFields DEF ReadyReport, ReportRecord
  <2> QED BY <1>7, <2>2, <2>3 DEF Compensated
<1>17. CASE CompletionFails(p)
  <2>1. /\ rjob' = rjob /\ report' = report /\ artifacts' \subseteq Artifacts
        /\ Artifacts \in SUBSET Artifacts
    BY <1>4, <1>17 DEF CompletionFails
  <2>2. ~(Completable(p) /\ ~RHolds(p))
    BY <1>2, <1>4
    DEF Completable, Generating, RHolds, HoldsLease, WorkMatches, ReportAgreesWithJob
  <2> QED BY <1>9, <1>17, <2>1, <2>2 DEF CompletionFails
<1>18. CASE UndoOne(p)
  <2>1. /\ rjob' = rjob /\ report' = report /\ rexec[p] \in ReportExec
        /\ rexec[p].pc = "undoing" /\ rexec[p].todo # {} /\ rexec[p].todo \subseteq Artifacts
        /\ rexec[p].code # "FENCED"
    BY <1>2, <1>4, <1>18 DEF UndoOne, StoredExactly, ReportExec
  <2>2. PICK object : object = IF "xlsx" \in rexec[p].todo THEN "xlsx" ELSE "pdf"
    OBVIOUS
  <2>3. CASE /\ artifacts' = artifacts \ {object}
             /\ rexec' = [rexec EXCEPT ![p].todo = @ \ {object}]
    <3>1. /\ rexec'[p].pc = "undoing" /\ rexec'[p].code = rexec[p].code
          /\ rexec'[p].todo = rexec[p].todo \ {object}
      BY <1>4, <2>1, <2>3 DEF ReportExec
    <3>2. rexec[p].code \in Compensated => artifacts' \subseteq rexec'[p].todo
      BY <1>2, <2>1, <2>3, <3>1 DEF StoredExactly
    <3> QED BY <1>6, <2>1, <3>1, <3>2 DEF StoredExactly, RIdle
  <2>4. CASE rexec' = [rexec EXCEPT ![p].todo = @ \ {object},
                         ![p].code = IF @ = "FENCED" THEN @ ELSE "UNKNOWN"]
    <3>1. rexec'[p].pc = "undoing" /\ rexec'[p].code = "UNKNOWN"
      BY <1>4, <2>1, <2>4 DEF ReportExec
    <3> QED BY <1>6, <2>1, <3>1 DEF StoredExactly, RIdle, Compensated
  <2> QED BY <1>18, <2>2, <2>3, <2>4 DEF UndoOne
<1>19. CASE Undone(p)
  <2>1. /\ RGoes(p, "failing") /\ rjob' = rjob /\ report' = report
        /\ rexec[p].code \in Compensated => artifacts' = {}
    BY <1>2, <1>19 DEF Undone, StoredExactly
  <2> QED BY <1>8, <2>1
<1>20. CASE FailReport(p)
  <2>1. PICK retry : rjob' = Over(rjob, "failed", retry)
    BY <1>20 DEF FailReport
  <2>2. rjob'.status = "failed"
    BY <1>4, <2>1 DEF Over, JobRecord
  <2>3. report'.status = "failed" /\ report'.failure = rexec[p].code
    BY <1>4, <1>20 DEF FailReport, ReportRecord
  <2>4. rexec[p].code \in Compensated => artifacts' = {}
    BY <1>2, <1>20 DEF FailReport, StoredExactly
  <2>5. rexec'[p] = RIdle
    BY <1>4, <1>20, ExecStops DEF FailReport
  <2> QED BY <1>7, <2>2, <2>3, <2>4, <2>5
<1>21. CASE AdoptReportCancel(p)
  <2>1. rexec'[p] = RIdle /\ report' = report /\ rjob'.status = "cancelled"
    BY <1>4, <1>21, ExecStops, ReportJobFields DEF AdoptReportCancel
  <2> QED BY <1>2, <1>7, <2>1
<1>22. CASE StopStale(p)
  <2>1. rexec'[p] = RIdle /\ report' = report /\ rjob' = rjob
    BY <1>4, <1>22, ExecStops DEF StopStale
  <2>2. rjob.status # "running"
    BY <1>2, <1>4, <1>22
    DEF StopStale, WorkMatches, RHolds, HoldsLease, ReportAgreesWithJob
  <2> QED BY <1>2, <1>5, <1>7, <2>1, <2>2
<1> QED
  BY <1>11, <1>12, <1>13, <1>14, <1>15, <1>16, <1>17, <1>18, <1>19, <1>20, <1>21, <1>22
  DEF ReportExecutorNext

\* Every step of the composition keeps it: no lease runs out, hence nothing is
\* taken over; what begins begins with nothing stored.
LEMMA ExactStep ==
  ASSUME AuditInv, ClusterInv, PunctualInv, ExactInv, Next
  PROVE  ExactInv'
<1> SUFFICES ASSUME faults = {} PROVE ExactInv'
  <2>1. faults' = faults
    BY DEF Next, AuditStep, ReportStep, MaintenanceTakesOver, ReviewExecution,
       EditAuditedFacts, AuditAgain, QueueReport, OutdateReport, OutdateReadyReport,
       TakeOverReport, rvars, ReportNext, ReportDelivery, RefuseReportMessage,
       ReportDispatchDies, ClaimReport, RequeueReport, GiveUpReport,
       ReportLeaseExpires, CrashReport, ReportExecutorNext, PreflightReport,
       SettleDraft, DraftFails, StorePdf, StoreXlsx, CompleteReport,
       CompletionFails, UndoOne, Undone, FailReport, AdoptReportCancel, StopStale
  <2> QED BY <2>1 DEF ExactInv
<1>1. /\ rjob.status = "running" => \E p \in Procs : Works(p)
      /\ rjob.status = "cancel_requested" => report.failure = "OUTDATED"
      /\ \A p \in Procs : Works(p) => StoredExactly(p)
      /\ report.status \in {"absent", "queued"} \/ report.failure \in Compensated =>
           artifacts = {}
  BY DEF ExactInv
<1>2. /\ report \in ReportRecord /\ rjob \in JobRecord(ReportAttempts)
      /\ rexec \in [Procs -> ReportExec] /\ ReportTypeOK /\ ReportMatches
      /\ ReportAgreesWithJob
  BY DEF ClusterInv, ReportTypeOK, ReportMatches
<1>3. \A p \in Procs : Works(p) => WorkMatches(p)
  BY DEF PunctualInv
<1>4. rjob.status \notin {"running", "cancel_requested"} => \A p \in Procs : ~Works(p)
  BY <1>3 DEF WorkMatches
<1>5. ~Lost(rjob)
  BY <1>1, <1>3 DEF Lost, WorkMatches
<1>6. ASSUME rexec' = rexec, artifacts' = artifacts,
             rjob'.status = "running" => rjob.status = "running",
             rjob'.status = "cancel_requested" => report'.failure = "OUTDATED",
             report'.status \in {"absent", "queued"} \/ report'.failure \in Compensated =>
               artifacts = {}
      PROVE  ExactInv'
  BY <1>1, <1>6 DEF ExactInv, Works, StoredExactly
<1>7. CASE UNCHANGED rvars
  BY <1>1, <1>7 DEF rvars, ExactInv, Works, StoredExactly
<1>8. CASE report.status = "absent" /\ QueueReport
  <2>1. rjob'.status = "queued"
    BY <1>2, <1>8, ReportJobFields DEF QueueReport
  <2> QED BY <1>1, <1>6, <1>8, <2>1 DEF QueueReport
<1>9. CASE OutdateReport
  <2>1. rexec' = rexec /\ artifacts' = artifacts /\ rjob' = CancelAsked(rjob)
    BY <1>9 DEF OutdateReport
  <2>2. /\ rjob'.status # "running"
        /\ rjob'.status = "cancel_requested" => rjob.status \in {"running", "cancel_requested"}
    BY <1>2, <2>1, ReportCancelFields DEF CancelAsked, Over, JobRecord
  <2>3. CASE report.status \in {"queued", "generating"}
    <3>1. report'.status = "failed" /\ report'.failure = "OUTDATED"
      BY <1>2, <1>9, <2>3 DEF OutdateReport, ReportRecord
    <3> QED BY <1>6, <2>1, <2>2, <3>1 DEF Compensated
  <2>4. CASE report.status \notin {"queued", "generating"}
    <3>1. /\ report'.failure = report.failure
          /\ report'.status \in {"absent", "queued"} => report.status \in {"absent", "queued"}
      BY <1>2, <1>9, <2>4 DEF OutdateReport, ReportRecord
    <3>2. rjob.status # "running"
      BY <1>2, <2>4 DEF ReportAgreesWithJob
    <3> QED BY <1>1, <1>6, <2>1, <2>2, <3>1, <3>2
  <2> QED BY <2>3, <2>4
<1>10. CASE OutdateReadyReport
  <2>1. /\ rexec' = rexec /\ artifacts' = artifacts /\ rjob' = rjob
        /\ report'.failure = report.failure
        /\ report'.status \in {"absent", "queued"} => report.status \in {"absent", "queued"}
    BY <1>2, <1>10 DEF OutdateReadyReport, ReportRecord
  <2> QED BY <1>1, <1>6, <2>1
<1>11. CASE RefuseReportMessage
  BY <1>1, <1>6, <1>11 DEF RefuseReportMessage
<1>12. CASE ReportDispatchDies
  <2>1. rjob'.status = "failed"
    BY <1>2, <1>12, ReportJobFields DEF ReportDispatchDies
  <2> QED BY <1>1, <1>6, <1>12, <2>1 DEF ReportDispatchDies
<1>13. ASSUME NEW w \in Workers, ClaimReport(w) PROVE ExactInv'
  <2>1. rjob.status = "queued" /\ report.status = "queued" /\ rjob.attempt < ReportAttempts
    BY <1>2, <1>13 DEF ClaimReport, Claimable, ReportMatches
  <2>2. /\ rexec'[w].pc = "claimed" /\ \A q \in Procs \ {w} : rexec'[q] = rexec[q]
        /\ w \in Procs
    BY <1>2, <1>13, <2>1, ExecStarts DEF ClaimReport, Procs
  <2>3. /\ rjob'.status = "running" /\ artifacts' = {}
        /\ report'.status = "generating" /\ report'.failure = report.failure
    BY <1>1, <1>2, <1>13, <2>1, ReportJobFields DEF ClaimReport, ReportRecord
  <2>4. Works(w)' /\ StoredExactly(w)'
    BY <2>2, <2>3 DEF Works, StoredExactly, RIdle
  <2>5. \A q \in Procs \ {w} : ~Works(q)'
    BY <1>4, <2>1, <2>2 DEF Works
  <2> QED BY <1>1, <2>2, <2>3, <2>4, <2>5 DEF ExactInv
<1>14. CASE RequeueReport
  <2>1. /\ rexec' = rexec /\ artifacts' = artifacts
        /\ rjob' = Requeued(rjob) /\ rjob.retry
    BY <1>14 DEF RequeueReport
  <2>2. rjob'.status = "queued"
    BY <1>2, <2>1, ReportJobFields
  <2>3. report.failure = "TRANSIENT"
    BY <1>2, <2>1 DEF ReportAgreesWithJob
  <2> QED BY <1>1, <1>6, <2>1, <2>2, <2>3 DEF Compensated
<1>15. CASE GiveUpReport \/ TakeOverReport
  BY <1>5, <1>15 DEF GiveUpReport, TakeOverReport, ReportRecoverable
<1>16. CASE ReportLeaseExpires
  BY <1>1, <1>3, <1>16 DEF ReportLeaseExpires, ReportAlive, Works, WorkMatches
<1>17. ASSUME NEW p \in Procs, CrashReport(p) PROVE ExactInv'
  BY <1>17 DEF CrashReport
<1>18. ASSUME NEW p \in Procs, ReportExecutorNext(p) PROVE ExactInv'
  BY <1>18, ExactExecutor
<1>19. ASSUME ReportNext \/ TakeOverReport PROVE ExactInv'
  BY <1>11, <1>12, <1>13, <1>14, <1>15, <1>16, <1>17, <1>18, <1>19
     DEF ReportNext, ReportDelivery
<1> QED
  BY <1>7, <1>8, <1>9, <1>10, <1>19, ClusterCases

\* A failed generation without crash, stall or lost reply has compensated all it
\* stored, however often it was tried and whatever was edited meanwhile, or its
\* report says that the outcome is unknown (_compensate, _fail).
THEOREM CompensationWasExact == Spec => []CompensationIsExact
<1>1. Init => PunctualInv /\ ExactInv
  BY DEF Init, ReportInit, PunctualInv, ExactInv, Works, NoReport, NoJob
<1>2. (PunctualInv /\ UNCHANGED vars => PunctualInv') /\ (ExactInv /\ UNCHANGED vars => ExactInv')
  BY DEF vars, rvars, PunctualInv, ExactInv, Works, WorkMatches, StoredExactly
<1>3. ExactInv => CompensationIsExact
  BY DEF ExactInv, CompensationIsExact, Compensated
<1>4. AuditInv /\ ClusterInv /\ PunctualInv /\ ExactInv /\ [Next]_vars => (PunctualInv /\ ExactInv)'
  BY <1>2, PunctualStep, ExactStep
<1>5. QED
  BY <1>1, <1>3, <1>4, ClusterCorrect, PTL DEF Spec

-----------------------------------------------------------------------------
(*************************** The rows of the jobs **************************)

(***************************************************************************)
(* What the transactions of services, executors and maintenance write to a *)
(* job of either kind, and what is true of the row it is written to: an    *)
(* attempt that runs has a number and a lease, and so has had one what is  *)
(* to be tried again.                                                      *)
(***************************************************************************)
JobWritten(old, new, max) ==
  \/ new = old
  \/ old.status = "absent" /\ new = NewJob
  \/ (old.status = "queued" \/ Lost(old)) /\ old.attempt < max /\ new = Started(old)
  \/ old.status = "queued" /\ new = Over(old, "failed", FALSE)
  \/ Lost(old) /\ old.attempt = max /\ new = Over(old, "failed", FALSE)
  \/ /\ old.status = "running" /\ old.lease = "live"
     /\ \/ new = Expired(old)
        \/ new = Over(old, "succeeded", FALSE)
        \/ new = Over(old, "failed", FALSE)
        \/ new = Over(old, "failed", TRUE)
  \/ old.status = "cancel_requested" /\ new = Over(old, "cancelled", FALSE)
  \/ /\ old.status = "failed" /\ old.retry /\ old.attempt < max
     /\ new = Requeued(old)
  \/ new = CancelAsked(old)

JobFits(job) ==
  /\ job.status = "running" \/ job.retry => job.attempt > 0
  /\ job.status \in {"running", "cancel_requested"} => job.lease # "none"

LEMMA JobStaysFit ==
  ASSUME NEW max \in Nat, NEW old \in JobRecord(max), NEW new,
         JobFits(old), JobWritten(old, new, max)
  PROVE  JobFits(new)
<1> USE DEF JobRecord, JobFits
<1>1. CASE old.status = "absent" /\ new = NewJob
  BY <1>1 DEF NewJob, NoJob
<1>2. CASE new = Started(old)
  BY <1>2 DEF Started
<1>3. ASSUME NEW status \in {"succeeded", "failed", "cancelled"}, NEW retry \in BOOLEAN,
             new = Over(old, status, retry), retry => old.attempt > 0
      PROVE  JobFits(new)
  BY <1>3 DEF Over
<1>4. CASE new = Requeued(old) \/ new = Expired(old)
  BY <1>4 DEF Requeued, Expired
<1>5. CASE new = CancelAsked(old)
  BY <1>3, <1>5 DEF CancelAsked
<1>6. QED
  BY <1>1, <1>2, <1>3, <1>4, <1>5 DEF JobWritten

\* What JobWritten says is what the trigger accepts of the job audit_execute.
LEMMA AuditRowAllowed ==
  ASSUME ajob \in JobRecord(AuditAttempts), JobFits(ajob),
         JobWritten(ajob, ajob', AuditAttempts)
  PROVE  AuditRow!Next \/ ajob' = ajob
<1> USE DEF JobRecord, JobFits, AuditRow!Moves, AuditRow!SameAttempt, AuditRow!NextAttempt
<1>1. CASE ajob.status = "absent" /\ ajob' = NewJob
  BY <1>1 DEF NewJob, NoJob, AuditRow!Inserted, AuditRow!Next
<1>2. CASE /\ ajob.status = "queued" \/ Lost(ajob)
           /\ ajob.attempt < AuditAttempts /\ ajob' = Started(ajob)
  BY <1>2 DEF Started, Lost, AuditRow!Claimed, AuditRow!TakenOver, AuditRow!Next
<1>3. CASE ajob.status = "queued" /\ ajob' = Over(ajob, "failed", FALSE)
  BY <1>3 DEF Over, AuditRow!DispatchFailed, AuditRow!Next
<1>4. CASE /\ Lost(ajob) /\ ajob.attempt = AuditAttempts
           /\ ajob' = Over(ajob, "failed", FALSE)
  BY <1>4 DEF Over, Lost, AuditRow!Finished, AuditRow!Next
<1>5. CASE ajob.status = "running" /\ ajob' = Expired(ajob)
  BY <1>5 DEF Expired, AuditRow!LeaseEnds, AuditRow!Next
<1>6. ASSUME NEW status \in {"succeeded", "failed"}, NEW retry \in BOOLEAN,
             ajob.status = "running", ajob.lease = "live",
             ajob' = Over(ajob, status, retry)
      PROVE  AuditRow!Next
  BY <1>6 DEF Over, AuditRow!Finished, AuditRow!Next
<1>7. CASE ajob.status = "cancel_requested" /\ ajob' = Over(ajob, "cancelled", FALSE)
  BY <1>7 DEF Over, AuditRow!Cancelled, AuditRow!Next
<1>8. CASE /\ ajob.status = "failed" /\ ajob.retry /\ ajob.attempt < AuditAttempts
           /\ ajob' = Requeued(ajob)
  BY <1>8 DEF Requeued, AuditRow!Retried, AuditRow!Next
<1>9. CASE ajob' = CancelAsked(ajob)
  BY <1>9 DEF CancelAsked, Over, AuditRow!CancelAsked, AuditRow!Cancelled, AuditRow!Next
<1>10. QED
  BY <1>1, <1>2, <1>3, <1>4, <1>5, <1>6, <1>7, <1>8, <1>9 DEF JobWritten
\* What JobWritten says is what the trigger accepts of the job report_generate.
LEMMA ReportRowAllowed ==
  ASSUME rjob \in JobRecord(ReportAttempts), JobFits(rjob),
         JobWritten(rjob, rjob', ReportAttempts)
  PROVE  ReportRow!Next \/ rjob' = rjob
<1> USE DEF JobRecord, JobFits, ReportRow!Moves, ReportRow!SameAttempt, ReportRow!NextAttempt
<1>1. CASE rjob.status = "absent" /\ rjob' = NewJob
  BY <1>1 DEF NewJob, NoJob, ReportRow!Inserted, ReportRow!Next
<1>2. CASE /\ rjob.status = "queued" \/ Lost(rjob)
           /\ rjob.attempt < ReportAttempts /\ rjob' = Started(rjob)
  BY <1>2 DEF Started, Lost, ReportRow!Claimed, ReportRow!TakenOver, ReportRow!Next
<1>3. CASE rjob.status = "queued" /\ rjob' = Over(rjob, "failed", FALSE)
  BY <1>3 DEF Over, ReportRow!DispatchFailed, ReportRow!Next
<1>4. CASE /\ Lost(rjob) /\ rjob.attempt = ReportAttempts
           /\ rjob' = Over(rjob, "failed", FALSE)
  BY <1>4 DEF Over, Lost, ReportRow!Finished, ReportRow!Next
<1>5. CASE rjob.status = "running" /\ rjob' = Expired(rjob)
  BY <1>5 DEF Expired, ReportRow!LeaseEnds, ReportRow!Next
<1>6. ASSUME NEW status \in {"succeeded", "failed"}, NEW retry \in BOOLEAN,
             rjob.status = "running", rjob.lease = "live",
             rjob' = Over(rjob, status, retry)
      PROVE  ReportRow!Next
  BY <1>6 DEF Over, ReportRow!Finished, ReportRow!Next
<1>7. CASE rjob.status = "cancel_requested" /\ rjob' = Over(rjob, "cancelled", FALSE)
  BY <1>7 DEF Over, ReportRow!Cancelled, ReportRow!Next
<1>8. CASE /\ rjob.status = "failed" /\ rjob.retry /\ rjob.attempt < ReportAttempts
           /\ rjob' = Requeued(rjob)
  BY <1>8 DEF Requeued, ReportRow!Retried, ReportRow!Next
<1>9. CASE rjob' = CancelAsked(rjob)
  BY <1>9 DEF CancelAsked, Over, ReportRow!CancelAsked, ReportRow!Cancelled, ReportRow!Next
<1>10. QED
  BY <1>1, <1>2, <1>3, <1>4, <1>5, <1>6, <1>7, <1>8, <1>9 DEF JobWritten

\* Services, workers and maintenance write the job audit_execute in no other way.
LEMMA AuditJobWritten ==
  ASSUME AuditInv, execution.status = "absent" => ajob.status = "absent", AuditNext
  PROVE  JobWritten(ajob, ajob', AuditAttempts)
<1> USE DEF JobWritten
<1>1. ajob.status = "queued" => ajob.attempt < AuditAttempts
  BY DEF AuditInv, AuditTypeOK, JobRecord, JobMatches
<1>2. CASE AuditDelivery
  BY <1>1, <1>2 DEF AuditDelivery, RefuseAuditMessage, AuditDispatchDies, ClaimAudit
<1>3. CASE CreateTask \/ GiveUpAudit \/ TakeOverAudit \/ AuditLeaseExpires
  BY <1>3 DEF CreateTask, GiveUpAudit, TakeOverAudit, AuditRecoverable, AuditLeaseExpires
<1>4. ASSUME NEW p \in Procs, AuditExecutorNext(p)
      PROVE  JobWritten(ajob, ajob', AuditAttempts)
  BY <1>4 DEF AuditExecutorNext, PreflightAudit, CompleteAudit, AuditFails, FailAudit,
     AdoptAuditCancel, MayAdoptCancel, DropAudit, AHolds, HoldsLease
<1>5. CASE CancelExecution \/ EditFacts \/ ReAudit \/ Decide
  BY <1>5 DEF CancelExecution, EditFacts, ReAudit, Decide, FinanceReview, AuditReview
<1>6. ASSUME NEW r \in Risks, NEW user \in Users, ReviewRisk(r, user)
      PROVE  JobWritten(ajob, ajob', AuditAttempts)
  BY <1>6 DEF ReviewRisk
<1>7. QED
  BY <1>2, <1>3, <1>4, <1>5, <1>6 DEF AuditNext, AuditJobNext

\* The job exists once the task is created, and not before.
LEMMA JobIsCreated ==
  ASSUME ajob \in JobRecord(AuditAttempts), ajob.status = "absent", AuditNext, ~CreateTask
  PROVE  ajob'.status = "absent"
<1>1. CancelAsked(ajob) = ajob
  BY DEF CancelAsked
<1>2. ~Lost(ajob) /\ \A p \in Procs : ~AHolds(p) /\ ~MayAdoptCancel(ajob, aexec[p].attempt)
  BY DEF Lost, AHolds, HoldsLease, MayAdoptCancel
<1>3. QED
  BY <1>1, <1>2
     DEF AuditNext, AuditJobNext, AuditDelivery, AuditExecutorNext, Decide,
         RefuseAuditMessage, AuditDispatchDies, ClaimAudit, GiveUpAudit,
         AuditLeaseExpires, CancelExecution, PreflightAudit, CompleteAudit,
         AuditFails, FailAudit, AdoptAuditCancel, DropAudit, ReviewRisk, FinanceReview,
         AuditReview, TakeOverAudit, EditFacts, ReAudit, AuditRecoverable

\* What is true of the row of the job beside AuditInv.
AuditJobInv ==
  JobFits(ajob) /\ (execution.status = "absent" => ajob.status = "absent")

\* The job audit_execute obeys its trigger, whatever ends the execution while an
\* attempt runs (enforce_async_jobs_state_v1).
THEOREM RefinesAuditRow == AuditSpec => ImplementsAuditRow
<1>1. AuditInit => AuditJobInv /\ AuditRow!Init
  BY DEF AuditInit, AuditJobInv, JobFits, NoJob, AuditRow!Init
<1>2. ASSUME AuditInv, AuditJobInv, [AuditNext]_avars
      PROVE  AuditJobInv' /\ [AuditRow!Next]_ajob
  <2>1. CASE UNCHANGED avars
    BY <1>2, <2>1 DEF avars, AuditJobInv, JobFits
  <2>2. CASE AuditNext
    <3>1. ajob \in JobRecord(AuditAttempts) /\ execution \in ExecutionRecord
      BY <1>2 DEF AuditInv, AuditTypeOK
    <3>2. JobWritten(ajob, ajob', AuditAttempts)
      BY <1>2, <2>2, AuditJobWritten DEF AuditJobInv
    <3>3. JobFits(ajob') /\ [AuditRow!Next]_ajob
      BY <1>2, <3>1, <3>2, JobStaysFit, AuditRowAllowed DEF AuditJobInv
    <3>4. ASSUME execution'.status = "absent" PROVE ajob'.status = "absent"
      <4>1. ~CreateTask
        BY <3>1, <3>4 DEF CreateTask, ExecutionRecord
      <4>2. execution.status = "absent"
        <5>1. Evaluated.status # "absent"
          BY <3>1 DEF Evaluated, ExecutionRecord
        <5>2. QED
          BY <1>2, <2>2, <3>4, <4>1, <5>1, ExecutionUpdates DEF ResultsIn
      <4>3. QED
        BY <1>2, <2>2, <3>1, <4>1, <4>2, JobIsCreated DEF AuditJobInv
    <3>5. QED
      BY <3>3, <3>4 DEF AuditJobInv, JobFits
  <2>3. QED
    BY <1>2, <2>1, <2>2
<1>3. QED
  BY <1>1, <1>2, AuditCorrect, PTL DEF AuditSpec, ImplementsAuditRow, AuditRow!Spec

\* Services, executors and maintenance write the job report_generate in no other
\* way.
LEMMA ReportJobWritten ==
  ASSUME AuditInv, ClusterInv, Next
  PROVE  JobWritten(rjob, rjob', ReportAttempts)
<1> USE DEF JobWritten
<1>1. /\ rjob \in JobRecord(ReportAttempts)
      /\ rjob.status = "queued" \/ rjob.retry => rjob.attempt < ReportAttempts
      /\ report.status = "absent" => rjob.status = "absent"
  BY DEF ClusterInv, ReportTypeOK, ReportMatches
<1>2. CASE UNCHANGED rvars
  BY <1>2 DEF rvars
<1>3. CASE TakeOverReport
  BY <1>3 DEF TakeOverReport, ReportRecoverable
<1>4. CASE ReportNext
  <2>1. CASE ReportDelivery \/ ReportLeaseExpires
    BY <1>1, <2>1 DEF ReportDelivery, RefuseReportMessage, ReportDispatchDies,
       ClaimReport, Claimable, ReportLeaseExpires
  <2>2. CASE RequeueReport \/ GiveUpReport
    BY <1>1, <2>2 DEF RequeueReport, GiveUpReport, ReportRecoverable
  <2>3. ASSUME NEW p \in Procs, ReportExecutorNext(p) \/ CrashReport(p)
        PROVE  JobWritten(rjob, rjob', ReportAttempts)
    <3>1. CASE FailReport(p)
      <4>1. \E retry \in BOOLEAN : rjob' = Over(rjob, "failed", retry)
        BY <3>1 DEF FailReport
      <4>2. QED
        BY <3>1, <4>1 DEF FailReport, RHolds, HoldsLease
    <3>2. CASE CompleteReport(p) \/ AdoptReportCancel(p)
      BY <3>2 DEF CompleteReport, AdoptReportCancel, RHolds, HoldsLease, MayAdoptCancel
    <3>3. QED
      BY <2>3, <3>1, <3>2 DEF ReportExecutorNext, PreflightReport, SettleDraft, DraftFails,
         StorePdf, StoreXlsx, CompletionFails, UndoOne, Undone, StopStale, CrashReport
  <2>4. QED
    BY <1>4, <2>1, <2>2, <2>3 DEF ReportNext
<1>5. CASE report.status = "absent" /\ QueueReport
  BY <1>1, <1>5 DEF QueueReport
<1>6. CASE OutdateReport \/ OutdateReadyReport
  BY <1>6 DEF OutdateReport, OutdateReadyReport
<1>7. QED
  BY <1>2, <1>3, <1>4, <1>5, <1>6, ClusterCases

\* The job report_generate obeys its trigger: what the services that outdate an
\* execution write to it under a running attempt, and what the attempt writes
\* afterwards, is never refused (enforce_async_jobs_state_v1).
THEOREM RefinesReportRow == Spec => ImplementsReportRow
<1>1. Init => JobFits(rjob) /\ ReportRow!Init
  BY DEF Init, ReportInit, JobFits, NoJob, ReportRow!Init
<1>2. ASSUME AuditInv, ClusterInv, JobFits(rjob), [Next]_vars
      PROVE  JobFits(rjob)' /\ [ReportRow!Next]_rjob
  <2>1. CASE UNCHANGED vars
    BY <1>2, <2>1 DEF vars, rvars, JobFits
  <2>2. CASE Next
    <3>1. rjob \in JobRecord(ReportAttempts) /\ JobWritten(rjob, rjob', ReportAttempts)
      BY <1>2, <2>2, ReportJobWritten DEF ClusterInv, ReportTypeOK
    <3>2. JobFits(rjob') /\ [ReportRow!Next]_rjob
      BY <1>2, <3>1, JobStaysFit, ReportRowAllowed
    <3>3. QED
      BY <3>2 DEF JobFits
  <2>3. QED
    BY <1>2, <2>1, <2>2
<1>3. QED
  BY <1>1, <1>2, ClusterCorrect, PTL DEF Spec, ImplementsReportRow, ReportRow!Spec
=============================================================================
