----------------------------- MODULE JobRuntime -----------------------------
(***************************************************************************)
(* The asynchronous job runtime: async_jobs, async_job_steps and the       *)
(* outbox_events rows of type job.dispatch.requested, written by           *)
(*   - the dispatcher processes (services/job_dispatcher.py), which move   *)
(*     outbox events to the broker at least once;                          *)
(*   - the worker processes (workers/tasks.py and the executors), which    *)
(*     claim a job by a broker message, renew its lease, and commit;       *)
(*   - the maintenance process (services/job_recovery.py), which requeues  *)
(*     retryable failures and takes over expired leases;                   *)
(*   - the HTTP services, which create, retry and cancel jobs.             *)
(* Every action is one committed database transaction, one broker call or  *)
(* one process event; everything a process remembers between two of its    *)
(* transactions is in `dispatch` (dispatchers) or `claim` (executors).     *)
(***************************************************************************)
EXTENDS Naturals, FiniteSets

CONSTANTS
  Jobs,            \* ids of async_jobs rows
  Workers,         \* worker task slots
  Maintenance,     \* the maintenance process, which runs what it takes over
  Dispatchers,     \* dispatcher processes
  NoJob,           \* not a job id
  MaxAttempts,     \* async_jobs.max_attempts (3 in the registries, 1 for rebuilds)
  NumSteps,        \* steps of the handler (3 for file_process, else 1)
  RetryStages,     \* start_step_code of the handler's retry_scopes
  MaxDeliveries,   \* delivery attempts of an outbox event (8)
  Cancellable,     \* jobs some service can cancel (audit and report jobs)
  Lossy,           \* whether the broker may lose a message
  MaxVersion       \* bound: no heartbeat from this row_version on

Procs == Workers \cup {Maintenance}

Attempts == 1..MaxAttempts
Stages   == 1..NumSteps

ASSUME JobRuntimeAssumption ==
  /\ NoJob \notin Jobs
  /\ Maintenance \notin Workers
  /\ MaxAttempts \in Nat \ {0}
  /\ NumSteps \in Nat \ {0}
  /\ MaxDeliveries \in Nat \ {0}
  /\ RetryStages \subseteq Stages
  /\ Cancellable \subseteq Jobs
  /\ Lossy \in BOOLEAN
  /\ MaxVersion \in Nat

VARIABLES
  job,        \* async_jobs
  step,       \* async_job_steps: status of step s of attempt a of job j
  outbox,     \* outbox_events: the event of job j with event_sequence a
  broker,     \* <<j, a>>: a message of event a of job j waits for delivery
  dispatch,   \* the OutboxClaim a dispatcher is working on
  claim,      \* the ClaimedJob an executor is working on
  results     \* history: the attempts whose business result was committed

vars == <<job, step, outbox, broker, dispatch, claim, results>>

Lifecycle ==
  INSTANCE JobLifecycle WITH
    Jobs <- Jobs, MaxAttempts <- MaxAttempts, NumSteps <- NumSteps, job <- job

JobRecord == Lifecycle!JobRecord
NoRow     == Lifecycle!NoRow

StepStatus  == {"none", "running", "succeeded", "failed", "cancelled", "skipped"}
EventStatus == {"absent", "pending", "processing", "failed", "published",
                "dead_letter"}

\* `due`: clock_timestamp() has passed next_attempt_at.
EventRecord == [status : EventStatus, count : 0..MaxDeliveries, due : BOOLEAN]
NoEvent     == [status |-> "absent", count |-> 0, due |-> FALSE]
NewEvent    == [status |-> "pending", count |-> 0, due |-> FALSE]

RecoverableCodes == {"BROKER_UNAVAILABLE", "PUBLISH_CONFIRM_UNKNOWN",
                     "PROCESSING_LEASE_EXPIRED"}
DeliveryCodes    == RecoverableCodes \cup
                    {"SERIALIZATION_FAILED", "UNKNOWN_DELIVERY_ERROR"}
UnknownCodes     == {"PUBLISH_CONFIRM_UNKNOWN", "PROCESSING_LEASE_EXPIRED",
                     "UNKNOWN_DELIVERY_ERROR"}

\* seq, count: the fencing of the claimed event.  planned: attempt_no + 1 of
\* the job snapshot read with it.  outcome: what the publish call ended with.
DispatchRecord ==
  [pc : {"idle", "claimed", "called"}, job : Jobs \cup {NoJob},
   seq : 0..MaxAttempts, count : 0..MaxDeliveries, planned : 0..MaxAttempts + 1,
   outcome : {"none", "sent"} \cup DeliveryCodes]
NoDispatch == [pc |-> "idle", job |-> NoJob, seq |-> 0, count |-> 0,
               planned |-> 0, outcome |-> "none"]

\* lease_owner is a fresh uuid drawn by the trigger on exactly the two
\* transitions that raise attempt_no, so the attempt number stands for it.
\* worker_id is left out: it is the Celery host name, shared by its slots.
ClaimRecord == [job : Jobs \cup {NoJob}, attempt : 0..MaxAttempts, version : Nat]
NoClaim     == [job |-> NoJob, attempt |-> 0, version |-> 0]

Active == {"running", "cancel_requested"}

-----------------------------------------------------------------------------
(***************************** Row updates ********************************)

Bump(r)   == [r EXCEPT !.row_version = @ + 1]

QueuedRow    == [NoRow EXCEPT !.status = "queued", !.row_version = 1]
RunningRow(r) == [Bump(r) EXCEPT !.status = "running", !.attempt_no = @ + 1,
                                 !.stage = r.start, !.lease = "live"]
AtStage(r, s) == [Bump(r) EXCEPT !.stage = s, !.lease = "live"]
EndedRow(r, status, error) ==
  [Bump(r) EXCEPT !.status = status, !.error = error, !.lease = "none",
                  !.retry = FALSE]

\* finish_job("failed"): next_retry_at is set if the code is in the white list
\* and attempts are left.
FailedRow(r, error) ==
  [EndedRow(r, "failed", error) EXCEPT
     !.retry = error \in Lifecycle!RetryableCodes /\ r.attempt_no < MaxAttempts]
RequeuedRow(r, s) ==
  [Bump(r) EXCEPT !.status = "queued", !.stage = 0, !.start = s,
                  !.retry = FALSE, !.error = "none"]

AttemptsLeft(j)         == job[j].attempt_no < MaxAttempts

\* The running step of the current attempt of j gets its final status.
StepEnds(j, status) ==
  [step EXCEPT ![j][job[j].attempt_no][job[j].stage] = status]

\* The same, and the next step of that attempt starts.
StepAdvances(j, status) ==
  [StepEnds(j, status) EXCEPT
     ![j][job[j].attempt_no][job[j].stage + 1] = "running"]

-----------------------------------------------------------------------------
(******************** Services: create, cancel ****************************)

\* The business row, the job and its first outbox event in one transaction.
CreateJob(j) ==
  /\ job[j].status = "absent"
  /\ job' = [job EXCEPT ![j] = QueuedRow]
  /\ outbox' = [outbox EXCEPT ![j][1] = NewEvent]
  /\ UNCHANGED <<step, broker, dispatch, claim, results>>

RequestCancel(j) ==
  /\ j \in Cancellable
  /\ \/ /\ job[j].status = "queued"
        /\ job' = [job EXCEPT ![j] =
                     EndedRow(job[j], "cancelled", "JOB_CANCELLED")]
     \/ /\ job[j].status = "running"
        /\ job' = [job EXCEPT ![j] =
                     [Bump(job[j]) EXCEPT !.status = "cancel_requested"]]
  /\ UNCHANGED <<step, outbox, broker, dispatch, claim, results>>

-----------------------------------------------------------------------------
(***************************** Dispatcher *********************************)

\* Faulty variant: a failed delivery is not tried again.
ClaimableOnce(j, a) ==
  job[j].status = "queued" /\ outbox[j][a].status = "pending"

Claimable(j, a) ==
  /\ job[j].status = "queued"
  /\ \/ outbox[j][a].status = "pending"
     \/ outbox[j][a].status = "failed" /\ outbox[j][a].due

\* ORDER BY created_at: of one job the event of the lowest sequence is the
\* oldest.  Among jobs any order is allowed (FOR UPDATE SKIP LOCKED).
ClaimNextOutbox(d) ==
  /\ dispatch[d].pc = "idle"
  /\ \E j \in Jobs, a \in Attempts :
       /\ Claimable(j, a)
       /\ \A b \in 1..(a - 1) : ~Claimable(j, b)
       /\ outbox[j][a].count < MaxDeliveries
       /\ outbox' = [outbox EXCEPT ![j][a] =
                       [status |-> "processing", count |-> @.count + 1,
                        due |-> FALSE]]
       /\ dispatch' = [dispatch EXCEPT ![d] =
                         [pc |-> "claimed", job |-> j, seq |-> a,
                          count |-> outbox[j][a].count + 1,
                          planned |-> job[j].attempt_no + 1,
                          outcome |-> "none"]]
  /\ UNCHANGED <<job, step, broker, claim, results>>

\* _resolve_route compares the event with the job snapshot it was read with.
RejectRoute(d) ==
  /\ dispatch[d].pc = "claimed"
  /\ dispatch[d].seq # dispatch[d].planned
  /\ dispatch' = [dispatch EXCEPT ![d].pc = "called",
                                  ![d].outcome = "SERIALIZATION_FAILED"]
  /\ UNCHANGED <<job, step, outbox, broker, claim, results>>

\* The broker call: an error says nothing of whether the message got through.
Publish(d) ==
  LET m == <<dispatch[d].job, dispatch[d].seq>> IN
  /\ dispatch[d].pc = "claimed"
  /\ dispatch[d].seq = dispatch[d].planned
  /\ \/ /\ dispatch' = [dispatch EXCEPT ![d].pc = "called",
                                        ![d].outcome = "sent"]
        /\ broker' = broker \cup {m}
     \/ /\ \E code \in {"BROKER_UNAVAILABLE", "PUBLISH_CONFIRM_UNKNOWN",
                        "UNKNOWN_DELIVERY_ERROR"} :
             dispatch' = [dispatch EXCEPT ![d].pc = "called",
                                          ![d].outcome = code]
        /\ broker' \in {broker, broker \cup {m}}
  /\ UNCHANGED <<job, step, outbox, claim, results>>

EventBecomes(j, a, status) ==
  [outbox EXCEPT ![j][a] = [@ EXCEPT !.status = status, !.due = FALSE]]

\* The event is still in the processing attempt `count`.
EventFenced(j, a, count) ==
  /\ outbox[j][a].status = "processing"
  /\ outbox[j][a].count = count

MarkPublished(d) ==
  LET j == dispatch[d].job
      a == dispatch[d].seq
  IN
  /\ dispatch[d].pc = "called"
  /\ dispatch[d].outcome = "sent"
  /\ IF EventFenced(j, a, dispatch[d].count)
       THEN outbox' = EventBecomes(j, a, "published")
       ELSE UNCHANGED outbox
  /\ dispatch' = [dispatch EXCEPT ![d] = NoDispatch]
  /\ UNCHANGED <<job, step, broker, claim, results>>

\* Faulty variant: the dead letter leaves the job alone.
FailDeliveryOnly(j, a, count, code) ==
  /\ outbox' = EventBecomes(j, a, IF count < MaxDeliveries
                                       /\ code \in RecoverableCodes
                                    THEN "failed" ELSE "dead_letter")
  /\ UNCHANGED job

\* mark_outbox_failure on a fenced event: another delivery attempt, or the
\* dead letter and with it the end of a job that is still queued.
FailDelivery(j, a, count, code) ==
  IF count < MaxDeliveries /\ code \in RecoverableCodes
    THEN /\ outbox' = EventBecomes(j, a, "failed")
         /\ UNCHANGED job
    ELSE /\ outbox' = EventBecomes(j, a, "dead_letter")
         /\ IF job[j].status = "queued"
              THEN job' = [job EXCEPT ![j] =
                             EndedRow(job[j], "failed",
                                      IF code \in UnknownCodes
                                        THEN "JOB_DISPATCH_OUTCOME_UNKNOWN"
                                        ELSE "JOB_DISPATCH_FAILED")]
              ELSE UNCHANGED job

MarkFailure(d) ==
  LET j == dispatch[d].job
      a == dispatch[d].seq
  IN
  /\ dispatch[d].pc = "called"
  /\ dispatch[d].outcome \in DeliveryCodes
  /\ IF EventFenced(j, a, dispatch[d].count)
       THEN FailDelivery(j, a, dispatch[d].count, dispatch[d].outcome)
       ELSE UNCHANGED <<outbox, job>>
  /\ dispatch' = [dispatch EXCEPT ![d] = NoDispatch]
  /\ UNCHANGED <<step, broker, claim, results>>

\* next_expired_processing_outbox and mark_outbox_failure, one transaction.
ReapExpired(d) ==
  /\ dispatch[d].pc = "idle"
  /\ \E j \in Jobs, a \in Attempts :
       /\ outbox[j][a].status = "processing"
       /\ outbox[j][a].due
       /\ FailDelivery(j, a, outbox[j][a].count, "PROCESSING_LEASE_EXPIRED")
  /\ UNCHANGED <<step, broker, dispatch, claim, results>>

DispatcherCrash(d) ==
  /\ dispatch[d].pc # "idle"
  /\ dispatch' = [dispatch EXCEPT ![d] = NoDispatch]
  /\ UNCHANGED <<job, step, outbox, broker, claim, results>>

-----------------------------------------------------------------------------
(****************************** Executors *********************************)

\* claim_job: what the message's event must be for the job row to be claimed.
ClaimAllowed(j, a) ==
  /\ job[j].status = "queued"
  /\ a = job[j].attempt_no + 1
  /\ outbox[j][a].status \in {"processing", "failed", "published"}
  /\ \A s \in Stages : step[j][a][s] = "none"

\* Broker redelivery (acks_late) leaves the message until it is rejected.
ClaimJob(w, j, a) ==
  /\ claim[w] = NoClaim
  /\ <<j, a>> \in broker
  /\ ClaimAllowed(j, a)
  /\ job' = [job EXCEPT ![j] = RunningRow(job[j])]
  /\ step' = [step EXCEPT ![j][a][job[j].start] = "running"]
  /\ claim' = [claim EXCEPT ![w] = [job |-> j, attempt |-> a,
                                    version |-> job[j].row_version + 1]]
  /\ UNCHANGED <<outbox, broker, dispatch, results>>

\* duplicate_or_stale: the delivery is acknowledged and does nothing.
RejectDelivery(w, j, a) ==
  /\ claim[w] = NoClaim
  /\ <<j, a>> \in broker
  /\ ~ClaimAllowed(j, a)
  /\ broker' = broker \ {<<j, a>>}
  /\ UNCHANGED <<job, step, outbox, dispatch, claim, results>>

LeaseIsLive(p) ==
  claim[p] # NoClaim /\ job[claim[p].job].lease = "live"

\* The lease fencing of every write: same attempt (lease_owner), unexpired.
LeaseHeld(p) ==
  LET j == claim[p].job IN
  /\ claim[p] # NoClaim
  /\ job[j].attempt_no = claim[p].attempt
  /\ job[j].lease = "live"

\* Fencing with the row version, as heartbeat, advance and finish require it.
Fenced(p) ==
  /\ LeaseHeld(p)
  /\ job[claim[p].job].row_version = claim[p].version

\* _LeaseKeeper renews in its own thread; the executor uses the renewed claim.
Heartbeat(p) ==
  LET j == claim[p].job IN
  /\ Fenced(p)
  /\ job[j].status \in Active
  /\ job[j].row_version < MaxVersion
  /\ job' = [job EXCEPT ![j] = AtStage(job[j], job[j].stage)]
  /\ claim' = [claim EXCEPT ![p].version = @ + 1]
  /\ UNCHANGED <<step, outbox, broker, dispatch, results>>

\* A step that an earlier attempt committed is not repeated: scan is skipped.
DoneBefore(j) ==
  \E a \in 1..(job[j].attempt_no - 1) : step[j][a][job[j].stage] = "succeeded"

AdvanceStep(p) ==
  LET j == claim[p].job IN
  /\ Fenced(p)
  /\ job[j].status = "running"
  /\ job[j].stage < NumSteps
  /\ step' = StepAdvances(j, IF job[j].stage = 1 /\ DoneBefore(j)
                               THEN "skipped" ELSE "succeeded")
  /\ job' = [job EXCEPT ![j] = AtStage(job[j], job[j].stage + 1)]
  /\ claim' = [claim EXCEPT ![p].version = @ + 1]
  /\ UNCHANGED <<outbox, broker, dispatch, results>>

\* finish_job("succeeded"): the last step, the job and its business result.
Succeed(p) ==
  LET j == claim[p].job IN
  /\ Fenced(p)
  /\ job[j].status = "running"
  /\ job[j].stage = NumSteps
  /\ step' = StepEnds(j, "succeeded")
  /\ job' = [job EXCEPT ![j] = EndedRow(job[j], "succeeded", "none")]
  /\ results' = [results EXCEPT ![j] = @ \cup {claim[p].attempt}]
  /\ claim' = [claim EXCEPT ![p] = NoClaim]
  /\ UNCHANGED <<outbox, broker, dispatch>>

\* finish_job("failed"): retryable if the code is listed and attempts remain.
\* A step that no retry scope starts at (markdown) has no code of that list.
Fail(p) ==
  LET j == claim[p].job IN
  /\ Fenced(p)
  /\ job[j].status = "running"
  /\ \E code \in {"TRANSIENT", "PERMANENT"} :
       /\ code = "TRANSIENT" => job[j].stage \in RetryStages
       /\ job' = [job EXCEPT ![j] = FailedRow(job[j], code)]
  /\ step' = StepEnds(j, "failed")
  /\ claim' = [claim EXCEPT ![p] = NoClaim]
  /\ UNCHANGED <<outbox, broker, dispatch, results>>

\* finish_cancel_requested ignores the row version; the trigger admits it
\* before the lease ends and again after the grace period.
FinishCancel(p) ==
  LET j == claim[p].job IN
  /\ claim[p] # NoClaim
  /\ job[j].status = "cancel_requested"
  /\ job[j].attempt_no = claim[p].attempt
  /\ job[j].lease \in {"live", "graced"}
  /\ step' = StepEnds(j, "cancelled")
  /\ job' = [job EXCEPT ![j] =
               EndedRow(job[j], "cancelled", "JOB_CANCELLED")]
  /\ claim' = [claim EXCEPT ![p] = NoClaim]
  /\ UNCHANGED <<outbox, broker, dispatch, results>>

\* The executor dies, or gives up because a fenced write changed no row
\* (JOB_FENCING_REJECTED, JOB_LEASE_LOST) or raised: the claim is forgotten.
Drop(p) ==
  /\ claim[p] # NoClaim
  /\ claim' = [claim EXCEPT ![p] = NoClaim]
  /\ UNCHANGED <<job, step, outbox, broker, dispatch, results>>

-----------------------------------------------------------------------------
(****************************** Maintenance *******************************)

Retryable(j) ==
  /\ job[j].status = "failed"
  /\ job[j].retry
  /\ AttemptsLeft(j)
  /\ job[j].stage \in RetryStages

\* requeue_failed_*_job, by the maintenance loop or a retry request.
Requeue(j) ==
  /\ Retryable(j)
  /\ job' = [job EXCEPT ![j] = RequeuedRow(job[j], job[j].stage)]
  /\ outbox' = [outbox EXCEPT ![j][job[j].attempt_no + 1] = NewEvent]
  /\ UNCHANGED <<step, broker, dispatch, claim, results>>

\* Faulty variant: the grace period is not waited for.
RecoverableAtExpiry(j) ==
  /\ claim[Maintenance] = NoClaim
  /\ job[j].status = "running"
  /\ job[j].lease \in {"expired", "graced"}

\* recover_expired_*_job: only status = 'running' is looked for.
Recoverable(j) ==
  /\ claim[Maintenance] = NoClaim
  /\ job[j].status = "running"
  /\ job[j].lease = "graced"

TakeOver(j) ==
  LET a == job[j].attempt_no IN
  /\ Recoverable(j)
  /\ AttemptsLeft(j)
  /\ step' = [StepEnds(j, "failed") EXCEPT
                ![j][a + 1][job[j].start] = "running"]
  /\ job' = [job EXCEPT ![j] = RunningRow(job[j])]
  /\ claim' = [claim EXCEPT ![Maintenance] =
                 [job |-> j, attempt |-> a + 1,
                  version |-> job[j].row_version + 1]]
  /\ UNCHANGED <<outbox, broker, dispatch, results>>

GiveUpLost(j) ==
  /\ Recoverable(j)
  /\ ~AttemptsLeft(j)
  /\ step' = StepEnds(j, "failed")
  /\ job' = [job EXCEPT ![j] = EndedRow(job[j], "failed", "WORKER_LOST")]
  /\ UNCHANGED <<outbox, broker, dispatch, claim, results>>

-----------------------------------------------------------------------------
(************************* Clock and environment **************************)

LeaseExpires(j) ==
  /\ job[j].lease = "live"
  /\ job' = [job EXCEPT ![j].lease = "expired"]
  /\ UNCHANGED <<step, outbox, broker, dispatch, claim, results>>

GraceElapses(j) ==
  /\ job[j].lease = "expired"
  /\ job' = [job EXCEPT ![j].lease = "graced"]
  /\ UNCHANGED <<step, outbox, broker, dispatch, claim, results>>

\* next_attempt_at passes: a processing lease or a backoff is over.
EventFallsDue(j, a) ==
  /\ outbox[j][a].status \in {"processing", "failed"}
  /\ ~outbox[j][a].due
  /\ outbox' = [outbox EXCEPT ![j][a].due = TRUE]
  /\ UNCHANGED <<job, step, broker, dispatch, claim, results>>

BrokerLoses(j, a) ==
  /\ Lossy
  /\ <<j, a>> \in broker
  /\ broker' = broker \ {<<j, a>>}
  /\ UNCHANGED <<job, step, outbox, dispatch, claim, results>>

-----------------------------------------------------------------------------
Init ==
  /\ job = [j \in Jobs |-> NoRow]
  /\ step = [j \in Jobs |-> [a \in Attempts |-> [s \in Stages |-> "none"]]]
  /\ outbox = [j \in Jobs |-> [a \in Attempts |-> NoEvent]]
  /\ broker = {}
  /\ dispatch = [d \in Dispatchers |-> NoDispatch]
  /\ claim = [p \in Procs |-> NoClaim]
  /\ results = [j \in Jobs |-> {}]

DispatcherNext(d) ==
  \/ ClaimNextOutbox(d) \/ RejectRoute(d) \/ Publish(d)
  \/ MarkPublished(d) \/ MarkFailure(d) \/ ReapExpired(d) \/ DispatcherCrash(d)

Deliver(w) == \E j \in Jobs, a \in Attempts :
  ClaimJob(w, j, a) \/ RejectDelivery(w, j, a)

ExecutorNext(p) ==
  \/ Heartbeat(p) \/ AdvanceStep(p) \/ Succeed(p) \/ Fail(p)
  \/ FinishCancel(p) \/ Drop(p)

JobNext(j) ==
  \/ CreateJob(j) \/ RequestCancel(j) \/ Requeue(j) \/ TakeOver(j)
  \/ GiveUpLost(j) \/ LeaseExpires(j) \/ GraceElapses(j)

EventNext(j, a) == EventFallsDue(j, a) \/ BrokerLoses(j, a)

Next ==
  \/ \E d \in Dispatchers : DispatcherNext(d)
  \/ \E w \in Workers : Deliver(w)
  \/ \E p \in Procs : ExecutorNext(p)
  \/ \E j \in Jobs : JobNext(j)
  \/ \E j \in Jobs, a \in Attempts : EventNext(j, a)

Spec == Init /\ [][Next]_vars

(***************************************************************************)
(* Fairness.  The dispatcher and the maintenance process are endless loops *)
(* restarted by their supervisor, workers consume while messages wait, and *)
(* an executor ends by committing or by dropping its claim (the Celery     *)
(* task time limit kills it otherwise).  Clocks advance; the lease of a    *)
(* job that nobody renews runs out.  Nothing is assumed of crashes, of     *)
(* errors, of cancel requests or of message loss.                          *)
(***************************************************************************)
Held(j) == \E p \in Procs : claim[p].job = j /\ LeaseHeld(p)
OrphanLeaseExpires(j) == ~Held(j) /\ LeaseExpires(j)

ExecutorEnds(p) ==
  AdvanceStep(p) \/ Succeed(p) \/ Fail(p) \/ FinishCancel(p) \/ Drop(p)

Fairness ==
  /\ \A d \in Dispatchers :
       /\ WF_vars(ClaimNextOutbox(d) \/ ReapExpired(d))
       /\ WF_vars(RejectRoute(d) \/ Publish(d) \/ MarkPublished(d) \/ MarkFailure(d))
  /\ \A w \in Workers : WF_vars(Deliver(w))
  /\ \A p \in Procs : WF_vars(ExecutorEnds(p))
  /\ \A j \in Jobs :
       /\ WF_vars(Requeue(j))
       /\ WF_vars(TakeOver(j) \/ GiveUpLost(j))
       /\ WF_vars(OrphanLeaseExpires(j))
       /\ WF_vars(GraceElapses(j))
       /\ \A a \in Attempts : WF_vars(EventFallsDue(j, a))

FairSpec == Spec /\ Fairness

-----------------------------------------------------------------------------
(***************************** Properties *********************************)

\* Every variable stays within the values its columns and records allow.
TypeOK ==
  /\ job \in [Jobs -> JobRecord]
  /\ step \in [Jobs -> [Attempts -> [Stages -> StepStatus]]]
  /\ outbox \in [Jobs -> [Attempts -> EventRecord]]
  /\ broker \subseteq Jobs \X Attempts
  /\ dispatch \in [Dispatchers -> DispatchRecord]
  /\ claim \in [Procs -> ClaimRecord]
  /\ results \in [Jobs -> SUBSET Attempts]

\* However often a message is delivered, a worker is replaced or a job is
\* retried, finish_job commits the business result of one attempt at most:
\* that of the last attempt, and exactly when the job row says succeeded.
OneResult == \A j \in Jobs :
  results[j] = IF job[j].status = "succeeded" THEN {job[j].attempt_no} ELSE {}

\* The deferred trigger enforce_job_step_consistency_v1 accepts every commit:
\* the one running step is that of the current attempt and stage of an active
\* job, and no attempt that has not begun has a step.
JobStepConsistent == \A j \in Jobs, a \in Attempts, s \in Stages :
  /\ step[j][a][s] = "running" <=> /\ job[j].status \in Active
                                  /\ a = job[j].attempt_no
                                  /\ s = job[j].stage
  /\ a > job[j].attempt_no => step[j][a][s] = "none"

\* A queued job keeps an event of its next attempt that claim_job accepts or
\* that a dispatcher can still bring there: it is never queued for nothing.
QueuedIsDispatchable == \A j \in Jobs :
  job[j].status = "queued" =>
    /\ job[j].attempt_no < MaxAttempts
    /\ outbox[j][job[j].attempt_no + 1].status
         \in {"pending", "processing", "failed", "published"}

\* When a job may be retried, the sequence number its new outbox event gets
\* (attempt_no + 1) is free: the requeue cannot hit the unique constraint on
\* (aggregate_id, event_sequence).
RetrySequenceUnused == \A j \in Jobs :
  job[j].status = "failed" /\ job[j].retry =>
    \A a \in Attempts : a > job[j].attempt_no => outbox[j][a] = NoEvent

\* Jobs, steps and events are written by different statements, and by different
\* processes, yet the three tables agree after every transaction.
TablesAgree == JobStepConsistent /\ QueuedIsDispatchable /\ RetrySequenceUnused

\* Redelivery, retry and takeover never give one attempt of a job to two
\* executors, so that fencing by lease_owner admits at most one writer.
OneHolder == \A p, q \in Procs :
  claim[p] # NoClaim /\ claim[p].job = claim[q].job
    /\ claim[p].attempt = claim[q].attempt => p = q

\* A job that succeeded, was cancelled, or failed with no retry to come.
Final(j) ==
  \/ job[j].status \in {"succeeded", "cancelled"}
  \/ job[j].status = "failed" /\ ~job[j].retry

\* No late worker, dispatcher, takeover or cancel request rewrites the row of
\* a job that is over.
TerminalIsFinal ==
  [][\A j \in Jobs : Final(j) => job'[j] = job[j]]_vars

\* Every write of the repository and of the services is one that the trigger
\* enforce_async_jobs_state_v1 accepts: the runtime implements the lifecycle.
ImplementsLifecycle == Lifecycle!Spec

\* And so every row obeys it as the components of files, audits, reports and
\* indexes see the row of their job.
Seen(r) ==
  [status |-> r.status, attempt |-> r.attempt_no, retry |-> r.retry,
   lease |-> IF r.lease = "graced" THEN "expired" ELSE r.lease]
Row(j) == INSTANCE JobRowLifecycle WITH row <- Seen(job[j])
ImplementsJobRows ==
  /\ \A j \in Jobs : Row(j)!Init
  /\ [][\A j \in Jobs : [Row(j)!Next]_(Seen(job[j]))]_job

\* The broker has lost the message of a published event, and no other is due.
Unheard(j) ==
  /\ job[j].status = "queued"
  /\ outbox[j][job[j].attempt_no + 1].status = "published"
  /\ <<j, job[j].attempt_no + 1>> \notin broker

\* Whatever crashes or fails, a job that was created ends, unless it is asked
\* to stop or the broker loses a message that is not published again.
EveryJobSettles ==
  \A j \in Jobs :
    job[j].status # "absent" ~> Final(j) \/ job[j].status = "cancel_requested" \/ Unheard(j)

=============================================================================
