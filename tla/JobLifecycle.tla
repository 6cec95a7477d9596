---------------------------- MODULE JobLifecycle ----------------------------
(***************************************************************************)
(* What the database promises about one async_jobs row: the transitions    *)
(* that the trigger function enforce_async_jobs_state_v1 (migration 007)   *)
(* accepts, whatever statement asks for them.  It is the abstract          *)
(* specification of the job runtime: JobRuntime implements it when no      *)
(* statement of the repository is ever refused by the trigger.             *)
(*                                                                         *)
(* Time is abstracted to the phase of the lease:                           *)
(*   "live"     clock <  lease_expires_at                                  *)
(*   "expired"  lease_expires_at <= clock < lease_expires_at + 15 s        *)
(*   "graced"   lease_expires_at + 15 s <= clock                           *)
(***************************************************************************)
EXTENDS Naturals

CONSTANTS
  Jobs,          \* ids of async_jobs rows
  MaxAttempts,   \* async_jobs.max_attempts, frozen by the handler registry
  NumSteps       \* number of steps of the handler

VARIABLE job     \* the async_jobs table: [Jobs -> JobRecord]

Attempts  == 1..MaxAttempts
Stages    == 1..NumSteps
JobStatus == {"absent", "queued", "running", "cancel_requested",
              "succeeded", "failed", "cancelled"}
Leases    == {"none", "live", "expired", "graced"}

\* Job error codes, up to what the transitions tell apart: a code of the
\* retry white list, any other handler code, and the runtime's own codes.
ErrorCodes == {"none", "TRANSIENT", "PERMANENT", "WORKER_LOST",
               "JOB_DISPATCH_FAILED", "JOB_DISPATCH_OUTCOME_UNKNOWN",
               "JOB_CANCELLED"}
DispatchCodes  == {"JOB_DISPATCH_FAILED", "JOB_DISPATCH_OUTCOME_UNKNOWN"}
RetryableCodes == {"TRANSIENT", "WORKER_LOST"}

JobRecord ==
  [status : JobStatus, attempt_no : 0..MaxAttempts, row_version : Nat,
   start : Stages, stage : 0..NumSteps, lease : Leases, retry : BOOLEAN,
   error : ErrorCodes]

\* A row that has not been inserted yet.
NoRow == [status |-> "absent", attempt_no |-> 0, row_version |-> 0, start |-> 1,
          stage |-> 0, lease |-> "none", retry |-> FALSE, error |-> "none"]

-----------------------------------------------------------------------------
(* The row of j moves from status `from` to status `to`, by one version.   *)
Moves(j, from, to) ==
  /\ job[j].status = from
  /\ job'[j].status = to
  /\ job'[j].row_version = job[j].row_version + 1

Keeps(j, field) == job'[j][field] = job[j][field]

Insert(j) ==
  /\ job[j] = NoRow
  /\ job'[j].status = "queued"
  /\ job'[j].attempt_no = 0
  /\ job'[j].row_version = 1

Claim(j) ==
  /\ Moves(j, "queued", "running")
  /\ job'[j].attempt_no = job[j].attempt_no + 1
  /\ job'[j].attempt_no <= MaxAttempts
  /\ Keeps(j, "start")
  /\ job'[j].stage = job[j].start
  /\ job'[j].lease = "live"

CancelQueued(j) ==
  /\ Moves(j, "queued", "cancelled")
  /\ Keeps(j, "attempt_no") /\ Keeps(j, "start")

FailDispatch(j) ==
  /\ Moves(j, "queued", "failed")
  /\ Keeps(j, "attempt_no") /\ Keeps(j, "start")
  /\ job'[j].error \in DispatchCodes

\* A heartbeat or a change of stage of the attempt that holds the lease.
Renew(j) ==
  /\ Moves(j, "running", "running")
  /\ job[j].lease = "live"
  /\ job'[j].lease = "live"
  /\ Keeps(j, "attempt_no") /\ Keeps(j, "start")

TakeOver(j) ==
  /\ Moves(j, "running", "running")
  /\ job[j].lease = "graced"
  /\ job[j].attempt_no < MaxAttempts
  /\ job'[j].attempt_no = job[j].attempt_no + 1
  /\ Keeps(j, "start")
  /\ job'[j].stage = job[j].start
  /\ job'[j].lease = "live"

AskCancel(j) ==
  /\ Moves(j, "running", "cancel_requested")
  /\ Keeps(j, "attempt_no") /\ Keeps(j, "start") /\ Keeps(j, "stage")
  /\ Keeps(j, "lease")

Finish(j) ==
  /\ \/ Moves(j, "running", "succeeded")
     \/ Moves(j, "running", "failed")
  /\ Keeps(j, "attempt_no") /\ Keeps(j, "start") /\ Keeps(j, "stage")
  /\ IF job'[j].status = "failed" /\ job'[j].error = "WORKER_LOST"
       THEN job[j].lease = "graced" /\ job[j].attempt_no = MaxAttempts
       ELSE job[j].lease = "live"

RenewCancelling(j) ==
  /\ Moves(j, "cancel_requested", "cancel_requested")
  /\ job[j].lease = "live"
  /\ job'[j].lease = "live"
  /\ Keeps(j, "attempt_no") /\ Keeps(j, "start") /\ Keeps(j, "stage")

FinishCancelling(j) ==
  /\ Moves(j, "cancel_requested", "cancelled")
  /\ job[j].lease \in {"live", "graced"}
  /\ Keeps(j, "attempt_no") /\ Keeps(j, "start") /\ Keeps(j, "stage")

Retry(j) ==
  /\ Moves(j, "failed", "queued")
  /\ Keeps(j, "attempt_no")
  /\ job[j].attempt_no < MaxAttempts
  /\ job[j].attempt_no > 0     \* started_at IS NOT NULL, of a row with a retry
  /\ job[j].retry
  /\ job[j].error \in RetryableCodes

\* The clock moves on; the row is not written.
ClockAdvances(j) ==
  \E l \in {"expired", "graced"} :
    /\ job[j].lease # "none"
    /\ job'[j] = [job[j] EXCEPT !.lease = l]

Transition(j) ==
  \/ Insert(j) \/ Claim(j) \/ CancelQueued(j) \/ FailDispatch(j)
  \/ Renew(j) \/ TakeOver(j) \/ AskCancel(j) \/ Finish(j)
  \/ RenewCancelling(j) \/ FinishCancelling(j) \/ Retry(j)
  \/ ClockAdvances(j)

Init == job = [j \in Jobs |-> NoRow]

\* Each row is written by transactions of its own; a step changes one row.
Next == \E j \in Jobs :
  /\ \A i \in Jobs \ {j} : job'[i] = job[i]
  /\ Transition(j)

Spec == Init /\ [][Next]_job
=============================================================================
