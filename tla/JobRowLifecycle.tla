-------------------------- MODULE JobRowLifecycle --------------------------
(***************************************************************************)
(* What the trigger enforce_async_jobs_state_v1 (migration 007) accepts of *)
(* one async_jobs row, in the columns that the components of files,        *)
(* audits, reports and indexes have of their jobs: status, attempt, phase  *)
(* of the lease ("expired" includes the 15 s of grace, in which the        *)
(* trigger accepts less) and whether a retry is scheduled.  It is their    *)
(* view of JobLifecycle, and each of them implements it.                   *)
(***************************************************************************)
EXTENDS Naturals

CONSTANT MaxAttempts   \* async_jobs.max_attempts

VARIABLE row           \* status, attempt, lease and retry of the row

Moves(from, to) == row.status = from /\ row'.status = to
SameAttempt     == row'.attempt = row.attempt
NextAttempt     == /\ row.attempt < MaxAttempts
                   /\ row'.attempt = row.attempt + 1
                   /\ row'.lease = "live"

Inserted       == row.status = "absent" /\ row'.status = "queued" /\ row'.attempt = 0
Claimed        == Moves("queued", "running") /\ NextAttempt
DispatchFailed == Moves("queued", "failed") /\ SameAttempt
TakenOver      == Moves("running", "running") /\ row.lease = "expired" /\ NextAttempt

\* A heartbeat or another stage of the attempt that holds the lease.
Renewed ==
  /\ \E status \in {"running", "cancel_requested"} : Moves(status, status)
  /\ row.lease = "live" /\ row'.lease = "live" /\ SameAttempt

CancelAsked ==
  Moves("running", "cancel_requested") /\ SameAttempt /\ row'.lease = row.lease
Cancelled ==
  /\ \/ Moves("queued", "cancelled")
     \/ Moves("cancel_requested", "cancelled") /\ row.lease # "none"
  /\ SameAttempt

\* By the holder of the lease, or with WORKER_LOST after the last attempt.
Finished ==
  /\ \/ Moves("running", "succeeded") /\ row.lease = "live"
     \/ /\ Moves("running", "failed")
        /\ row.lease = "live" \/ (row.lease = "expired" /\ row.attempt = MaxAttempts)
  /\ SameAttempt

Retried ==
  /\ Moves("failed", "queued") /\ SameAttempt
  /\ row.retry /\ row.attempt > 0 /\ row.attempt < MaxAttempts

\* The clock moves on; the row is not written.
LeaseEnds == row.lease # "none" /\ row' = [row EXCEPT !.lease = "expired"]

Init == row = [status |-> "absent", attempt |-> 0, lease |-> "none", retry |-> FALSE]

Next ==
  \/ Inserted \/ Claimed \/ DispatchFailed \/ Renewed \/ TakenOver
  \/ CancelAsked \/ Cancelled \/ Finished \/ Retried \/ LeaseEnds

Spec == Init /\ [][Next]_row
=============================================================================
