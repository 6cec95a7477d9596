----------------------------- MODULE LeasedJob -----------------------------
(***************************************************************************)
(* The row of a one-step job (audit_execute, report_generate) as far as    *)
(* the resource of the job depends on it: what the transactions of         *)
(* JobRuntime do to it, as operators on a record.  A lease is "live" until *)
(* it runs out; "expired" includes the 15 s of grace.  lease_owner is a    *)
(* fresh uuid per attempt and is represented by the attempt.               *)
(***************************************************************************)
EXTENDS Naturals

CONSTANTS
  Workers,         \* worker task slots
  Maintenance      \* the maintenance process, which runs what it takes over

ASSUME LeasedJobAssumption == Maintenance \notin Workers

Procs == Workers \cup {Maintenance}

JobRecord(max) ==
  [status : {"absent", "queued", "running", "cancel_requested", "succeeded",
             "failed", "cancelled"},
   attempt : 0..max, lease : {"none", "live", "expired"},
   retry : BOOLEAN]

NoJob  == [status |-> "absent", attempt |-> 0, lease |-> "none", retry |-> FALSE]
NewJob == [NoJob EXCEPT !.status = "queued"]

\* claim_job, and the takeover of an expired lease.
Started(job) ==
  [job EXCEPT !.status = "running", !.attempt = @ + 1, !.lease = "live"]

\* finish_job, the last recovery, and a dead letter.
Over(job, status, retry) ==
  [job EXCEPT !.status = status, !.lease = "none", !.retry = retry]

Requeued(job) == [job EXCEPT !.status = "queued", !.retry = FALSE]

Expired(job) == [job EXCEPT !.lease = "expired"]

\* The service cancels: at once what waits, by request what runs.
CancelAsked(job) ==
  CASE job.status = "queued"  -> Over(job, "cancelled", FALSE)
    [] job.status = "running" -> [job EXCEPT !.status = "cancel_requested"]
    [] OTHER                  -> job

\* The fencing of finish_job.
HoldsLease(job, attempt) ==
  job.status = "running" /\ job.attempt = attempt /\ job.lease = "live"

\* The fencing of finish_cancel_requested, which ignores the lease.  (During the
\* grace the trigger refuses the cancellation, and the executor raises.)
MayAdoptCancel(job, attempt) ==
  job.status = "cancel_requested" /\ job.attempt = attempt

\* recover_expired_*_job: the lease of a running attempt is over.
Lost(job) == job.status = "running" /\ job.lease = "expired"
=============================================================================
