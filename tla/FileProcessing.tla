--------------------------- MODULE FileProcessing ---------------------------
(***************************************************************************)
(* One uploaded file and its lifetime job: the files row, the objects that *)
(* MinIO keeps of it, and the handlers file_scan and file_process          *)
(* (services/file_job_executor.py) run by workers and by the maintenance   *)
(* process.                                                                *)
(*   scan      read the quarantine copy, scan it, copy it to originals,    *)
(*             commit stored/clean, delete the quarantine copy             *)
(*   parse     read the original, append one parse version and the         *)
(*             extraction job that consumes it                             *)
(*   markdown  convert the parse version and end the job                   *)
(* Every action is one database transaction, one call of the object store  *)
(* (with the read or the scan that precedes it) or one process event; what *)
(* a process remembers in between is in `exec` and `upload`.  The delivery *)
(* of job messages and the lease clock are those of JobRuntime, abstracted *)
(* here to `message` and to the lease phases "live" and "expired".         *)
(***************************************************************************)
EXTENDS Naturals

CONSTANTS
  Workers,         \* worker task slots
  Maintenance,     \* the maintenance process, which runs what it takes over
  MaxAttempts,     \* async_jobs.max_attempts (3 in file_v1/registry.json)
  FaultSets,       \* the sets of faults that behaviours may have
  Archiving        \* whether a user may archive the file

Procs == Workers \cup {Maintenance}

\* stall: a lease may run out under a living executor; lost_reply: a commit may
\* succeed although its reply is lost.
AllFaults == {"stall", "lost_reply"}

ASSUME FileProcessingAssumption ==
  /\ Maintenance \notin Workers
  /\ MaxAttempts \in Nat \ {0}
  /\ FaultSets \subseteq SUBSET AllFaults
  /\ Archiving \in BOOLEAN

VARIABLES
  file,      \* the files row
  job,       \* its async_jobs row
  message,   \* a message for the next attempt is, or will be, at a worker
  objects,   \* which of the two objects of the file exist in MinIO
  upload,    \* where the upload request is
  exec,      \* what each executor does, and for which attempt
  scanned,   \* the attempt whose scan step succeeded, 0 if none
  outputs,   \* parse versions, extraction jobs and Markdown versions
  faults     \* the faults of this behaviour; never changes

vars == <<file, job, message, objects, upload, exec, scanned, outputs>>

Lifecycle == INSTANCE FileLifecycle WITH file <- file

JobRecord ==
  [type : {"file_process", "file_scan"},
   status : {"absent", "queued", "running", "succeeded", "failed"},
   attempt : 0..MaxAttempts, start : {"scan", "parse"},
   stage : {"none", "scan", "parse", "markdown"},
   lease : {"none", "live", "expired"}, retry : BOOLEAN,
   error : {"none", "HANDLER", "WORKER_LOST", "DISPATCH"}]
NoJob == [type |-> "file_process", status |-> "absent", attempt |-> 0,
          start |-> "scan", stage |-> "none", lease |-> "none", retry |-> FALSE,
          error |-> "none"]

\* Verdicts of a scan other than clean, and what each leaves in the file.
Verdicts == {"infected", "scan_failed", "not_configured"}

ExecRecord ==
  [pc : {"idle", "claimed", "skipping", "scanning", "scanned", "verdict",
         "promoted", "undoing", "cleaning", "parsing", "parsed", "unparsed",
         "writing"},
   attempt : 0..MaxAttempts, verdict : Verdicts \cup {"none"}]
Idle == [pc |-> "idle", attempt |-> 0, verdict |-> "none"]

-----------------------------------------------------------------------------
(**************************** Conditions **********************************)

ScanAwaited == file.status = "validating" /\ file.scan = "pending"
FullProcess == job.type = "file_process"
StoredClean == file.status = "stored" /\ file.scan = "clean"
Readable    == StoredClean /\ file.located

\* Faulty variant: the attempt (lease_owner) is not compared.
HoldsAnyAttempt(p) == job.status = "running" /\ job.lease = "live"

\* The fencing of every write of a claim: same attempt (lease_owner), live lease.
Holds(p) ==
  /\ job.status = "running"
  /\ job.attempt = exec[p].attempt
  /\ job.lease = "live"

Goes(p, pc)      == exec' = [exec EXCEPT ![p].pc = pc]
Stops(p)         == exec' = [exec EXCEPT ![p] = Idle]
Decides(p, code) == exec' = [exec EXCEPT ![p].pc = "verdict", ![p].verdict = code]

Running(attempt, start) ==
  [job EXCEPT !.status = "running", !.attempt = attempt, !.stage = start,
              !.lease = "live", !.error = "none"]
Ended(status, error, retry) ==
  [job EXCEPT !.status = status, !.error = error, !.lease = "none",
              !.retry = retry /\ job.attempt < MaxAttempts]
At(stage) == [job EXCEPT !.stage = stage, !.lease = "live"]

-----------------------------------------------------------------------------
(****************************** Upload ************************************)

\* put_quarantine; a failed put is removed again, unless that fails too.
PutQuarantine ==
  /\ upload = "none"
  /\ \/ /\ upload' = "put"
        /\ objects' = {"quarantine"}
     \/ /\ upload' = "over"
        /\ objects' \in {{}, {"quarantine"}}
  /\ UNCHANGED <<file, job, message, exec, scanned, outputs>>

\* One transaction inserts the file, its lifetime job (auto_process_requested
\* decides which) and the outbox event.
\* The reply of the commit may be lost: the request then compensates.
CommitUpload ==
  /\ upload = "put"
  /\ \/ upload' = "over"
     \/ "lost_reply" \in faults /\ upload' = "compensating"
  /\ file' = Lifecycle!NewFile
  /\ \E type \in {"file_process", "file_scan"} :
       job' = [NoJob EXCEPT !.type = type, !.status = "queued"]
  /\ message' = TRUE
  /\ UNCHANGED <<objects, exec, scanned, outputs>>

\* The transaction fails, or the process dies between the put and the commit.
AbortUpload ==
  /\ upload = "put"
  /\ upload' \in {"compensating", "over"}
  /\ UNCHANGED <<file, job, message, objects, exec, scanned, outputs>>

CompensateUpload ==
  /\ upload = "compensating"
  /\ upload' = "undone"
  /\ objects' \in {objects, objects \ {"quarantine"}}
  /\ UNCHANGED <<file, job, message, exec, scanned, outputs>>

-----------------------------------------------------------------------------
(************************* Delivery and recovery **************************)

\* claim_job: what the file must be for an attempt that begins at `start`.
ClaimSource(start) ==
  \/ start = "scan" /\ file.status \in {"uploaded", "validating"}
                    /\ file.scan = "pending"
  \/ start = "parse" /\ Readable

\* claim_job and file_runtime_source, one transaction.
Claim(w) ==
  /\ exec[w] = Idle
  /\ message /\ job.status = "queued"
  /\ ClaimSource(job.start)
  /\ job' = Running(job.attempt + 1, job.start)
  /\ file' = IF job.start = "scan" THEN [file EXCEPT !.status = "validating"]
                                   ELSE file
  /\ exec' = [exec EXCEPT ![w] =
                [pc |-> IF job.start = "scan" THEN "scanning" ELSE "parsing",
                 attempt |-> job.attempt + 1, verdict |-> "none"]]
  /\ message' = FALSE
  /\ UNCHANGED <<objects, upload, scanned, outputs>>

\* claim_job returns None: duplicate_or_stale, and the message is consumed.
RefuseMessage ==
  /\ message /\ job.status = "queued"
  /\ ~ClaimSource(job.start)
  /\ message' = FALSE
  /\ UNCHANGED <<file, job, objects, upload, exec, scanned, outputs>>

\* mark_outbox_failure, dead letter: the job fails, the file is not touched.
DispatchDies ==
  /\ message /\ job.status = "queued"
  /\ job' = Ended("failed", "DISPATCH", FALSE)
  /\ message' = FALSE
  /\ UNCHANGED <<file, objects, upload, exec, scanned, outputs>>

\* requeue_failed_file_job at the stage that failed.
Requeue ==
  /\ job.status = "failed" /\ job.retry
  /\ \/ /\ job.stage = "scan"
        /\ file.status = "validating"
        /\ file.scan \in {"scan_failed", "not_configured"}
        /\ file' = [file EXCEPT !.scan = "pending"]
     \/ /\ job.stage = "parse" /\ Readable
        /\ UNCHANGED file
  /\ job' = [job EXCEPT !.status = "queued", !.start = job.stage, !.stage = "none",
                        !.retry = FALSE, !.error = "none"]
  /\ message' = TRUE
  /\ UNCHANGED <<objects, upload, exec, scanned, outputs>>

\* Faulty variant: only a scan can begin again.
RecoverySourceOfScan == job.start = "scan" /\ ScanAwaited

\* recover_expired_file_job: what the file must be to begin again at `start`.
RecoverySource ==
  \/ job.start = "scan" /\ ScanAwaited
  \/ job.start = "scan" /\ FullProcess /\ Readable
  \/ job.start = "parse" /\ Readable

Recoverable ==
  /\ exec[Maintenance] = Idle
  /\ job.status = "running" /\ job.lease = "expired"
  /\ RecoverySource

TakeOver ==
  /\ Recoverable
  /\ job.attempt < MaxAttempts
  /\ job' = Running(job.attempt + 1, job.start)
  /\ exec' = [exec EXCEPT ![Maintenance] =
                [pc |-> "claimed", attempt |-> job.attempt + 1, verdict |-> "none"]]
  /\ UNCHANGED <<file, message, objects, upload, scanned, outputs>>

\* Faulty variant: the file of the lost scan is forgotten.
GiveUpJobOnly ==
  /\ Recoverable
  /\ job.attempt = MaxAttempts
  /\ job' = Ended("failed", "WORKER_LOST", FALSE)
  /\ UNCHANGED <<file, message, objects, upload, exec, scanned, outputs>>

\* The last attempt is lost: a file still in scan becomes scan_failed with it.
GiveUp ==
  /\ Recoverable
  /\ job.attempt = MaxAttempts
  /\ job' = Ended("failed", "WORKER_LOST", FALSE)
  /\ file' = IF job.stage = "scan" /\ ScanAwaited
               THEN [file EXCEPT !.scan = "scan_failed"] ELSE file
  /\ UNCHANGED <<message, objects, upload, exec, scanned, outputs>>

-----------------------------------------------------------------------------
(******************************** Scan ************************************)

\* execute_claimed loads the source in a transaction of its own.
LoadSource(p) ==
  /\ exec[p].pc = "claimed"
  /\ Goes(p, IF job.start = "parse" THEN "parsing"
             ELSE IF StoredClean THEN "skipping" ELSE "scanning")
  /\ UNCHANGED <<file, job, message, objects, upload, scanned, outputs>>

\* skip_recovered_clean_scan: an earlier attempt committed its scan.
SkipScan(p) ==
  /\ exec[p].pc = "skipping"
  /\ Holds(p) /\ Readable
  /\ scanned \in 1..(exec[p].attempt - 1)
  /\ job' = At("parse")
  /\ Goes(p, "parsing")
  /\ UNCHANGED <<file, message, objects, upload, scanned, outputs>>

\* Read the quarantine copy and scan it.  The copy that cannot be read, and
\* the scanner that cannot be reached, are scan failures.
ReadAndScan(p) ==
  /\ exec[p].pc = "scanning"
  /\ \/ Decides(p, "scan_failed")
     \/ /\ "quarantine" \in objects
        /\ \/ Goes(p, "scanned")
           \/ \E code \in {"infected", "not_configured"} : Decides(p, code)
  /\ UNCHANGED <<file, job, message, objects, upload, scanned, outputs>>

\* Faulty variant: the object is moved instead of copied.
PromoteByMove(p) ==
  /\ exec[p].pc = "scanned"
  /\ "quarantine" \in objects
  /\ objects' = {"originals"}
  /\ Goes(p, "promoted")
  /\ UNCHANGED <<file, job, message, upload, scanned, outputs>>

\* promote_clean copies to the same key; whatever fails in it, it removes the
\* object at that key in originals (if the store lets it) and gives up.
Promote(p) ==
  /\ exec[p].pc = "scanned"
  /\ \/ /\ "quarantine" \in objects
        /\ objects' = objects \cup {"originals"}
        /\ Goes(p, "promoted")
     \/ /\ objects' \in {objects, objects \ {"originals"}} \cup
             (IF "quarantine" \in objects THEN {objects \cup {"originals"}} ELSE {})
        /\ Decides(p, "scan_failed")
  /\ UNCHANGED <<file, job, message, upload, scanned, outputs>>

VerdictRow(code) ==
  [file EXCEPT !.status = IF code = "infected" THEN "rejected" ELSE "validating",
               !.scan = code]

\* fail_file_scan: scan_failed is retryable, the other verdicts are not.
FailScan(p) ==
  /\ exec[p].pc = "verdict"
  /\ Holds(p) /\ ScanAwaited
  /\ file' = VerdictRow(exec[p].verdict)
  /\ job' = Ended("failed", "HANDLER", exec[p].verdict = "scan_failed")
  /\ Stops(p)
  /\ UNCHANGED <<message, objects, upload, scanned, outputs>>

CleanRow == [status |-> "stored", scan |-> "clean", located |-> TRUE]

\* complete_file_scan_clean.  When the reply of the commit is lost the executor
\* takes it for a failure.
CommitScan(p) ==
  /\ exec[p].pc = "promoted"
  /\ Holds(p) /\ ScanAwaited
  /\ file' = CleanRow
  /\ job' = IF FullProcess THEN At("parse") ELSE Ended("succeeded", "none", FALSE)
  /\ scanned' = exec[p].attempt
  /\ \/ Goes(p, "cleaning")
     \/ "lost_reply" \in faults /\ Goes(p, "undoing")
  /\ UNCHANGED <<message, objects, upload, outputs>>

\* JOB_LEASE_LOST, JOB_FENCING_REJECTED or a database error after the copy.
AbandonScan(p) ==
  /\ exec[p].pc = "promoted"
  /\ Goes(p, "undoing")
  /\ UNCHANGED <<file, job, message, objects, upload, scanned, outputs>>

\* delete_original_compensation in the `finally` of _execute_scan.
Compensate(p) ==
  /\ exec[p].pc = "undoing"
  /\ objects' \in {objects, objects \ {"originals"}}
  /\ Stops(p)
  /\ UNCHANGED <<file, job, message, upload, scanned, outputs>>

\* Faulty variant: the failure of the store counts as a failure of the scan.
CleanUpOrUndo(p) ==
  /\ exec[p].pc = "cleaning"
  /\ \/ /\ objects' = objects \ {"quarantine"}
        /\ IF FullProcess THEN Goes(p, "parsing") ELSE Stops(p)
     \/ Goes(p, "undoing") /\ UNCHANGED objects
  /\ UNCHANGED <<file, job, message, upload, scanned, outputs>>

\* delete_quarantine_after_commit; a failure of the store is ignored.
CleanUp(p) ==
  /\ exec[p].pc = "cleaning"
  /\ objects' \in {objects, objects \ {"quarantine"}}
  /\ IF FullProcess THEN Goes(p, "parsing") ELSE Stops(p)
  /\ UNCHANGED <<file, job, message, upload, scanned, outputs>>

-----------------------------------------------------------------------------
(************************* Parse and Markdown *****************************)

\* completed_result_for_trace: a recovered attempt keeps the committed result.
ReuseParse(p) ==
  /\ exec[p].pc = "parsing"
  /\ StoredClean /\ outputs.parse > 0
  /\ Holds(p)
  /\ job' = At("markdown")
  /\ Goes(p, "writing")
  /\ UNCHANGED <<file, message, objects, upload, scanned, outputs>>

\* Read the original and parse it; either may fail.
Parse(p) ==
  /\ exec[p].pc = "parsing"
  /\ ~(StoredClean /\ outputs.parse > 0)
  /\ \/ "originals" \in objects /\ Goes(p, "parsed")
     \/ Goes(p, "unparsed")
  /\ UNCHANGED <<file, job, message, objects, upload, scanned, outputs>>

\* append_result, the extraction job and advance_step, one transaction.
CommitParse(p) ==
  /\ exec[p].pc = "parsed"
  /\ Holds(p) /\ Readable
  /\ outputs' = [outputs EXCEPT !.parse = @ + 1, !.extraction = @ + 1]
  /\ job' = At("markdown")
  /\ Goes(p, "writing")
  /\ UNCHANGED <<file, message, objects, upload, scanned>>

\* append_failure and finish_job("failed"); some codes are retryable.
FailParse(p) ==
  /\ exec[p].pc = "unparsed"
  /\ Holds(p) /\ StoredClean
  /\ \E retry \in BOOLEAN : job' = Ended("failed", "HANDLER", retry)
  /\ Stops(p)
  /\ UNCHANGED <<file, message, objects, upload, scanned, outputs>>

\* generate_and_activate (which keeps an active version) and finish_job.
WriteMarkdown(p) ==
  /\ exec[p].pc = "writing"
  /\ Holds(p) /\ StoredClean
  /\ outputs' = [outputs EXCEPT !.markdown = 1]
  /\ job' = Ended("succeeded", "none", FALSE)
  /\ Stops(p)
  /\ UNCHANGED <<file, message, objects, upload, scanned>>

\* MARKDOWN_CONVERSION_FAILED: the file was archived, or its text is refused.
FailMarkdown(p) ==
  /\ exec[p].pc = "writing"
  /\ Holds(p)
  /\ job' = Ended("failed", "HANDLER", FALSE)
  /\ Stops(p)
  /\ UNCHANGED <<file, message, objects, upload, scanned, outputs>>

-----------------------------------------------------------------------------
(**************************** Environment *********************************)

\* The executor dies, or raises because a fenced write changed no row or the
\* file is no longer stored.  An exception after the copy is AbandonScan.
Drop(p) ==
  /\ exec[p] # Idle
  /\ Stops(p)
  /\ UNCHANGED <<file, job, message, objects, upload, scanned, outputs>>

\* FileManagementService.archive looks at the file, and only loads the job.
Archive ==
  /\ Archiving
  /\ StoredClean
  /\ file' = [file EXCEPT !.status = "archived"]
  /\ UNCHANGED <<job, message, objects, upload, exec, scanned, outputs>>

\* The executor of the current attempt, if it lives, renews the lease.
Alive == \E p \in Procs : exec[p] # Idle /\ exec[p].attempt = job.attempt

LeaseExpires ==
  /\ job.status = "running" /\ job.lease = "live"
  /\ "stall" \in faults \/ ~Alive
  /\ job' = [job EXCEPT !.lease = "expired"]
  /\ UNCHANGED <<file, message, objects, upload, exec, scanned, outputs>>

-----------------------------------------------------------------------------
Init ==
  /\ file = Lifecycle!NoFile
  /\ job = NoJob
  /\ message = FALSE
  /\ objects = {}
  /\ upload = "none"
  /\ exec = [p \in Procs |-> Idle]
  /\ scanned = 0
  /\ outputs = [parse |-> 0, extraction |-> 0, markdown |-> 0]
  /\ faults \in FaultSets

UploadNext == PutQuarantine \/ CommitUpload \/ AbortUpload \/ CompensateUpload

JobNext == RefuseMessage \/ DispatchDies \/ Requeue \/ TakeOver \/ GiveUp

ScanNext(p) ==
  \/ LoadSource(p) \/ SkipScan(p) \/ ReadAndScan(p) \/ Promote(p) \/ FailScan(p)
  \/ CommitScan(p) \/ AbandonScan(p) \/ Compensate(p) \/ CleanUp(p)

ParseNext(p) ==
  \/ ReuseParse(p) \/ Parse(p) \/ CommitParse(p) \/ FailParse(p)
  \/ WriteMarkdown(p) \/ FailMarkdown(p)

Next ==
  \/ UploadNext \/ JobNext \/ Archive \/ LeaseExpires
  \/ \E w \in Workers : Claim(w)
  \/ \E p \in Procs : ScanNext(p) \/ ParseNext(p) \/ Drop(p)

Spec == Init /\ [][Next /\ UNCHANGED faults]_<<vars, faults>>

(***************************************************************************)
(* Fairness.  A message is delivered or its event dies (JobRuntime shows   *)
(* it), the maintenance loop comes back to every candidate, an executor    *)
(* goes on until it stops, and the lease of an attempt nobody works on     *)
(* runs out.  Nothing is assumed of crashes, verdicts, store failures or   *)
(* users.                                                                  *)
(***************************************************************************)
Fairness ==
  /\ WF_vars(RefuseMessage \/ DispatchDies \/ \E w \in Workers : Claim(w))
  /\ WF_vars(Requeue)
  /\ WF_vars(TakeOver \/ GiveUp)
  /\ WF_vars(~Alive /\ LeaseExpires)
  /\ \A p \in Procs : WF_vars(ScanNext(p) \/ ParseNext(p) \/ Drop(p))

FairSpec == Spec /\ Fairness

-----------------------------------------------------------------------------
(***************************** Properties *********************************)

\* Every variable stays within the values its columns and records allow.
TypeOK ==
  /\ file \in Lifecycle!FileRecord
  /\ job \in JobRecord
  /\ message \in BOOLEAN
  /\ objects \subseteq {"quarantine", "originals"}
  /\ upload \in {"none", "put", "compensating", "over", "undone"}
  /\ exec \in [Procs -> ExecRecord]
  /\ scanned \in 0..MaxAttempts
  /\ outputs \in [parse : Nat, extraction : Nat, markdown : Nat]
  /\ faults \in FaultSets

\* A file that has not been found clean keeps its quarantine copy: the late
\* clean-up of one attempt never takes the source from the next.  (An upload
\* request that took its own commit for a failure is excepted: it compensates.)
SourceKept ==
  file.status \in {"uploaded", "validating"} /\ upload # "undone" =>
    "quarantine" \in objects

\* A clean file keeps its original, whatever attempts promote, fail, compensate
\* or are lost after the commit.
OriginalKept ==
  file.status \in {"stored", "archived"} => "originals" \in objects

\* The same, as long as every living executor keeps its lease and every reply
\* of a commit arrives, and nobody archives the file under a recovered attempt
\* (which would scan it again, be refused and compensate).
OriginalKeptWhenPunctual ==
  faults = {} /\ file.status = "stored" => "originals" \in objects

\* The file and its lifetime job tell the same story: a job past its scan has
\* a located original, a job that succeeded a stored file, a rejected file or
\* a failed scan a job that failed, an unclaimed file a job never begun.
FileAgreesWithJob ==
  /\ job.status = "running" /\ job.stage \in {"parse", "markdown"} => file.located
  /\ job.status = "succeeded" => file.located
  /\ file.scan \notin {"pending", "clean"} => job.status = "failed"
  /\ file.status = "uploaded" => job.attempt = 0

\* CR-007: however the attempts of the scan are lost, fail or run out, no file
\* is left pending with its job over (a dead-lettered dispatch excepted).
PendingIsRecoverable ==
  file.status \in {"uploaded", "validating"} /\ file.scan = "pending" =>
    job.status \in {"queued", "running"} \/ job.error = "DISPATCH"

\* Lost replies, stalled attempts and retries never append a second parse
\* version or a second extraction job to the file.
OneParse ==
  /\ outputs.parse <= 1
  /\ outputs.extraction = outputs.parse
  /\ outputs.markdown <= outputs.parse

\* Once the file is archived, an attempt in flight adds nothing to it.
ArchivedIsFrozen ==
  [][file.status = "archived" => UNCHANGED <<file, outputs>>]_vars

\* Every write to the files row satisfies the constraints and the trigger of
\* the table: no transaction of a handler is ever refused by them.
ImplementsFileLifecycle == Lifecycle!Spec

\* Every write to the file's lifetime job is one its trigger accepts, as far as
\* status, attempt, lease and retry go.
JobRow ==
  INSTANCE JobRowLifecycle WITH
    row <- [status |-> job.status, attempt |-> job.attempt, lease |-> job.lease,
            retry |-> job.retry]
ImplementsJobRow == JobRow!Spec

\* The job of a file that nobody archives ends: it succeeds, or it fails with
\* no retry to come.
JobOver == \/ job.status = "succeeded"
           \/ job.status = "failed" /\ ~job.retry
FileSettles == job.status # "absent" ~> JobOver \/ file.status = "archived"

=============================================================================
