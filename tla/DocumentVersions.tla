-------------------------- MODULE DocumentVersions --------------------------
(***************************************************************************)
(* The parse versions of one stored file after its first parse: manual     *)
(* corrections and security revalidations of its assets                    *)
(* (services/document_correction.py), their jobs and executors             *)
(* (_execute_manual_correction_snapshot and                                *)
(* _execute_asset_security_revalidation of services/file_job_executor.py,  *)
(* repositories/document_processing.py), the dispatch of those jobs by the *)
(* one dispatcher process (services/job_dispatcher.py), the activation of  *)
(* a candidate and its Markdown (repositories/markdown_write.py).          *)
(*                                                                         *)
(* Such a job has one attempt and no cancellation.  A version is named by  *)
(* its version_no, its job by the same number.  The assets of a version    *)
(* are one object.  The file is stored and clean: its archive only refuses *)
(* further requests, which nobody has to make, and stops no executor.      *)
(***************************************************************************)
EXTENDS Naturals, Sequences

CONSTANTS
  MaxVersion,    \* how many parse versions the file gets
  MaxDispatch    \* attempts of an outbox event before it is dead (8)

ASSUME DocumentAssumption ==
  /\ MaxVersion \in Nat \ {0}
  /\ MaxDispatch \in Nat \ {0}

VARIABLES
  assets,        \* the document has assets (images, tables)
  markdown,      \* the version whose Markdown is the active one
  kind,          \* source_type of each version
  parent,        \* parent_version_id, 0 for none
  status,        \* status of each version
  fixes,         \* the corrections in its blocks
  copies,        \* its asset objects in MinIO
  job,           \* status of its job
  lease,         \* the lease of its job
  worker,        \* what the executor of its job does
  unheard,       \* history: the reply to the executor's commit was lost
  event,         \* status of its outbox event
  tries,         \* attempt_count of the event
  sent,          \* a message for its job is at the broker
  dispatcher,    \* the event the dispatcher works on, 0 for none
  sending,       \* it has not called the broker yet
  processing,    \* the events in processing, in the order of their claims
  overdue        \* the first of them is past next_attempt_at

versions == <<kind, parent, status, fixes, markdown>>
jobs     == <<job, lease>>
work     == <<worker, copies, unheard>>
outbox   == <<event, tries, processing, overdue>>
posting  == <<sent, dispatcher, sending>>
vars     == <<assets, versions, jobs, work, outbox, posting>>

Versions   == 1..MaxVersion
Candidates == 2..MaxVersion

Active   == CHOOSE v \in Versions : status[v] = "active"
Fresh(v) == status[v] = "absent" /\ \A u \in 1..(v - 1) : status[u] # "absent"

\* finish_job fences status, lease owner, row_version and the expiry.
Holds(v) == job[v] = "running" /\ lease[v] = "live"

Turns(v, to)   == status' = [status EXCEPT ![v] = to]
Goes(v, to)    == worker' = [worker EXCEPT ![v] = to]
JobEnds(v, to) == /\ job' = [job EXCEPT ![v] = to]
                  /\ lease' = [lease EXCEPT ![v] = "none"]

-----------------------------------------------------------------------------
(************************** The operations of the API *********************)

\* The result version, its job and the outbox event, in one transaction.
Accepts(v, k) ==
  /\ Fresh(v)
  /\ kind' = [kind EXCEPT ![v] = k]
  /\ parent' = [parent EXCEPT ![v] = Active]
  /\ Turns(v, "queued")
  /\ job' = [job EXCEPT ![v] = "queued"]
  /\ event' = [event EXCEPT ![v] = "pending"]
  /\ UNCHANGED <<assets, markdown, fixes, lease, work, tries, processing, overdue, posting>>

\* correct_block: the named source must be the active version.
CorrectBlock(v) == Accepts(v, "correction")

\* request_security_revalidation: none in progress for the same source.
RequestRevalidation(v) ==
  /\ assets
  /\ \A u \in Versions :
       kind[u] = "revalidation" /\ parent[u] = Active => status[u] \notin {"queued", "running"}
  /\ Accepts(v, "revalidation")

Swaps(v) ==
  /\ status' = [status EXCEPT ![Active] = "superseded", ![v] = "active"]
  /\ markdown' = v

\* Faulty variant: any finished candidate replaces the active version.
ActivateAny(v) ==
  /\ status[v] = "succeeded"
  /\ Swaps(v)
  /\ UNCHANGED <<assets, kind, parent, fixes, jobs, work, outbox, posting>>

\* activate_parse and generate_and_activate.
Activate(v) ==
  /\ status[v] = "succeeded" /\ parent[v] = Active
  /\ Swaps(v)
  /\ UNCHANGED <<assets, kind, parent, fixes, jobs, work, outbox, posting>>

-----------------------------------------------------------------------------
(***************************** The dispatcher *****************************)

Idle == dispatcher = 0
Leaves(v) == /\ processing' = SelectSeq(processing, LAMBDA u : u # v)
             /\ overdue' = (overdue /\ v # Head(processing))
Rests == dispatcher' = 0 /\ sending' = FALSE

\* claim_next_outbox; run_dispatcher_iteration comes here only when the
\* reaper finds nothing.
ClaimEvent(v) ==
  /\ Idle /\ ~overdue
  /\ event[v] \in {"pending", "failed"} /\ job[v] = "queued"
  /\ event' = [event EXCEPT ![v] = "processing"]
  /\ tries' = [tries EXCEPT ![v] = @ + 1]
  /\ processing' = Append(processing, v)
  /\ dispatcher' = v /\ sending' = TRUE
  /\ UNCHANGED <<assets, versions, jobs, work, overdue, sent>>

\* mark_outbox_failure, last attempt or an unknown error.
DeadLetter(v) ==
  /\ event' = [event EXCEPT ![v] = "dead"]
  /\ Leaves(v)
  /\ job' = [job EXCEPT ![v] = "failed"]
  /\ Turns(v, "failed")

\* mark_outbox_failure, a recoverable error before the last attempt.
RetryLater(v) ==
  /\ tries[v] < MaxDispatch
  /\ event' = [event EXCEPT ![v] = "failed"]
  /\ Leaves(v)
  /\ UNCHANGED <<job, status>>

\* mark_outbox_failure returns False unless the result is still queued: the
\* event stays in processing.
Refused(v) == UNCHANGED <<event, processing, overdue, job, status>>

FailEvent(v) ==
  IF status[v] = "queued"
    THEN RetryLater(v) \/ (tries[v] = MaxDispatch /\ DeadLetter(v))
    ELSE Refused(v)

\* The publication: sent, sent without a confirmation, not sent, or an error
\* the dispatcher does not know.
Send ==
  /\ dispatcher # 0 /\ sending
  /\ \/ /\ sent' = [sent EXCEPT ![dispatcher] = TRUE]
        /\ sending' = FALSE
        /\ UNCHANGED <<dispatcher, status, job, event, processing, overdue>>
     \/ /\ FailEvent(dispatcher) \/ (status[dispatcher] = "queued" /\ DeadLetter(dispatcher))
        /\ Rests
        /\ UNCHANGED sent
  /\ UNCHANGED <<assets, markdown, kind, parent, fixes, lease, work, tries>>

\* mark_outbox_published, or PUBLISH_CONFIRM_UNKNOWN.
Confirm ==
  /\ dispatcher # 0 /\ ~sending
  /\ \/ /\ event' = [event EXCEPT ![dispatcher] = "published"]
        /\ Leaves(dispatcher)
        /\ UNCHANGED <<status, job>>
     \/ FailEvent(dispatcher)
  /\ Rests
  /\ UNCHANGED <<assets, markdown, kind, parent, fixes, lease, work, tries, sent>>

DispatcherDies ==
  /\ ~Idle
  /\ Rests
  /\ UNCHANGED <<assets, versions, jobs, work, outbox, sent>>

\* 60 seconds after the claim; the events expire in that order.
EventExpires ==
  /\ processing # <<>> /\ ~overdue /\ Head(processing) # dispatcher
  /\ overdue' = TRUE
  /\ UNCHANGED <<assets, versions, jobs, work, event, tries, processing, posting>>

\* reap_expired_once: the oldest one.
Reap ==
  /\ Idle /\ overdue
  /\ FailEvent(Head(processing))
  /\ UNCHANGED <<assets, markdown, kind, parent, fixes, lease, work, tries, posting>>

-----------------------------------------------------------------------------
(****************************** The executors *****************************)

\* The task of the queue: claim_job, or the message is refused.
Deliver(v) ==
  /\ sent[v]
  /\ sent' = [sent EXCEPT ![v] = FALSE]
  /\ IF job[v] = "queued" /\ event[v] # "dead"
       THEN /\ Turns(v, "running")
            /\ job' = [job EXCEPT ![v] = "running"]
            /\ lease' = [lease EXCEPT ![v] = "live"]
            /\ Goes(v, "working")
       ELSE UNCHANGED <<status, jobs, worker>>
  /\ UNCHANGED <<assets, markdown, kind, parent, fixes, copies, unheard, outbox,
                 dispatcher, sending>>

\* Faulty variant: the candidate is made from what is active now.
RebuildFromActive(v) ==
  /\ worker[v] = "working" /\ kind[v] = "correction"
  /\ ~assets /\ Holds(v)
  /\ Turns(v, "succeeded")
  /\ fixes' = [fixes EXCEPT ![v] = fixes[Active] \cup {v}]
  /\ JobEnds(v, "succeeded")
  /\ Goes(v, "done")
  /\ UNCHANGED <<assets, markdown, kind, parent, copies, unheard, outbox, posting>>

\* rebuild_manual_correction_snapshot and finish_job, in one transaction; a
\* source with assets is not supported.
Rebuild(v) ==
  /\ worker[v] = "working" /\ kind[v] = "correction"
  /\ IF assets THEN Goes(v, "failing") /\ UNCHANGED <<status, fixes, jobs>>
     ELSE /\ Holds(v)
          /\ Turns(v, "succeeded")
          /\ fixes' = [fixes EXCEPT ![v] = fixes[parent[v]] \cup {v}]
          /\ JobEnds(v, "succeeded")
          /\ Goes(v, "done")
  /\ UNCHANGED <<assets, markdown, kind, parent, copies, unheard, outbox, posting>>

\* asset_revalidation_sources, copy_verified and scan, outside a transaction;
\* it fails before the first copy or after some.
Copy(v) ==
  /\ worker[v] = "working" /\ kind[v] = "revalidation"
  /\ \/ /\ copies[parent[v]] = "kept" /\ status[v] = "running"
        /\ copies' = [copies EXCEPT ![v] = "kept"]
        /\ Goes(v, "copied") \/ Goes(v, "withdrawing")
     \/ Goes(v, "failing") /\ UNCHANGED copies
  /\ UNCHANGED <<assets, versions, jobs, unheard, outbox, posting>>

\* rebuild_asset_security_snapshot and finish_job: succeeded when every asset
\* is clean, a review otherwise.
Publishes(v) ==
  /\ Holds(v) /\ status[v] = "running"
  /\ Turns(v, "succeeded") \/ Turns(v, "review")
  /\ fixes' = [fixes EXCEPT ![v] = fixes[parent[v]]]
  /\ JobEnds(v, "succeeded")

\* Faulty variant: the copies are deleted whatever the outcome is.
StoreThenUndo(v) ==
  /\ worker[v] = "copied"
  /\ \/ Publishes(v) /\ Goes(v, "undoing")
     \/ Goes(v, "undoing") /\ UNCHANGED <<status, fixes, jobs>>
  /\ UNCHANGED <<assets, markdown, kind, parent, copies, unheard, outbox, posting>>

\* The final transaction.  The executor may not hear of its commit; a version
\* that is not running any more is AssetRevalidationSnapshotError; a lost
\* lease, a rejected fence or an error of the database is the other branch.
Store(v) ==
  /\ worker[v] = "copied"
  /\ \/ Publishes(v) /\ Goes(v, "done") /\ UNCHANGED unheard
     \/ Publishes(v) /\ Goes(v, "undoing") /\ unheard' = unheard \cup {v}
     \/ /\ Goes(v, "undoing") \/ (status[v] # "running" /\ Goes(v, "withdrawing"))
        /\ UNCHANGED <<status, fixes, jobs, unheard>>
  /\ UNCHANGED <<assets, markdown, kind, parent, copies, outbox, posting>>

\* delete_compensation of the own copies; then the error goes on, or the
\* failure is recorded.
Undo(v) ==
  /\ worker[v] \in {"undoing", "withdrawing"}
  /\ copies' = [copies EXCEPT ![v] = "deleted"]
  /\ Goes(v, IF worker[v] = "undoing" THEN "done" ELSE "failing")
  /\ UNCHANGED <<assets, versions, jobs, unheard, outbox, posting>>

\* mark_manual_correction_failed or mark_asset_revalidation_failed, with
\* finish_job; a lost lease leaves nothing of it.
MarkFailed(v) ==
  /\ worker[v] = "failing"
  /\ IF Holds(v) /\ status[v] = "running"
       THEN Turns(v, "failed") /\ JobEnds(v, "failed")
       ELSE UNCHANGED <<status, jobs>>
  /\ Goes(v, "done")
  /\ UNCHANGED <<assets, markdown, kind, parent, fixes, copies, unheard, outbox, posting>>

Busy(v) == worker[v] \in {"working", "copied", "undoing", "withdrawing", "failing"}

\* The process dies, or stops before it has copied anything (a lost lease, a
\* database that does not answer).
WorkerDies(v) ==
  /\ Busy(v)
  /\ Goes(v, "dead")
  /\ UNCHANGED <<assets, versions, jobs, copies, unheard, outbox, posting>>

LeaseExpires(v) ==
  /\ Holds(v)
  /\ lease' = [lease EXCEPT ![v] = "expired"]
  /\ UNCHANGED <<assets, versions, job, work, outbox, posting>>

\* Faulty variant: the result of the lost job is left running.
RecoverJobOnly(v) ==
  /\ job[v] = "running" /\ lease[v] = "expired" /\ status[v] = "running"
  /\ JobEnds(v, "failed")
  /\ UNCHANGED <<assets, versions, work, outbox, posting>>

\* recover_expired_file_job: the only attempt is lost (WORKER_LOST).
RecoverLost(v) ==
  /\ job[v] = "running" /\ lease[v] = "expired" /\ status[v] = "running"
  /\ JobEnds(v, "failed")
  /\ Turns(v, "failed")
  /\ UNCHANGED <<assets, markdown, kind, parent, fixes, work, outbox, posting>>

-----------------------------------------------------------------------------
Init ==
  /\ assets \in BOOLEAN /\ markdown = 1
  /\ kind = [v \in Versions |-> "parse"]
  /\ parent = [v \in Versions |-> 0]
  /\ status = [v \in Versions |-> IF v = 1 THEN "active" ELSE "absent"]
  /\ fixes = [v \in Versions |-> {}]
  /\ copies = [v \in Versions |-> IF v = 1 /\ assets THEN "kept" ELSE "none"]
  /\ job = [v \in Versions |-> "none"]
  /\ lease = [v \in Versions |-> "none"]
  /\ worker = [v \in Versions |-> "none"]
  /\ unheard = {}
  /\ event = [v \in Versions |-> "none"]
  /\ tries = [v \in Versions |-> 0]
  /\ sent = [v \in Versions |-> FALSE]
  /\ dispatcher = 0 /\ sending = FALSE
  /\ processing = <<>> /\ overdue = FALSE

Users(v)    == CorrectBlock(v) \/ RequestRevalidation(v) \/ Activate(v)
Executor(v) == Rebuild(v) \/ Copy(v) \/ Store(v) \/ Undo(v) \/ MarkFailed(v)
Dispatch    == Send \/ Confirm \/ Reap \/ \E v \in Candidates : ClaimEvent(v)

Next ==
  \/ Dispatch \/ DispatcherDies \/ EventExpires
  \/ \E v \in Candidates :
       Users(v) \/ Deliver(v) \/ Executor(v) \/ WorkerDies(v) \/ LeaseExpires(v) \/ RecoverLost(v)

Spec == Init /\ [][Next]_vars

(***************************************************************************)
(* Fairness: the dispatcher goes on and comes back after a crash, clocks   *)
(* run, the broker delivers what it has, maintenance recovers lost jobs.   *)
(* Executors owe nothing: they may stop without a word at any point.       *)
(***************************************************************************)
FairSpec ==
  /\ Spec
  /\ WF_vars(Dispatch) /\ WF_vars(EventExpires)
  /\ WF_vars(\E v \in Candidates : Deliver(v))
  /\ WF_vars(\E v \in Candidates : LeaseExpires(v) \/ RecoverLost(v))

-----------------------------------------------------------------------------
(******************************* Properties *******************************)

\* Every variable stays within the values its columns allow, and exactly one
\* version of the file is active, the one whose Markdown is.
TypeOK ==
  /\ assets \in BOOLEAN
  /\ kind \in [Versions -> {"parse", "correction", "revalidation"}]
  /\ parent \in [Versions -> 0..MaxVersion]
  /\ status \in [Versions -> {"absent", "queued", "running", "succeeded", "review", "failed",
                              "active", "superseded"}]
  /\ {v \in Versions : status[v] = "active"} = {markdown}
  /\ fixes \in [Versions -> SUBSET Versions]
  /\ copies \in [Versions -> {"none", "kept", "deleted"}]
  /\ job \in [Versions -> {"none", "queued", "running", "succeeded", "failed"}]
  /\ lease \in [Versions -> {"none", "live", "expired"}]
  /\ worker \in [Versions -> {"none", "working", "copied", "undoing", "withdrawing", "failing",
                              "done", "dead"}]
  /\ unheard \subseteq Versions
  /\ event \in [Versions -> {"none", "pending", "processing", "failed", "published", "dead"}]
  /\ tries \in [Versions -> 0..MaxDispatch]
  /\ sent \in [Versions -> BOOLEAN]
  /\ dispatcher \in 0..MaxVersion /\ sending \in BOOLEAN
  /\ processing \in Seq(Versions) /\ overdue \in BOOLEAN

Outcome(s) ==
  CASE s = "queued" -> "queued" [] s = "running" -> "running" [] s = "failed" -> "failed"
    [] OTHER -> "succeeded"
\* CR-005 132: a candidate and its job end together, whoever ends them: the
\* executor, the dead letter or the recovery.
ResultAgreesWithJob ==
  \A v \in Candidates : status[v] # "absent" => job[v] = Outcome(status[v])

\* What is stored agrees with job and result: a revalidation keeps its copies,
\* a failed one leaves none behind.  The compensation of a late executor never
\* meets a published result (only where the reply to its commit was lost), nor
\* forgets what it copied (only where its process died).
CopiesMatchResult ==
  /\ ResultAgreesWithJob
  /\ \A v \in Versions : kind[v] = "revalidation" =>
       /\ status[v] \in {"succeeded", "review", "active", "superseded"} /\ v \notin unheard
            => copies[v] = "kept"
       /\ status[v] = "failed" /\ worker[v] = "done" => copies[v] # "kept"

\* No correction that was active is lost: of two candidates made from the same
\* version only one gets active.
CorrectionsAccumulate == [][fixes[Active] \subseteq fixes[Active]']_vars

\* The dispatcher is occupied with an event it can never finish: it was in
\* processing when a worker began its job.
Stalled == overdue /\ status[Head(processing)] # "queued"

\* Every candidate settles: begun ones within their lease, queued ones by
\* delivery or dead letter, unless the dispatcher stalls.
Open(v) == status[v] \in {"queued", "running"}
CandidateSettles ==
  \A v \in Candidates : Open(v) ~> ~Open(v) \/ (status[v] = "queued" /\ Stalled)

\* The versions keep the promises of ParseVersionLifecycle.
Lifecycle ==
  INSTANCE ParseVersionLifecycle WITH
    Versions <- Versions, status <- status, parent <- parent, fixes <- fixes
ImplementsParseLifecycle == Lifecycle!Spec

\* And every job is written as its trigger accepts; its one attempt has begun
\* when an executor has been at work.
JobOf(v) ==
  [status |-> IF job[v] = "none" THEN "absent" ELSE job[v], lease |-> lease[v],
   attempt |-> IF worker[v] = "none" THEN 0 ELSE 1, retry |-> FALSE]
JobRow(v) == INSTANCE JobRowLifecycle WITH MaxAttempts <- 1, row <- JobOf(v)
ImplementsJobRows ==
  /\ \A v \in Candidates : JobRow(v)!Init
  /\ [][\A v \in Candidates : [JobRow(v)!Next]_(JobOf(v))]_<<jobs, worker>>
=============================================================================
