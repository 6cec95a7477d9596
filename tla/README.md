# FinAudit: TLA+ models and proofs

FinAudit audits contracts and invoices: users upload files, the server scans, parses and
extracts them, audit executions evaluate rules over the extracted facts, reports are rendered,
and a knowledge base answers questions. Everything that takes time is an *asynchronous job*:
a row of PostgreSQL, driven by at-least-once messages and leases. This directory specifies
that machinery, checks it with TLC and proves part of it with TLAPS.

## 1. The system

| Component | State it keeps | Operations | Hard behaviours |
|---|---|---|---|
| Job runtime (`repositories/job_runtime.py`, `services/job_dispatcher.py`, `services/job_recovery.py`, `workers/`) | `async_jobs`, `async_job_steps`, `outbox_events` | create, dispatch, claim, heartbeat, advance, finish, cancel, retry, take over | duplicated and late messages, crashes between two transactions, lease expiry against commit, retry against dead letter |
| File intake and processing (`services/file_intake.py`, `file_job_executor.py`, `file_management.py`, MinIO adapters) | `files`, two object buckets, `document_parse_versions`, markdown versions | upload, scan, promote, parse, markdown, archive, retry | two stores without a common transaction, compensation by a stale attempt |
| Document correction (`services/document_correction.py`) | parse versions, corrections | correct, rebuild snapshot, revalidate assets | one-attempt jobs that must end with their version |
| Extraction and facts (`contract_/invoice_extraction_executor.py`, contract, invoice and supplier services) | contracts, invoices, suppliers with row versions | extract, correct, confirm, check duplicates, bind | second drafts, duplicates made by corrections, repeated requests |
| Links and agreements (`contract_invoice_management.py`, `supplementary_agreement_management.py`, `contract_effectivity.py`) | `contract_invoices`, `supplementary_agreements` with their changes | suggest, replace and cancel a primary contract, change and decide an agreement | competing primaries, changes that reach back before a finished audit |
| Audit (`services/audit_management.py`, `audit_job_executor.py`, `repositories/audit_runtime.py`) | tasks, executions, rule results, risks, reviews | create, freeze, execute, review, cancel, retry, re-audit | outdated executions with live jobs and reports |
| Reports (`services/report_queue.py`, `report_job_executor.py`) | `audit_reports`, report objects | queue, draft, render, upload, complete, compensate | artifacts under keys that all attempts share |
| Knowledge (`knowledge_index_management.py`, `knowledge_job_executor.py`, `policy_management.py`, `rag_query.py`) | index versions, chunks, Qdrant collections | build, activate, revoke, query | revocation against queries in flight |
| AI calls (`ai/`, `audited_llm.py`, `ai_call_audit.py`) | call events, call audit rows, Redis permits | start, finish, project, reconcile | calls whose end was never recorded, permits of dead holders |
| Authentication (`services/auth.py`, `break_glass.py`) | sessions, refresh token families, approvals | login, rotate, revoke, approve, consume | concurrent refresh with one token |
| Handler registries, API, parsing, rendering, frontend | none of their own | | sequential or stateless |

Components meet in the database: a service writes a business row, its job and the first outbox
event in one transaction; a dispatcher process carries the event to Celery; a worker claims the
job and calls the executor of its type; the maintenance process requeues retryable failures and
takes over jobs whose lease ran out, running them itself.

What makes each part correct: a job's business result is committed once and by the attempt that
holds the lease; a job is never stuck; a stored file has its original; an active correction is never
lost and a published revalidation has its copies; two invoices with one identity are not both
unique, and a document is bound to the supplier of its own tax number; an invoice has at most one
primary contract; what a live execution has frozen is what it would freeze now; it is signed by the
persons it needs; a ready report is current and keeps its artifacts; the records of an index
never change; an answer cites only what is in force when it is committed; the LLM is called by one
attempt of a job at most, and every provider call gets a verdict; an ended session is dead, and a lent role
has two persons behind it.

## 2. Modules

| Module | Models | Role |
|---|---|---|
| `JobLifecycle` | the trigger function `enforce_async_jobs_state_v1` (migration 007) | abstract specification of a job row |
| `JobRowLifecycle` | the same trigger, in the columns that the other components have of their jobs | abstract specification of one job row, implemented by `JobRuntime`, `FileProcessing`, `DocumentVersions`, `AuditExecution`, `AuditCluster` and `IndexBuild` |
| `JobRuntime` | repository, dispatcher, worker and maintenance transactions on jobs, steps and outbox events | detailed specification, implements `JobLifecycle` |
| `FileLifecycle` | constraint `lifecycle_matrix` and the locator trigger of `files` (migrations 011, 012) | abstract specification of a file row |
| `FileProcessing` | upload, the handlers `file_scan` and `file_process`, recovery and archive of one file, and its two objects | detailed specification, implements `FileLifecycle` |
| `ParseVersionLifecycle` | the trigger of migration 013 on parse versions and the parent check of activation | abstract specification of the versions of a file |
| `DocumentVersions` | corrections and asset revalidations of one file: requests, dispatch, rebuilding, copies, activation | detailed specification, implements `ParseVersionLifecycle` |
| `FinancialFacts` | extraction, correction, decision, duplicates and suppliers of contracts or invoices; a client that repeats its request | detailed specification |
| `LinkLifecycle` | the trigger and the unique indexes of `contract_invoices` (migrations 009, 015) | abstract specification of the links |
| `AuditedFacts` | agreements, links and duplicates, the executions that freeze them, and five rules | detailed specification, implements `LinkLifecycle` |
| `LeasedJob` | a one-step job row as a record, and what the runtime does to it | operators shared by `AuditExecution`, `ReportGeneration` and `IndexBuild` |
| `AuditLifecycle` | execution and risk triggers (migration 020) | abstract specification of an execution |
| `AuditExecution` | creation, evaluation, reviews, withdrawal and repetition of one audit | detailed specification, implements `AuditLifecycle` |
| `ReportLifecycle` | report triggers (migrations 020, 023) | abstract specification of a report |
| `ReportGeneration` | the formal report, its job, its executors and its two objects | actions, extends `AuditExecution` |
| `AuditCluster` | the transactions that touch both, and one maintenance process for both jobs | composition, implements `ReportLifecycle` |
| `IndexLifecycle` | the trigger of migration 019 on index versions | abstract specification of an index version |
| `IndexBuild` | the build of one index over PostgreSQL and Qdrant by competing attempts | detailed specification, implements `IndexLifecycle` |
| `PolicyLifecycle` | the triggers of migration 026 | abstract specification of a policy and the persons behind it |
| `KnowledgeBase` | policies, index versions, evaluations and questions of one knowledge base | composition, implements `PolicyLifecycle` |
| `AiRuntimeControl` | the two Lua scripts that admit a provider call: permits and circuit breaker | actions, extended by `AiCalls` |
| `AiCallRecord` | what the audit of a call promises | abstract specification of the call log |
| `AiCalls` | reservation, sending, completion, adoption, projection and reconciliation of calls | composition with the gate, implements `AiCallRecord` |
| `AccountSessions` | accounts, sessions, rotation and lockout | extended by `PrivilegedAccess` |
| `BreakGlassLifecycle` | the triggers of migration 008 | abstract specification of a request and its assignment |
| `PrivilegedAccess` | administration of users and roles, and break glass, over accounts and sessions | composition, implements `BreakGlassLifecycle` |
| `MC...` | | instances for TLC |
| `...Proofs` | | theorems about the module they are named after (eight modules) |

Every action is one transaction, one call of an object or vector store, of Redis, of the broker or
of a provider, or one event of a process. What a process remembers between two of them (its claim,
what it read, which objects it put) is state of the model, so that anything may happen in between.

### JobLifecycle and JobRuntime

`JobLifecycle` has one variable, the `async_jobs` table, and one action per transition the trigger
accepts. `JobRuntime` has, besides the job rows, the step rows, the outbox rows, the messages
the broker holds, and what each process remembers.

| Action | Code |
|---|---|
| `CreateJob` | the services' insert of job and outbox event in one transaction |
| `RequestCancel` | `cancel_execution`, `_outdate_current_executions` |
| `ClaimNextOutbox`, `RejectRoute`, `Publish`, `MarkPublished`, `MarkFailure`, `ReapExpired`, `DispatcherCrash` | `dispatch_once`, `reap_expired_once`, `_resolve_route`, `mark_outbox_published`, `mark_outbox_failure` |
| `ClaimJob`, `RejectDelivery` | `claim_job`, and the acknowledgement of a duplicate or stale message |
| `Heartbeat`, `AdvanceStep`, `Succeed`, `Fail`, `FinishCancel`, `Drop` | `heartbeat`, `advance_step`, `skip_recovered_clean_scan`, `finish_job`, `finish_cancel_requested`, an executor's end without a commit |
| `Requeue`, `TakeOver`, `GiveUpLost` | `requeue_failed_*_job`, `recover_expired_*_job` |
| `LeaseExpires`, `GraceElapses`, `EventFallsDue` | the clock |
| `BrokerLoses` | the broker |

Abstractions. Time is the phase of a lease (live, expired, expired for 15 s) and whether
`next_attempt_at` has passed. `lease_owner` is a fresh uuid per attempt and is represented by the
attempt number. Error codes are reduced to those the transitions tell apart. The business rows
that `claim_job`, requeue and recovery also look at belong to the modules below.

Most modules below have a job row of their own with fewer columns: status, attempt, lease, whether
a retry is due. `JobRowLifecycle` is the trigger in these columns, and ties the two kinds of rows
together: the rows of `JobRuntime`, so reduced, obey it (`ImplementsJobRows`), and so do the jobs of
a file, a candidate version, an execution, a report and an index build in their modules
(`ImplementsJobRow`, `ImplementsJobRows`, `ImplementsAuditRow`, `ImplementsReportRow`,
`ImplementsBuildRow`). Only `FinancialFacts` has no lease: there an executor that lost its lease does
nothing.

### FileLifecycle and FileProcessing

One file: its row (`status`, `security_scan_status`, whether the originals locator is written), its
lifetime job, the objects `quarantine` and `originals` in MinIO, where the upload request is, and
what each executor does. `outputs` counts parse versions, extraction jobs and Markdown versions.

| Action | Code |
|---|---|
| `PutQuarantine`, `CommitUpload`, `AbortUpload`, `CompensateUpload` | `FileIntakeService.upload`: put, one transaction with file, job and event, compensation |
| `Claim`, `RefuseMessage`, `DispatchDies` | `claim_job` with the conditions on the file; dead letters |
| `Requeue`, `TakeOver`, `GiveUp` | `requeue_failed_file_job`, `recover_expired_file_job` |
| `LoadSource`, `SkipScan` | `execute_claimed`, `skip_recovered_clean_scan` |
| `ReadAndScan`, `Promote`, `FailScan`, `CommitScan`, `AbandonScan`, `Compensate`, `CleanUp` | `_execute_scan`: the read and the scanner, `promote_clean`, `fail_file_scan`, `complete_file_scan_clean`, the `finally` block, the late deletion |
| `ReuseParse`, `Parse`, `CommitParse`, `FailParse` | `_execute_parse`, `completed_result_for_trace`, `append_result`, `append_failure` |
| `WriteMarkdown`, `FailMarkdown` | `generate_and_activate` and `finish_job` |
| `Archive` | `FileManagementService.archive` |
| `Drop`, `LeaseExpires` | the death of an executor, the clock |

Abstractions. The content of an object is not modelled, as all attempts copy the same bytes to the
same key; an object is there or not. A call of the store may fail before or after its effect. A
message is one flag: that messages arrive, late or twice, and that a claim compares the attempt, is
what `JobRuntime` is about. Grace is part of "expired".

`faults` is the set of faults a behaviour may have: it is chosen at the start and never changes.
`stall` lets a lease run out under a living executor (the scan and promotion take as long as they
take, and a thread's heartbeat may fail); `lost_reply` lets a commit succeed without its reply.
Crashes, failing stores and failing handlers are always possible. A property that needs
punctual executors says so (`faults = {} => ...`) and is checked in the same run as those that do not.

### ParseVersionLifecycle and DocumentVersions

The versions of one stored file after its first parse. Each candidate has its row, its job, the
event that announces it, the executor at work on it, and its copies of the assets in MinIO. The one
dispatcher process is a variable of its own: what it is sending, and what it has to reap first.

| Action | Code |
|---|---|
| `CorrectBlock`, `RequestRevalidation` | `correct_block`, `request_security_revalidation`: version, job and event in one transaction |
| `ClaimEvent`, `Send`, `Confirm`, `FailEvent`, `DeadLetter`, `EventExpires`, `Reap`, `DispatcherDies` | `dispatch_once`, `reap_expired_once` in the order of `run_dispatcher_iteration`, with the condition that `mark_outbox_failure` puts on derived versions |
| `Deliver` | `claim_job`; the executor begins |
| `Rebuild` | `rebuild_manual_correction_snapshot` and `finish_job`, or a failure, in one transaction |
| `Copy`, `Store`, `Undo`, `MarkFailed` | `_execute_asset_security_revalidation`: copies, `rebuild_asset_security_snapshot`, compensation, `mark_asset_revalidation_failed` |
| `WorkerDies`, `LeaseExpires`, `RecoverLost` | the death of an executor, the clock, `recover_expired_file_job` |
| `Activate` | `activate_parse` with `generate_and_activate` of the Markdown |

Abstractions. A correction is the number of the version that brought it, so `fixes` of a version is the
set of corrections it contains. The assets of a version are one object. These jobs have one attempt;
a message is delivered at most once per attempt here, as claiming twice is a matter of `JobRuntime`.

### FinancialFacts

Two documents of one kind, contracts or invoices (`kind` is chosen at the start), the suppliers that
grow out of them, the extraction jobs, and one client that keeps the idempotency key and the row it
has read. Any number of other users write beside that client.

| Action | Code |
|---|---|
| `ClaimExtraction`, `Persist`, `FailExtraction`, `RecoverExtraction`, `LosesParse` | both extraction executors, recovery, and a parse version superseded before or during it |
| `ReplaceFacts`, `Decide` | `replace_facts`, `decide` of contracts and invoices |
| `CheckDuplicate`, `DecideDuplicate` | `check_duplicate`, `decide_duplicate` |
| `ResolveSource`, `EditCandidate`, `ConfirmCandidate` | `resolve_source`, `update_candidate` with and without confirmation, `_bind_source` |
| `Read`, `Confirm`, `KeyExpires` | `get_evidence`, a decision under idempotency key and `row_version`, the deletion of an expired key in `claim_idempotency` |

Abstractions. The writes of people take the row lock and the advisory lock of the organization, those of an
extraction the advisory lock; each transaction is one step. The facts are the identity of a document and
the tax number of its supplier; what an extractor reads is any value, or no tax number.
`row_version` is not counted: each write of a row makes what the client has read of it stale.

### LinkLifecycle and AuditedFacts

One contract with its supplementary agreements, invoices that this contract and others compete for, the
duplicates of these invoices, and the task that audits them. The current execution of the task keeps
what it froze and, once evaluated, the verdicts.

| Action | Code |
|---|---|
| `ReplaceChanges`, `DecideAgreement` | `replace_changes`, `decide` of agreements, with `outdate_current_executions_for_contract` from the agreement's date |
| `Suggest`, `SetPrimary`, `CancelPrimary` | `ContractInvoiceManagementService`; `Suggest` needs a projection of the contract to the invoice date |
| `RecheckDuplicate`, `SettleDuplicate`, `TwinChanges` | `check_duplicate`, `decide_duplicate`, and a write of another invoice that gets or loses the identity |
| `CreateExecution` | `create_task`, `create_execution`: `_build_snapshot`, refused where agreements conflict |
| `Evaluate`, `EndExecution` | the executor on the frozen facts; completion, return or cancellation |
| `Project`, `Verdict` | `project_effective_fields`; `build_aggregate_audit_preview` over `_disposition` |

Abstractions. Contract and invoices are confirmed and each invoice has the total 1, since how they get there
is in `FinancialFacts`. Five rules depend on what is decided here: the limit of the contract (003), its
period (004), duplicates (005), the contract itself (010) and undecided agreements (012). The row
version of an invoice that the snapshot has too is left out: a suggestion counts it up and ends no
execution. The old values of a change are left out, and so `ReplaceChanges` may repeat a change that the
code refuses as unchanged. Other contracts have no agreements. Evaluation, review and jobs are one step
here and many in `AuditExecution`, and a write to the facts is one action there and six here.

### AuditLifecycle and AuditExecution

One execution row with its snapshot and reviewers, the risks that its rules raised, the version of
the facts (invoices, contracts, links) now, the job `audit_execute` and its executors.

| Action | Code |
|---|---|
| `CreateTask` | `create_task`: freeze the facts, insert execution, job and event |
| `ClaimAudit`, `RefuseAuditMessage`, `AuditDispatchDies` | `claim_job` with the conditions on the execution; dead letters |
| `PreflightAudit`, `CompleteAudit`, `AuditFails`, `FailAudit`, `AdoptAuditCancel`, `DropAudit` | `_preflight`, `_complete`, `_fail`, `_cancel` of the executor |
| `TakeOverAudit`, `GiveUpAudit`, `AuditLeaseExpires` | `recover_expired_audit_job` |
| `ReviewRisk`, `FinanceReview`, `AuditReview` | `review_risk`, `finance_review`, `audit_review` |
| `CancelExecution`, `EditFacts`, `ReAudit` | `cancel_execution`, `_outdate_current_executions`, `create_execution` |

Abstractions. A rule is a member of `Risks`, which it raises or not; levels below high are one. One
execution is enough because a successor only begins once this one is closed. `retry_execution` and
`requeue_failed_audit_job` have no action: they ask for a retryable failure, and every caller of
`_fail` passes `retryable=False`.

### ReportLifecycle, ReportGeneration and AuditCluster

The report row (status, draft status, failure), the job `report_generate`, its executors, and the
two objects. `AuditCluster` composes it with `AuditExecution`: `ReviewExecution` queues the report in
the transaction that completes the execution, `EditAuditedFacts` and `AuditAgain` reach it in the
two different ways in which the code does, and `MaintenanceTakesOver` runs one recovered job at a time.

| Action | Code |
|---|---|
| `QueueReport`, `ClaimReport`, `RequeueReport`, `TakeOverReport`, `GiveUpReport` | `queue_formal_report`, `claim_job`, `requeue_failed_report_job`, `recover_expired_report_job` |
| `PreflightReport`, `SettleDraft`, `DraftFails` | `_preflight`, `_adopt_draft`, `_mark_draft_degraded` |
| `StorePdf`, `StoreXlsx` | rendering and `put_verified` |
| `CompleteReport`, `CompletionFails` | `_complete` |
| `UndoOne`, `Undone`, `FailReport`, `AdoptReportCancel`, `StopStale` | `_compensate`, `_fail` |
| `OutdateReport`, `OutdateReadyReport` | `_outdate_current_executions`, `create_execution` with the trigger on executions |
| `CrashReport`, `ReportLeaseExpires` | faults and the clock |

Abstractions. Rendered bytes are a function of the frozen payload and the draft, so the model keeps
the draft each executor renders and whether an object exists. `faults` is as above, with `crash` as
a fault of its own, because exact compensation is only promised of executors that live.

### IndexLifecycle and IndexBuild

One index version, its items, the points in Qdrant, its job, and the executors.

| Action | Code |
|---|---|
| `BuildIndex`, `ClaimBuild`, `DropBuild`, `BuildDispatchDies` | `build_index`, `claim_job`, an executor's end without a commit, dead letter |
| `StartBuild`, `Embed`, `Upsert`, `Materialize` | `_build_index`: the state it resumes from, then per batch the embedding, the points, and the hashes of the items (`materialize_item`) |
| `Retrieve`, `Compare`, `FinishBuild`, `FailBuild` | reading the points back, comparing them with the hashes, `mark_index_ready` with `finish_job`, `_fail_index` |
| `RequeueBuild`, `TakeOverBuild`, `GiveUpBuild`, `BuildLeaseExpires` | `requeue_failed_knowledge_job`, `recover_expired_knowledge_job`, the clock |
| `WithdrawMember` | what `revoke` of a member does to an index being built |

Abstractions. A message is one flag. The items of an embedding batch are one item. Two calls of the
embedding may answer differently for one text (`Vectors`). Qdrant knows no lease, so an executor that
lost its job goes on writing points.

### PolicyLifecycle and KnowledgeBase

| Action | Code |
|---|---|
| `Submit`, `Approve`, `Publish`, `RequestRevocation`, `Revoke` | `PolicyManagementService` |
| `Build`, `BuildFills`, `BuildEnds` | `build_index`, and the last transactions of `IndexBuild` |
| `TransitionDataset`, `Evaluate`, `EvaluationEnds`, `Activate` | `KnowledgeIndexManagementService`, `_evaluate`; `Activate` also is a rollback |
| `Prepare`, `Preflight`, `Generate`, `Commit` | `RagQueryService.query`: retrieval, the check before the call, the provider, the check and write after it |

Abstractions. A management request is one transaction; a question is four, and policies are revoked or
indexes activated between them. A policy has one chunk set, all are in force, and everybody has the
roles they ask for (who may, is in `PrivilegedAccess`). Ranking is any subset of what is allowed.

### AiRuntimeControl, AiCallRecord and AiCalls

`AiRuntimeControl` has the permits of one pool and the breaker of one target, each Lua script being one
step. `AiCalls` adds works (what calls are made for) and their runs (an attempt each), the durable events,
the log, and what the caller remembers. `Operation` is the `business_operation_id` of a run, on which
`reserve_attempt` counts numbers, tokens and cost: for the LLM the id of the job, report, risk or question,
the same in every attempt; for a job that embeds an id made from the job and its `attempt_no`
(`_embed_for_job`), so that each attempt has numbers and a budget of its own.

| Action | Code |
|---|---|
| `Acquire`, `Deny`, `Finish` (`Trip`, `Reset`), `LeaseExpires`, `OpenIntervalPasses`, `OpenKeyExpires`, `FailuresAge` | `_ACQUIRE_SCRIPT`, `_FINISH_SCRIPT`, the expiry of their keys |
| `StartRun`, `EnterGate`, `TurnedAway` | an attempt of a work begins its calls, after the earlier ones have lost the lease; `_acquire_runtime_permit` |
| `Reserve`, `ReserveRefused`, `ReserveUnknown`, `BackOut` | `reserve_attempt` with its budget over all runs of the operation, refusal, lost reply, and giving the permit back |
| `Send`, `TooLateToSend`, `Fails`, `Answers` | `_consume_send`, the deadline, the provider |
| `Complete`, `CompleteUnknown`, `Adopt`, `Decline`, `Abandon` | `append_completion`, adoption in the business transaction, rejection, loss of the lease |
| `ProjectStarted`, `ProjectCompleted`, `Reconcile` | `project_next`, `reconcile_expired_once` of the maintenance loop |
| `Crash`, `DeadlinePasses`, `LeaseRunsOut` | faults and the clock |

Abstractions. The clock is abstract: a lease, an interval or a window may run out. Late completions
(sequence 3) are accepted by the code but have no sender. Tokens and prices are `Size` and `MaxTotal`.
LLM and embeddings have pools and targets of their own (the pool of questions and that of jobs are one
here); there is one gate in the model, so that one behaviour has LLM runs or embedding runs (`SameGate`)
and each kind is seen with a gate of its own. An embedding is asked for once, without repairs. The
embedding of a question is left out.

### AccountSessions, BreakGlassLifecycle and PrivilegedAccess

Users with status, failure count, lock and session epoch; sessions with the token that is current; all
tokens ever issued, which anybody may present; long-term roles, break-glass requests, and the
assignments they make. `now` is the clock of the database.

| Action | Code |
|---|---|
| `LoginWrong`, `LoginRight`, `RefreshReused`, `RefreshRefused`, `RefreshRotated`, `Logout`, `ChangePassword` | `AuthService` |
| `Admit` | `authenticate` with `require_permission`: the request enters with what its session allows then |
| `ManageStatus`, `ManagePassword`, `ManageNewUser`, `ReplaceRoles` | `UserManagementService`: the second transaction of an admitted request |
| `RequestGrant`, `Approve`, `Reject`, `Revoke` | `BreakGlassService`, with the triggers of migration 008 |
| `Tick` | the clock |

Abstractions. Passwords are right or wrong and tokens unforgeable. Between `Admit` and the second
transaction the actor may lose session, status or role; what the services check again, the actions
check again. An approved request that runs out keeps its status: no code expires it.

## 3. Runs

| Run | Module | Question | Result |
|---|---|---|---|
| `job_runtime` | `JobRuntime` | one cancellable job of two steps under duplicated, late and lost messages: one result, jobs, steps and events agree, the trigger accepts every write, the job ends | holds |
| `file_faults` | `FileProcessing` | punctual and stalled executors, lost replies, an archive at any time: sources and originals, one parse, nothing forgotten, the file settles | holds |
| `documents` | `DocumentVersions` | corrections and revalidations of one file: copies agree with results, no active correction is lost, the trigger accepts every write, candidates settle | holds |
| `financial` | `FinancialFacts` | duplicates seen, suppliers of the right tax number, a repeated request decides once what was read, extractions end | holds |
| `audited_facts` | `AuditedFacts` | agreements, links and duplicates decided while an audit of them waits, is reviewed or relied on: its snapshot holds, its verdicts are right, the database admits every link | holds |
| `audit_reviews` | `AuditExecution` | competing evaluations, two reviewers, cancel, edit, re-audit: two persons behind a high risk, the execution settles | holds |
| `audit_cluster` | `AuditCluster` | execution and report, every combination of faults: ready reports are current and keep their objects, exact compensation, generation settles | holds |
| `index_build` | `IndexBuild` | competing builds with an embedding that answers differently: final records, the trigger accepts every write, the build settles | holds |
| `knowledge` | `KnowledgeBase` | revocations, activations and rollbacks against a question in flight: answers cite what is in force, policies move under four eyes | holds |
| `ai_calls` | `AiCalls` | budget, breaker and log with crashes and lost replies: limits hold, no attempt of an LLM job calls after another has, only the probe closes the breaker, calls get a verdict | holds |
| `identity` | `PrivilegedAccess` | logins, rotation, lockout, administration, break glass: ended sessions are dead, guessing is bounded, lent roles are backed, the triggers accept every write, an administrator remains | holds |
| `file_late_compensation` | `FileProcessing` | a clean file keeps its original | violated |

### What the violated run shows

In `file_late_compensation` an attempt that scans past its lease compensates on the key that its
successor committed, after the quarantine copy is gone. `promote_clean` does the same when its read-back
fails. The deployment grants the worker's account `DeleteObject` on originals and the bucket keeps no
versions, so nothing restores the file.

### Disagreements without a run

These were met while modelling. Where the behaviour is modelled, the model does what the code does and
the property that would be violated names the case as an exception.

| Code | What it does | What a document says |
|---|---|---|
| `repositories/job_runtime.py:424` | the dead letter of an earlier attempt's event fails a job that was retried and is queued again | CR-004:90: only the job that waits for that event's attempt |
| `repositories/job_runtime.py:424` | the dead letter of an audit job leaves its execution queued | CR-004-R2:326: both fail |
| `repositories/job_runtime.py:399` | the dispatcher dies after it has sent the event of a correction or revalidation, and a worker claims the job; when the lease of the event is over, `reap_expired_once` asks `mark_outbox_failure` to end it, which for a derived version returns before it touches the event unless the version is still queued. The reaper has not been idle, so `run_dispatcher_iteration` skips `dispatch_once`, then and for ever (`Stalled` in `DocumentVersions`) | CR-004:90: the event alone is ended, and no job stays queued for ever |
| `repositories/job_runtime.py:1454` | recovery scans `running` jobs only; one whose cancellation was requested and whose worker is lost stays | CR-004:45: recovery cancels it |
| `services/file_management.py:267` | `archive` does not look at the status of the job; claim, requeue and recovery then refuse the file and its job never ends. Between the takeover of a parsed file and `LoadSource` it makes even a punctual executor scan again, be refused, and compensate the original of the archived file away, which is why `OriginalKeptWhenPunctual` is about stored files | CR-007:124: active jobs are refused |
| `services/file_job_executor.py:630` | one deletion of the quarantine copy, its failure swallowed | CR-017:19: maintenance tries again |
| `repositories/job_runtime.py:1700` | recovery of a report whose execution was outdated writes `AUDIT_EXECUTION_OUTDATED`, which the job trigger does not accept there: the transaction is refused each time and the report generates for ever | the code's own intention |
| `services/audit_management.py` (`_build_snapshot`), `audit/snapshot.py:245` | an audit takes its contract from the request and never looks at `contract_invoices`: RULE-010 passes although the contract is not the confirmed primary contract of the invoices | CR-016:79 and `Request/PRODUCT_REQUIREMENTS.md` 209: the rule is about the confirmed primary contract |
| `services/audit_management.py:1359` | that another invoice has the identity is frozen; when one gets or loses it later, no execution is outdated, and RULE-005 stays as it was | `Request/TECHNICAL_SPEC.md` 573: a completed execution whose facts change is outdated |
| `audit/offline_preview.py:377`, `audit/rule_catalog.py:290`, `services/audit_management.py:1397` | RULE-009 is evaluated without a contract; RULE-013 asks for a citation itself; the retrieval counts as not completed always | CR-016:147: not applicable without one; CR-016:92: only RULE-003 asks for one |
| `services/knowledge_job_executor.py:494` | the operation of an embedding call is made from the job and its `attempt_no`: a build or an evaluation that is retried or taken over asks the provider again for a batch whose call was reserved, and perhaps paid, by the attempt before. `OneRunCalls` is therefore about the LLM alone | CR-011:204 and 208: after a restart or the recovery of a job no second call, and no other id for an unknown one; CR-021:27: one call for a batch (CR-021:18 lets the job be tried again) |
| `services/rag_query.py:522`, `services/ai_rag_answer.py:105` | the embedding of a question and its answer are reserved under one operation, the `query_id`, both as number 1; `ai/live_runtime.py` gives both one policy. `reserve_attempt` refuses the second as a conflict (`repositories/ai_call_audit.py:303`, 324), so that with both providers live every answer ends as `MODEL_UNAVAILABLE`. `Generate` in `KnowledgeBase` stands for offline embeddings, where only the LLM is audited | CR-021:25: questions are embedded by the live provider, in a profile that has the chat model too (CR-021:15) |
| `ai/redis_runtime_control.py:127` | a probe that ends without a verdict (a cancellation) closes the breaker | CR-002-ai001:194: a verified answer |

Nothing is written about these, so no property demands anything of them: a dead letter leaves its
file, report or index waiting; an upload that loses the reply of its commit deletes the quarantine
copy of a file that exists (`file_intake.py:593`), and a revalidation that loses it deletes the copies
that it has published (`file_job_executor.py:470`); an extraction whose parse version is superseded
before it is claimed is refused on delivery and never ends. Two confirmed agreements on one field and date
make every audit of their contract impossible, and an agreement that ends the contract before its start
makes its audits fail, its suggestions and the whole list of candidates an error
(`contract_effectivity.py:264`, `contract_invoice_matching.py:109`). Both of two twins can be confirmed to be
the duplicate. The page that replaces a primary contract reads the primary, the candidates and the history in
parallel (`views/ContractInvoiceLinkView.vue:140`), so that a user may replace one that the page has not shown.

### Bounds

| Run | Bounds | Why they are enough |
|---|---|---|
| `job_runtime` | 1 job, 2 workers and maintenance, 1 dispatcher, 2 attempts, 2 deliveries, 2 steps, `MaxVersion` 3 | a first attempt and a retry or takeover, from the first step and from a later one; a delivery that is tried again and one that is dead; a stale holder beside a current one; a heartbeat changes only version and lease phase, so that rows above `MaxVersion` show nothing new; jobs share no row |
| `file_faults` | 1 worker and maintenance, 3 attempts, no fault or all | the registry's limit; with one worker slot two executors still compete |
| `documents` | 3 versions, 2 dispatch attempts | a parse and two candidates: two made from one version, or one made from the other |
| `financial` | 2 sources, 2 suppliers, 1 number, 2 tax numbers, 2 attempts | duplicates and suppliers are matters of pairs |
| `audited_facts` | 2 agreements, 1 invoice, 2 contracts, 2 links, 2 dates, 3 payloads | agreements on one date or two, decided in either order, before or on a baseline; a replaced primary contract; amounts above, at and below the invoice, dates in and out of order. That an audit of several invoices adds them up and looks at the links and duplicates of each is covered by `SnapshotsStayTrue` and `VerdictsStayTrue` only, which hold for any number of invoices: a second one makes more than 6 million states |
| `audit_reviews` | 2 risks, one of them high, 2 users, 2 workers, 3 attempts, `MaxFacts` 2 | the smallest case in which the separation of reviewers can be broken; the first edit closes the execution and the second has nothing to close |
| `audit_cluster` | 1 worker and maintenance, 2 + 2 attempts, no risks, all faults | a third attempt meets what the second meets: objects and a draft that an earlier one left, possibly with its executor still there; the risks are of the run above |
| `index_build` | 2 workers and maintenance, 2 batches, 2 vectors, 3 attempts | a build that is complete in part, with records of one attempt and points of another |
| `knowledge` | 2 policies, 2 users, 2 index versions, 1 question | a rollback needs two versions, four eyes two persons; questions share nothing they write; the indexes may be exchanged, policies too |
| `ai_calls` | 2 attempts of an LLM job (one operation) and 2 of a job that embeds (an operation each), 2 repairs, budget 2, 1 permit, 1 failure opens | the repairs of one attempt would exceed the budget, and so would two attempts together; the second attempt is the repeated job; one running attempt fills the gate, a stalled one keeps it |
| `identity` | 2 accounts, 2 sessions, 1 request, limit 2 failures, `MaxNow` 1, `MaxManaged` 4 | two administrators who act upon each other; a lock, a session and a grant each run out within the bound; `MaxTurns` and `MaxManaged` bound the refreshes of a session and the management requests |

Every cfg but that of `audited_facts`, where something can always be decided, says `CHECK_DEADLOCK FALSE`: when all jobs are over, all messages consumed and every
bounded operation used, nothing happens.

Some refinements are in no run, because they hold on the instances of the runs and are not questions
of their own; all of them are proved (section 4): `ImplementsFileLifecycle`, `ImplementsAuditLifecycle`,
`ImplementsReportLifecycle`, `ImplementsIndexLifecycles` of `KnowledgeBase`, `ImplementsCallRecord` of
`AiCalls`, and the six of `JobRowLifecycle`.

### Fairness

The dispatcher and maintenance processes are endless loops, workers consume while a message waits, an
executor goes on until it stops (a task time limit ends it in the worst case), and the lease of an
attempt nobody works on runs out. `EveryJobSettles` shows that a message is delivered or its event
dies; files, executions, reports and indexes assume it. Nothing is assumed of crashes, store or
handler failures, verdicts, users or message loss; `EveryJobSettles` excepts lost messages and
requested cancellations, for which it does not hold. `FileSettles` excepts archived files,
`GenerationSettles` outdated executions, and the others dead letters, each for a reason given above.

Three modules assume less. `documents` and `financial` owe nothing to executors or users: the
dispatcher, the broker, the clock and recovery alone settle a candidate, unless the dispatcher
stalls, and an extraction, unless it is stranded. `ai_calls` assumes that deadlines pass and that
the maintenance loop projects and reconciles: every call gets its verdict although its process is
dead. `identity`, `knowledge` and `audited_facts` state no liveness: what happens there
are requests of people.

The maintenance loop is assumed to come back to every candidate. With a candidate that is refused each
time its `limit 1` scans would not; the order of service is not modelled (section 5).

## 4. Proofs

The proof modules assume only what the modules they extend assume of their constants
(`JobRuntimeAssumption` and so on); each bound of section 3 is an arbitrary number there.

`JobRuntimeProofs`. `RecordsOK` adds to the types what the step-by-step argument needs and no single
action shows: a running row has a live, expired or graced lease and a stage not before its start; a
row that is not running has no lease; `retry` is set only on failed rows with a listed code, attempts
left and at least one attempt begun; a claim is of an attempt that the row has reached. Without it the
refinement step fails, for instance `Requeue`, whose guard looks at `retry` and at the attempts left
while the trigger looks at `started_at` and the error code. `RefinesLifecycle` and `FinalRowsKept`
follow. `ResultsCommittedOnce` and `TablesInStep` come from a second invariant that ties the rows of
steps and events to the job's attempt and stage; `AttemptsHaveOneHolder` from a third about claims.

`FileProcessingProofs`. `FileInv` adds to the properties what the row of the file admits in each status
(`RowFits`), that whatever waits has an attempt left (`JobFits`), that each attempt is held by one
executor and none is ahead of the job (`ExecsFit`), and that what an executor is about to write still
fits: the parse that it holds is missing if its attempt is the current one, which is why a file is
parsed once although stale attempts carry parses of their own. `OriginalsAreKept` rests on an invariant
about behaviours without faults: one executor is at work, for the current attempt and with its lease
live, and it is not before the commit of a scan once the file is stored.

`DocumentVersionsProofs`. `DocInv` has the types, one active version which is the one whose Markdown is
(`OneActive`), `Family` (a candidate was made from a version that is active or was, ends with its
job, and once built contains the corrections of its parent) and `WorkersMatch`: where an executor stands
tells what it has in the store. The last part is what makes `CopiesFollowResult` true of an executor
that recovery or a dead letter has overtaken between its copies and its commit. Every step is first shown
to accept, begin, build, fail or activate one candidate, or to leave the versions alone.

`FinancialFactsProofs`. `FactsInv` states `TwinsAreSeen` of each pair (`PairsAreSeen`) and `BoundToOwnTax` without
cardinalities (`OneActive`, `BoundRows`); it adds that a row exists exactly when its extraction has
succeeded (`RowsExtracted`), so that an extraction never writes over a decision, that a candidate knows
its source, and that what the client has read is still the row unless it is stale (`ClientKnows`): a
decision takes effect once because its own effect makes what was read stale.
Part 2 is about `AuditedFacts`. `SnapshotsStayTrue` needs only the types beside itself: each write of an agreement, a
duplicate or a link either ends the execution that reads it or, where it lets the execution live, changes no
row within its baseline; this is what `RowsKept` and `HoldsStill` say. `VerdictsStayTrue` follows from it: the verdict is that of the
frozen facts (`VerdictIsOfFacts`), and these are what would be frozen now. What the property calls the agreed amount is
the last confirmed change, what the code projects is a fold over the agreements in force in the order of their dates; that
they are the same (`AmountIsAgreed`) is shown for finite sets of agreements by a smallest counterexample. It
also takes that an agreement without changes, which `RULE-012` does not see, is still a draft
(`OnlyDraftsAreEmpty`), and that amounts are natural numbers. `LinksAreAdmitted` takes `Indexes` of the abstract specification as its invariant.

`AuditClusterProofs`, part 1, is about the execution alone. `AuditInv` is the conjunction of the types, of
what the job says of the execution (`JobMatches`), of the results that each status has
(`ResultsMatch`), of the risks that each status leaves open and who decided them (`RisksMatch`), and of
the properties. The reviewers need most of it: that a completed execution was signed by two
persons follows only because high risks stay pending through the finance lane, are decided by
somebody other than `finance`, and the lane is never entered twice. Part 2 first proves
`ClusterRunsAudit`: every step of the composition is a step of the execution or leaves it alone, so
all of part 1 holds in the composition. Then `ClusterInv` (types, `ReportMatches`, what each executor
remembers) gives the theorems on reports. `ArtifactsAreKept` rests on `PunctualInv`, about
behaviours in which no executor outlives its lease and no reply is lost: at most one executor is at
work, on the current attempt, and it has put what it is about to commit. `CompensationWasExact` adds
`ExactInv`, about behaviours without any fault: no lease runs out, so nothing is taken over and every running job
has its executor; what is stored is nothing before the first object is put, at most the PDF until the
second is, and at most what is still to be deleted while a generation is undone.

`KnowledgeBaseProofs`, part 1. `KnowledgeInv` has, besides types and four eyes, that an index is active or superseded
only with a passed evaluation and never evaluated again, that it is ready only when filled, and that
at most one is active (`IndexesAreEvaluated`), and that what a question takes for relevant is what it has
found (`RelevantIsFound`). `Commit` checks the rest again, and `AnswersBacked` follows.
`IndexesFollowTrigger` shows that builds, evaluations, activations, rollbacks and revocations move an index
version as the trigger of migration 019 allows.
Part 2 is about `IndexBuild`. `BuildInv` adds to types and agreement that a queued job has an attempt left and
that an executor has seen every batch before its own recorded, and all of them when it retrieves and
finishes (`BuildProgress`). What is recorded is never taken back, so this stays true of an executor that
lost its job; the points in Qdrant, which late executors do overwrite, play no part.

`AiCallsProofs`. The budget is checked when a call is reserved, and what is reserved is sent later or
never; that the sent calls are within the budget is therefore not inductive, and the invariant bounds the sum
over all reserved calls (`BudgetKept`), of which the sent ones are a part. That the sum over a finite
set exists, grows with the set, and grows by the size of a call that is added is shown by looking at a
smallest set for which it would not be so, because induction over sets is out of reach.
`OneRunCallsCorrect`, about works of the LLM, rests on numbers that a run takes in order and an operation
gives once (`NumbersInOrder`, `NumbersApart`): whoever sends any number has reserved the first one, and the
attempts of such a work share their operation.
`BreakerClosedByProbe` looks at the gate alone: every step of a run is one of the two scripts, an expiry
or nothing to it (`StepsPassGate`). `RefinesCallRecord` needs that a completion is only of a reserved
call and the log is written only after its event was published (`RecordFits`).

`PrivilegedAccessProofs`, for finite sets of accounts. `EndedIsRevoked` gives `EndedSessionsStayDead`. A
lent role is backed because request and assignment say the same of each other (`Matched`) and no role
is lent to one who has it from elsewhere (`Apart`). `LockoutBoundsCorrect` needs `LocksOK`: the last
failures in the row of wrong passwords are those that count, the ones before are older by a lock, an
active account is below the limit and a locked one at it until all of them are old. `AccountStep`
says of each step which one account it writes, so that the proofs do not repeat the actions.

The jobs. `RefinesJobRow` (files), `RefinesCandidateJobs` (versions), `RefinesAuditRow`, `RefinesReportRow` and
`RefinesBuildRow` show that the trigger of migration 007 accepts what these modules write to their jobs,
`RefinesJobRows` that the runtime's rows, reduced to the same columns, obey the same trigger. So none of them has
a transition of its job that the database would refuse; only the grace of 15 s is not told from
the rest of an expired lease. In each module one lemma says what a step can do to the job, and a
small invariant why the trigger agrees: a job has a lease exactly while it runs, what is queued has
an attempt left, and (of versions) what a dead letter ends no executor has taken up. `RefinesJobRows` rests on
the step lemma of `RefinesLifecycle` and on what `JobLifecycle` says of each transition; for this
`JobLifecycle` states, as the trigger does, that the heartbeat of a cancelled job makes its lease live
and that only a failure with `WORKER_LOST` comes without a live lease.

Only model-checked: the liveness properties (`EveryJobSettles`, `FileSettles`, `EvaluationSettles`,
`GenerationSettles`, `BuildSettles`, `CallsSettle`, `CandidateSettles`, `ExtractionSettles`), because
the prover does not reason about fairness, and the violation, which is a behaviour. Every other
property of the runs is proved.

## 5. Not modelled, and the plan

| Part | Why |
|---|---|
| Duplicate detection, replay by idempotency key and changes of the processing intent of uploads; manual retry requests of files | one transaction each before the lifetime job exists, or a `Requeue` by a user |
| Status of the audit task, replay of audit requests | the task follows its newest execution; the replay is the protocol that `FinancialFacts` models for decisions |
| Building a policy's chunks, ranking, metrics | sequential arithmetic on one request's data |
| Tokens, prices, content of prompts and answers | sizes are a constant of `AiCalls`; the content is never looked at by a transition |
| Order of service of the maintenance loop | see below |
| Row locks inside one transaction | a transaction is one step; PostgreSQL aborts one of two that wait for each other |
| The other ten rules | they compare frozen fields one by one; what would make these stale is what makes the five stale |
| Parsing, rendering, field extraction | text and byte processing without shared state |
| Registries, HTTP layer, schemas, queries, frontend, scripts | no state of their own, or read-only |

Next, in this order:

1. `MaintenanceLoop`: in which order the maintenance process serves requeues, takeovers, projections and
   reconciliations of all job types, and which candidate can starve which.
2. The task row in `AuditExecution`.
3. Proofs that join components: `IndexBuild` does to one index what `KnowledgeBase` takes for granted of
   every build, and `AuditExecution` freezes and outdates as `AuditedFacts` does.
