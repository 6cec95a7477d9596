----------------------------- MODULE IndexBuild -----------------------------
(***************************************************************************)
(* The build of one document index: the document_index_versions row, the   *)
(* hashes of its items, the points in Qdrant, the job                      *)
(* knowledge_index_build and its executors (_build_index and _fail_index   *)
(* of services/knowledge_job_executor.py, the recoveries of                *)
(* repositories/job_runtime.py).  Qdrant knows no lease: an executor that  *)
(* has lost its job still writes points.  The items of one embedding batch *)
(* are one item here.  A knowledge job cannot be cancelled.                *)
(***************************************************************************)
EXTENDS LeasedJob

CONSTANTS
  MaxBatches,     \* how many embedding batches the members fill
  Vectors,        \* what the embedding may answer for one and the same text
  NoVector,       \* a hash that is NULL, a point that does not exist
  BuildAttempts   \* async_jobs.max_attempts (3 in the knowledge registry)

ASSUME IndexBuildAssumption ==
  /\ MaxBatches \in Nat \ {0}
  /\ NoVector \notin Vectors
  /\ BuildAttempts \in Nat \ {0}

VARIABLES
  version,      \* status of the index version
  recorded,     \* vector_sha256 of each item, set with payload_sha256
  stored,       \* the vector of each point in Qdrant
  withdrawn,    \* a member's policy is revoked: its items refuse an update
  bjob,         \* the job
  bmessage,     \* a message for the queued attempt is, or will be, at a worker
  bexec         \* what each executor does, and for which attempt

bvars == <<version, recorded, stored, withdrawn, bjob, bmessage, bexec>>

Batches == 1..MaxBatches
Hashes  == [Batches -> Vectors \cup {NoVector}]

BuildExec ==
  [pc : {"idle", "claimed", "embedding", "upserting", "materializing", "retrieving",
         "comparing", "finishing", "failing"},
   attempt : 0..BuildAttempts, batch : Batches, vector : Vectors \cup {NoVector},
   seen : Hashes, retry : BOOLEAN]
Unseen == [b \in Batches |-> NoVector]
BIdle  == [pc |-> "idle", attempt |-> 0, batch |-> 1, vector |-> NoVector,
           seen |-> Unseen, retry |-> FALSE]

BHolds(p)      == HoldsLease(bjob, bexec[p].attempt)
BGoes(p, pc)   == bexec' = [bexec EXCEPT ![p].pc = pc]
BStops(p)      == bexec' = [bexec EXCEPT ![p] = BIdle]
BFails(p, try) == bexec' = [bexec EXCEPT ![p].pc = "failing", ![p].retry = try]
BStarts(p)     ==
  bexec' = [bexec EXCEPT ![p] = [BIdle EXCEPT !.pc = "claimed", !.attempt = bjob.attempt + 1]]

-----------------------------------------------------------------------------
(************************ Creation and delivery ***************************)

\* build_index: index, items without hashes, job and outbox event.
BuildIndex ==
  /\ version = "absent"
  /\ version' = "building"
  /\ bjob' = NewJob
  /\ bmessage' = TRUE
  /\ UNCHANGED <<recorded, stored, withdrawn, bexec>>

ClaimBuild(w) ==
  /\ bexec[w] = BIdle
  /\ bmessage /\ bjob.status = "queued"
  /\ bjob' = Started(bjob)
  /\ BStarts(w)
  /\ bmessage' = FALSE
  /\ UNCHANGED <<version, recorded, stored, withdrawn>>

\* mark_outbox_failure, dead letter: the index is not touched.
BuildDispatchDies ==
  /\ bmessage /\ bjob.status = "queued"
  /\ bjob' = Over(bjob, "failed", FALSE)
  /\ bmessage' = FALSE
  /\ UNCHANGED <<version, recorded, stored, withdrawn, bexec>>

-----------------------------------------------------------------------------
(****************************** Execution *********************************)

\* The rows are read without a lock.
StartBuild(p) ==
  /\ bexec[p].pc = "claimed"
  /\ IF version = "building" THEN BGoes(p, "embedding") ELSE BFails(p, FALSE)
  /\ UNCHANGED <<version, recorded, stored, withdrawn, bjob, bmessage>>

\* _embed_for_job, outside a transaction; it may fail for good or for a while.
Embed(p) ==
  /\ bexec[p].pc = "embedding"
  /\ \/ \E v \in Vectors :
          bexec' = [bexec EXCEPT ![p].pc = "upserting", ![p].vector = v]
     \/ \E try \in BOOLEAN : BFails(p, try)
  /\ UNCHANGED <<version, recorded, stored, withdrawn, bjob, bmessage>>

\* A waited upsert; when its answer is lost the point may be there or not.
Upsert(p) ==
  /\ bexec[p].pc = "upserting"
  /\ \/ /\ stored' = [stored EXCEPT ![bexec[p].batch] = bexec[p].vector]
        /\ BGoes(p, "materializing") \/ BFails(p, TRUE)
     \/ UNCHANGED stored /\ BFails(p, TRUE)
  /\ UNCHANGED <<version, recorded, withdrawn, bjob, bmessage>>

\* materialize_item: what is recorded already must be the same.
Agrees(p) == recorded[bexec[p].batch] \in {NoVector, bexec[p].vector}
Records(p) == recorded' = [recorded EXCEPT ![bexec[p].batch] = bexec[p].vector]

\* Faulty variant: the last batch is forgotten.
NextBatchShort(p) ==
  bexec' = [bexec EXCEPT
    ![p].pc = IF bexec[p].batch + 1 >= MaxBatches THEN "retrieving" ELSE "embedding",
    ![p].vector = NoVector]

NextBatch(p) ==
  bexec' = [bexec EXCEPT
    ![p].pc = IF bexec[p].batch = MaxBatches THEN "retrieving" ELSE "embedding",
    ![p].batch = IF bexec[p].batch = MaxBatches THEN @ ELSE @ + 1,
    ![p].vector = NoVector]

\* Faulty variant: a retry writes its own hash over the one that is there.
MaterializeAnew(p) ==
  /\ bexec[p].pc = "materializing"
  /\ version = "building" /\ ~withdrawn /\ BHolds(p)
  /\ Records(p)
  /\ NextBatch(p)
  /\ UNCHANGED <<version, stored, withdrawn, bjob, bmessage>>

\* The transaction of a batch: index locked and building, the item, heartbeat.
Materialize(p) ==
  /\ bexec[p].pc = "materializing"
  /\ version = "building" /\ ~withdrawn
  /\ \/ Agrees(p) /\ BHolds(p) /\ Records(p) /\ NextBatch(p)
     \/ ~Agrees(p) /\ BFails(p, FALSE) /\ UNCHANGED recorded
  /\ UNCHANGED <<version, stored, withdrawn, bjob, bmessage>>

\* retrieve, and its heartbeat.
Retrieve(p) ==
  /\ bexec[p].pc = "retrieving"
  /\ \/ BHolds(p) /\ bexec' = [bexec EXCEPT ![p].pc = "comparing", ![p].seen = stored]
     \/ BFails(p, TRUE)
  /\ UNCHANGED <<version, recorded, stored, withdrawn, bjob, bmessage>>

\* The points as they were retrieved against the hashes as they are now.
Compare(p) ==
  /\ bexec[p].pc = "comparing"
  /\ IF bexec[p].seen = recorded THEN BGoes(p, "finishing") ELSE BFails(p, FALSE)
  /\ UNCHANGED <<version, recorded, stored, withdrawn, bjob, bmessage>>

\* mark_index_ready and finish_job.
FinishBuild(p) ==
  /\ bexec[p].pc = "finishing"
  /\ version = "building" /\ BHolds(p)
  /\ version' = "ready"
  /\ bjob' = Over(bjob, "succeeded", FALSE)
  /\ BStops(p)
  /\ UNCHANGED <<recorded, stored, withdrawn, bmessage>>

\* _fail_index: the index only fails when no attempt follows.
FailBuild(p) ==
  /\ bexec[p].pc = "failing"
  /\ BHolds(p)
  /\ LET again == bexec[p].retry /\ bexec[p].attempt < BuildAttempts IN
     /\ version' = IF ~again /\ version = "building" THEN "failed" ELSE version
     /\ bjob' = Over(bjob, "failed", again)
  /\ BStops(p)
  /\ UNCHANGED <<recorded, stored, withdrawn, bmessage>>

\* The executor dies, or stops: JOB_FENCING_REJECTED or an error of the
\* database, after which nothing of the transaction remains.
DropBuild(p) ==
  /\ bexec[p] # BIdle
  /\ BStops(p)
  /\ UNCHANGED <<version, recorded, stored, withdrawn, bjob, bmessage>>

-----------------------------------------------------------------------------
(****************************** Recovery **********************************)

BuildLeaseExpires ==
  /\ bjob.status = "running" /\ bjob.lease = "live"
  /\ bjob' = Expired(bjob)
  /\ UNCHANGED <<version, recorded, stored, withdrawn, bmessage, bexec>>

\* Faulty variant: no outbox event for the next attempt.
RequeueBuildSilently ==
  /\ bjob.status = "failed" /\ bjob.retry
  /\ bjob.attempt < BuildAttempts /\ version = "building"
  /\ bjob' = Requeued(bjob)
  /\ UNCHANGED <<version, recorded, stored, withdrawn, bmessage, bexec>>

\* requeue_failed_knowledge_job, with the outbox event of the next attempt.
RequeueBuild ==
  /\ bjob.status = "failed" /\ bjob.retry
  /\ bjob.attempt < BuildAttempts /\ version = "building"
  /\ bjob' = Requeued(bjob)
  /\ bmessage' = TRUE
  /\ UNCHANGED <<version, recorded, stored, withdrawn, bexec>>

\* recover_expired_knowledge_job: the maintenance process goes on with it.
TakeOverBuild ==
  /\ bexec[Maintenance] = BIdle
  /\ Lost(bjob) /\ version = "building" /\ bjob.attempt < BuildAttempts
  /\ bjob' = Started(bjob)
  /\ BStarts(Maintenance)
  /\ UNCHANGED <<version, recorded, stored, withdrawn, bmessage>>

GiveUpBuild ==
  /\ Lost(bjob) /\ version = "building" /\ bjob.attempt = BuildAttempts
  /\ version' = "failed"
  /\ bjob' = Over(bjob, "failed", FALSE)
  /\ UNCHANGED <<recorded, stored, withdrawn, bmessage, bexec>>

\* A policy of the index is revoked.
WithdrawMember ==
  /\ version # "absent" /\ ~withdrawn
  /\ withdrawn' = TRUE
  /\ UNCHANGED <<version, recorded, stored, bjob, bmessage, bexec>>

-----------------------------------------------------------------------------
BuildInit ==
  /\ version = "absent"
  /\ recorded = Unseen /\ stored = Unseen
  /\ withdrawn = FALSE
  /\ bjob = NoJob /\ bmessage = FALSE
  /\ bexec = [p \in Procs |-> BIdle]

BuildExecutorNext(p) ==
  \/ StartBuild(p) \/ Embed(p) \/ Upsert(p) \/ Materialize(p) \/ Retrieve(p)
  \/ Compare(p) \/ FinishBuild(p) \/ FailBuild(p) \/ DropBuild(p)

BuildDelivery ==
  BuildDispatchDies \/ \E w \in Workers : ClaimBuild(w)
BuildMaintenance == RequeueBuild \/ TakeOverBuild \/ GiveUpBuild

BuildNext ==
  \/ BuildIndex \/ BuildDelivery \/ BuildMaintenance \/ BuildLeaseExpires
  \/ WithdrawMember
  \/ \E p \in Procs : BuildExecutorNext(p)

BuildSpec == BuildInit /\ [][BuildNext]_bvars

(***************************************************************************)
(* Fairness: messages are delivered or die, the maintenance loop comes     *)
(* back to every candidate, executors go on until they stop, leases run    *)
(* out.  Nothing is assumed of failures, revocations or users.             *)
(***************************************************************************)
BuildFairSpec ==
  /\ BuildSpec
  /\ WF_bvars(BuildDelivery) /\ WF_bvars(BuildMaintenance) /\ WF_bvars(BuildLeaseExpires)
  /\ \A p \in Procs : WF_bvars(BuildExecutorNext(p))

-----------------------------------------------------------------------------
(***************************** Properties *********************************)

\* Every variable stays within the values its columns and records allow.
BuildTypeOK ==
  /\ version \in {"absent", "building", "ready", "failed"}
  /\ recorded \in Hashes /\ stored \in Hashes
  /\ withdrawn \in BOOLEAN /\ bmessage \in BOOLEAN
  /\ bjob \in JobRecord(BuildAttempts)
  /\ bexec \in [Procs -> BuildExec]

\* The index and its job tell the same story, whoever wrote last; so the
\* maintenance loop never meets an expired job it cannot process, which would
\* starve every later one.  (A dead-lettered dispatch leaves a building index.)
IndexAgreesWithJob ==
  /\ bjob.status \in {"queued", "running"} => version = "building"
  /\ bjob.status = "failed" /\ bjob.retry => version = "building"
  /\ version = "ready" <=> bjob.status = "succeeded"
  /\ version = "failed" => bjob.status = "failed"

\* Only a complete index gets ready, and what was recorded for an item stays:
\* two attempts cannot mix their embeddings, however late the first one writes.
RecordsAreFinal ==
  [][\A b \in Batches :
       /\ recorded[b] # NoVector => recorded'[b] = recorded[b]
       /\ version' = "ready" => recorded'[b] # NoVector]_bvars

\* A build does not go on for ever (unless its dispatch was dead-lettered).
BuildSettles ==
  version = "building" ~> version # "building" \/ (bjob.status = "failed" /\ ~bjob.retry)

\* Every write satisfies the trigger of migration 019.
Lifecycle ==
  INSTANCE IndexLifecycle WITH
    Indexes <- {"this"},
    status <- [i \in {"this"} |-> version],
    complete <- {i \in {"this"} : \A b \in Batches : recorded[b] # NoVector},
    passed <- {}
ImplementsIndexLifecycle == Lifecycle!Spec

\* Every write to the job knowledge_index_build is one its trigger accepts.
BuildRow == INSTANCE JobRowLifecycle WITH MaxAttempts <- BuildAttempts, row <- bjob
ImplementsBuildRow == BuildRow!Spec
=============================================================================
