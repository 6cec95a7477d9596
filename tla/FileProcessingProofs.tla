------------------------ MODULE FileProcessingProofs ------------------------
(***************************************************************************)
(* Safety of file intake and processing for any workers, attempt limits    *)
(* and faults: the invariants that MCFileProcessing checks on a small      *)
(* instance, and the refinements of FileLifecycle and JobRowLifecycle.     *)
(***************************************************************************)
EXTENDS FileProcessing, TLAPS

(***************************************************************************)
(* The inductive invariant.  A row of the file exists with its job and     *)
(* satisfies the constraints of the table; what waits for an attempt has   *)
(* one left; attempts are held by one executor each and none is ahead of   *)
(* the job; and what an executor is about to write still fits the file.    *)
(***************************************************************************)
RowFits ==
  /\ file = Lifecycle!NoFile \/ Lifecycle!RowAllowed(file)
  /\ file.status = "absent" <=> job.status = "absent"

JobFits ==
  /\ job.status = "absent" => job.attempt = 0
  /\ job.status = "queued" => job.attempt < MaxAttempts
  /\ job.status = "running" => job.stage # "none"
  /\ job.retry => job.status = "failed" /\ job.attempt < MaxAttempts
  /\ job.error = "DISPATCH" => job.status = "failed" /\ ~job.retry

UploadFits ==
  /\ upload \in {"none", "put"} => file.status = "absent"
  /\ upload = "put" => "quarantine" \in objects

OutputsFit == OneParse /\ (outputs.parse > 0 => file.located)

ExecFits(p) ==
  /\ exec[p].attempt \in 1..job.attempt
  /\ exec[p].pc = "verdict" => exec[p].verdict # "none"
  /\ exec[p].pc = "cleaning" => file.located
  /\ exec[p].pc = "writing" => outputs.parse > 0
  /\ exec[p].pc = "parsed" /\ exec[p].attempt = job.attempt /\ StoredClean =>
       outputs.parse = 0

ExecsFit ==
  /\ \A p \in Procs : exec[p] # Idle => ExecFits(p)
  /\ \A p, q \in Procs :
       exec[p] # Idle /\ exec[q] # Idle /\ exec[p].attempt = exec[q].attempt => p = q

FileInv ==
  /\ TypeOK /\ RowFits /\ JobFits /\ UploadFits /\ OutputsFit /\ ExecsFit
  /\ SourceKept /\ FileAgreesWithJob /\ PendingIsRecoverable

USE FileProcessingAssumption

RowsInv ==
  /\ RowFits /\ JobFits /\ UploadFits /\ OutputsFit
  /\ SourceKept /\ FileAgreesWithJob /\ PendingIsRecoverable

Rows == <<file, job, upload, outputs>>

-----------------------------------------------------------------------------
(******************************* Updates **********************************)

\* What an attempt that begins, a job that ends and a stage that is reached
\* write to the row of the job.
LEMMA RunningFields ==
  ASSUME TypeOK, NEW attempt \in 0..MaxAttempts, NEW start \in {"scan", "parse"},
         job' = Running(attempt, start)
  PROVE  /\ job' \in JobRecord /\ job'.status = "running"
         /\ job'.attempt = attempt /\ job'.stage = start /\ job'.start = job.start
         /\ job'.lease = "live" /\ job'.retry = job.retry /\ job'.error = "none"
         /\ job'.type = job.type
BY DEF TypeOK, JobRecord, Running

LEMMA AtFields ==
  ASSUME TypeOK, NEW stage \in {"parse", "markdown"}, job' = At(stage)
  PROVE  /\ job' \in JobRecord /\ job'.stage = stage /\ job'.lease = "live"
         /\ job'.status = job.status /\ job'.attempt = job.attempt
         /\ job'.retry = job.retry /\ job'.error = job.error
         /\ job'.type = job.type
BY DEF TypeOK, JobRecord, At

LEMMA EndedFields ==
  ASSUME TypeOK, NEW status \in {"succeeded", "failed"},
         NEW error \in {"none", "HANDLER", "WORKER_LOST", "DISPATCH"},
         NEW retry, job' = Ended(status, error, retry)
  PROVE  /\ job' \in JobRecord /\ job'.status = status /\ job'.error = error
         /\ job'.attempt = job.attempt /\ job'.stage = job.stage
         /\ job'.type = job.type /\ job'.lease = "none"
         /\ job'.retry => retry /\ job.attempt < MaxAttempts
<1>1. CASE retry /\ job.attempt < MaxAttempts
  <2>1. (retry /\ job.attempt < MaxAttempts) = TRUE
    BY <1>1
  <2>2. QED
    BY <1>1, <2>1 DEF TypeOK, JobRecord, Ended
<1>2. CASE ~(retry /\ job.attempt < MaxAttempts)
  <2>1. (retry /\ job.attempt < MaxAttempts) = FALSE
    BY <1>2
  <2>2. QED
    BY <2>1 DEF TypeOK, JobRecord, Ended
<1>3. QED
  BY <1>1, <1>2

PCs == {"skipping", "scanning", "scanned", "verdict", "promoted", "undoing",
        "cleaning", "parsing", "parsed", "unparsed", "writing"}

\* What an executor writes to what it remembers.
LEMMA GoesFields ==
  ASSUME TypeOK, NEW p \in Procs, NEW pc \in PCs, Goes(p, pc)
  PROVE  /\ exec' \in [Procs -> ExecRecord]
         /\ exec'[p].pc = pc /\ exec'[p].attempt = exec[p].attempt
         /\ \A q \in Procs \ {p} : exec'[q] = exec[q]
BY DEF TypeOK, ExecRecord, Goes, PCs

LEMMA DecidesFields ==
  ASSUME TypeOK, NEW p \in Procs, NEW code \in Verdicts, Decides(p, code)
  PROVE  /\ exec' \in [Procs -> ExecRecord]
         /\ exec'[p].pc = "verdict" /\ exec'[p].verdict = code
         /\ exec'[p].attempt = exec[p].attempt
         /\ \A q \in Procs \ {p} : exec'[q] = exec[q]
<1> DEFINE to == [exec[p] EXCEPT !.pc = "verdict", !.verdict = code]
<1>1. exec[p] \in ExecRecord
  BY DEF TypeOK
<1>2. /\ to \in ExecRecord /\ to.pc = "verdict" /\ to.verdict = code
      /\ to.attempt = exec[p].attempt
  BY <1>1 DEF ExecRecord, Verdicts
<1>3. exec' = [exec EXCEPT ![p] = to]
  BY DEF Decides, TypeOK
<1>4. QED
  BY <1>2, <1>3 DEF TypeOK

LEMMA StopsFields ==
  ASSUME TypeOK, NEW p \in Procs, Stops(p)
  PROVE  /\ exec' \in [Procs -> ExecRecord] /\ exec'[p] = Idle
         /\ \A q \in Procs \ {p} : exec'[q] = exec[q]
<1>1. 0 \in 0..MaxAttempts
  OBVIOUS
<1>2. Idle \in ExecRecord
  BY <1>1 DEF Idle, ExecRecord
<1>3. QED
  BY <1>2 DEF Stops, TypeOK

LEMMA StartsFields ==
  ASSUME TypeOK, NEW p \in Procs, NEW pc \in {"claimed", "scanning", "parsing"},
         job.attempt < MaxAttempts,
         exec' = [exec EXCEPT ![p] = [pc |-> pc, attempt |-> job.attempt + 1,
                                      verdict |-> "none"]]
  PROVE  /\ job.attempt + 1 \in 1..MaxAttempts
         /\ exec' \in [Procs -> ExecRecord] /\ exec'[p].pc = pc
         /\ exec'[p].attempt = job.attempt + 1
         /\ \A q \in Procs \ {p} : exec'[q] = exec[q]
<1>1. job.attempt + 1 \in 1..MaxAttempts
  BY DEF TypeOK, JobRecord
<1>2. [pc |-> pc, attempt |-> job.attempt + 1, verdict |-> "none"] \in ExecRecord
  BY <1>1 DEF ExecRecord
<1>3. QED
  BY <1>1, <1>2 DEF TypeOK

LEMMA ClaimWrites ==
  ASSUME TypeOK, NEW w \in Workers, Claim(w), job.attempt < MaxAttempts
  PROVE  /\ w \in Procs /\ job.attempt + 1 \in 1..MaxAttempts
         /\ exec' \in [Procs -> ExecRecord] /\ exec'[w].pc \in {"scanning", "parsing"}
         /\ exec'[w].attempt = job.attempt + 1
         /\ exec'[w].pc = "scanning" <=> job.start = "scan"
         /\ \A q \in Procs \ {w} : exec'[q] = exec[q]
<1>1. w \in Procs
  BY DEF Procs
<1>2. CASE job.start = "scan"
  <2>1. exec' = [exec EXCEPT ![w] = [pc |-> "scanning", attempt |-> job.attempt + 1,
                                     verdict |-> "none"]]
    BY <1>2 DEF Claim
  <2>2. QED
    BY <1>1, <1>2, <2>1, StartsFields
<1>3. CASE job.start # "scan"
  <2>1. exec' = [exec EXCEPT ![w] = [pc |-> "parsing", attempt |-> job.attempt + 1,
                                     verdict |-> "none"]]
    BY <1>3 DEF Claim
  <2>2. QED
    BY <1>1, <1>3, <2>1, StartsFields
<1>4. QED
  BY <1>2, <1>3

LEMMA ParseAdded ==
  ASSUME TypeOK, NEW p \in Procs, CommitParse(p)
  PROVE  /\ outputs' \in [parse : Nat, extraction : Nat, markdown : Nat]
         /\ outputs'.parse = outputs.parse + 1
         /\ outputs'.extraction = outputs.extraction + 1
         /\ outputs'.markdown = outputs.markdown
<1> DEFINE next == [parse |-> outputs.parse + 1, extraction |-> outputs.extraction + 1,
                    markdown |-> outputs.markdown]
<1>1. outputs \in [parse : Nat, extraction : Nat, markdown : Nat]
  BY DEF TypeOK
<1>2. outputs' = next
  BY <1>1 DEF CommitParse
<1>3. QED
  BY <1>1, <1>2

\* How a step of one executor keeps what all executors are about to do.
LEMMA ExecsFitAfter ==
  ASSUME FileInv, NEW p \in Procs, exec[p] # Idle,
         \A q \in Procs \ {p} : exec'[q] = exec[q],
         exec'[p] = Idle \/ (exec'[p].attempt = exec[p].attempt /\ (ExecFits(p))'),
         job'.attempt = job.attempt,
         file.located => file'.located,
         outputs.parse > 0 => outputs'.parse > 0,
         outputs' = outputs \/ exec[p].attempt = job.attempt,
         (StoredClean)' => StoredClean \/ outputs'.parse = 0
  PROVE  ExecsFit'
<1>1. ExecsFit
  BY DEF FileInv
<1>2. ASSUME NEW q \in Procs \ {p}, exec[q] # Idle PROVE (ExecFits(q))'
  <2>1. ExecFits(q) /\ exec[q].attempt # exec[p].attempt
    BY <1>1, <1>2 DEF ExecsFit
  <2>2. QED
    BY <1>2, <2>1 DEF ExecFits
<1>3. QED
  BY <1>1, <1>2 DEF ExecsFit

\* How a step of nobody's executor does.
LEMMA ExecsFitStill ==
  ASSUME FileInv, exec' = exec, outputs' = outputs, job'.attempt = job.attempt,
         file.located => file'.located,
         (StoredClean)' => StoredClean
  PROVE  ExecsFit'
BY DEF FileInv, ExecsFit, ExecFits

\* A new attempt.
LEMMA ExecsFitStarted ==
  ASSUME FileInv, NEW p \in Procs,
         job'.attempt = job.attempt + 1, exec'[p].attempt = job.attempt + 1,
         exec'[p].pc \in {"claimed", "scanning", "parsing"},
         \A q \in Procs \ {p} : exec'[q] = exec[q],
         file'.located = file.located, outputs' = outputs
  PROVE  ExecsFit'
<1>1. ExecsFit /\ job.attempt \in Nat
  BY DEF FileInv, TypeOK, JobRecord
<1>2. (ExecFits(p))'
  BY <1>1 DEF ExecFits
<1>3. ASSUME NEW q \in Procs \ {p}, exec[q] # Idle PROVE (ExecFits(q))'
  <2>1. ExecFits(q)
    BY <1>1, <1>3 DEF ExecsFit
  <2>2. QED
    BY <1>1, <1>3, <2>1 DEF ExecFits
<1>4. \A q \in Procs \ {p} : exec[q] # Idle => exec[q].attempt # exec'[p].attempt
  BY <1>1 DEF ExecsFit, ExecFits
<1>5. QED
  BY <1>1, <1>2, <1>3, <1>4 DEF ExecsFit

\* Reads, scans and the calls of the object store leave the rows alone; what
\* they take from quarantine is the copy of a stored file.
LEMMA RowsStay ==
  ASSUME FileInv, UNCHANGED Rows,
         "quarantine" \in objects /\ ~file.located => "quarantine" \in objects'
  PROVE  RowsInv'
<1>1. RowsInv /\ file \in Lifecycle!FileRecord
  BY DEF FileInv, RowsInv, TypeOK
<1>2. file.status \in {"absent", "uploaded", "validating"} => ~file.located
  BY <1>1 DEF RowsInv, RowFits, Lifecycle!RowAllowed, Lifecycle!NoFile
<1>3. (UploadFits /\ SourceKept)'
  BY <1>1, <1>2 DEF RowsInv, UploadFits, SourceKept, Rows
<1>4. QED
  BY <1>1, <1>3
     DEF RowsInv, RowFits, JobFits, OutputsFit, OneParse, FileAgreesWithJob,
         PendingIsRecoverable, Rows

-----------------------------------------------------------------------------
(******************************** Types ***********************************)

LEMMA TypesKept ==
  ASSUME FileInv, Next, UNCHANGED faults
  PROVE  TypeOK'
<1>1. TypeOK
  BY DEF FileInv
<1>2. /\ file \in Lifecycle!FileRecord /\ job \in JobRecord
      /\ exec \in [Procs -> ExecRecord]
      /\ outputs \in [parse : Nat, extraction : Nat, markdown : Nat]
  BY <1>1 DEF TypeOK
<1>3. CASE UploadNext
  <2>1. ASSUME NEW type \in {"file_process", "file_scan"}
        PROVE  [NoJob EXCEPT !.type = type, !.status = "queued"] \in JobRecord
    <3>1. 0 \in 0..MaxAttempts
      OBVIOUS
    <3>2. NoJob \in JobRecord
      BY <3>1 DEF NoJob, JobRecord
    <3>3. QED
      BY <3>1, <3>2 DEF NoJob, JobRecord
  <2>2. Lifecycle!NewFile \in Lifecycle!FileRecord
    BY DEF Lifecycle!NewFile, Lifecycle!FileRecord, Lifecycle!FileStatus,
       Lifecycle!ScanStatus
  <2>3. QED
    BY <1>1, <1>3, <2>1, <2>2
       DEF TypeOK, UploadNext, PutQuarantine, CommitUpload, AbortUpload,
           CompensateUpload
<1>4. CASE JobNext
  <2>1. CASE RefuseMessage
    BY <1>1, <2>1 DEF TypeOK, RefuseMessage
  <2>2. CASE DispatchDies
    BY <1>1, <2>2, EndedFields DEF TypeOK, DispatchDies
  <2>3. CASE Requeue
    <3>1. job' \in JobRecord
      BY <1>2, <2>3 DEF Requeue, JobRecord
    <3>2. file' \in Lifecycle!FileRecord
      BY <1>2, <2>3
         DEF Requeue, Lifecycle!FileRecord, Lifecycle!ScanStatus
    <3>3. QED
      BY <1>1, <2>3, <3>1, <3>2 DEF TypeOK, Requeue
  <2>4. CASE TakeOver
    <3>1. Maintenance \in Procs /\ job.attempt + 1 \in 0..MaxAttempts
          /\ job.start \in {"scan", "parse"}
      BY <1>2, <2>4 DEF Procs, TakeOver, JobRecord
    <3>2. job' \in JobRecord
      BY <1>1, <2>4, <3>1, RunningFields DEF TakeOver
    <3>3. exec' \in [Procs -> ExecRecord]
      BY <1>1, <2>4, <3>1, StartsFields DEF TakeOver
    <3>4. QED
      BY <1>1, <2>4, <3>2, <3>3 DEF TypeOK, TakeOver
  <2>5. CASE GiveUp
    <3>1. job' \in JobRecord
      BY <1>1, <2>5, EndedFields DEF GiveUp
    <3>2. file' \in Lifecycle!FileRecord
      BY <1>2, <2>5 DEF GiveUp, Lifecycle!FileRecord, Lifecycle!ScanStatus
    <3>3. QED
      BY <1>1, <2>5, <3>1, <3>2 DEF TypeOK, GiveUp
  <2>6. QED
    BY <1>4, <2>1, <2>2, <2>3, <2>4, <2>5 DEF JobNext
<1>5. CASE Archive \/ LeaseExpires
  <2>1. file' \in Lifecycle!FileRecord
    BY <1>2, <1>5
       DEF Archive, LeaseExpires, Lifecycle!FileRecord, Lifecycle!FileStatus
  <2>2. job' \in JobRecord
    BY <1>2, <1>5 DEF Archive, LeaseExpires, JobRecord
  <2>3. QED
    BY <1>1, <1>5, <2>1, <2>2 DEF TypeOK, Archive, LeaseExpires
<1>6. ASSUME NEW w \in Workers, Claim(w) PROVE TypeOK'
  <2>1. w \in Procs /\ job.start \in {"scan", "parse"} /\ job.attempt < MaxAttempts
    BY <1>2, <1>6 DEF Procs, Claim, JobRecord, FileInv, JobFits
  <2>2. /\ exec' \in [Procs -> ExecRecord] /\ job.attempt + 1 \in 0..MaxAttempts
    BY <1>1, <2>1, ClaimWrites, <1>6
  <2>3. job' \in JobRecord
    BY <1>1, <1>6, <2>1, <2>2, RunningFields DEF Claim
  <2>4. file' \in Lifecycle!FileRecord
    BY <1>2, <1>6 DEF Claim, Lifecycle!FileRecord, Lifecycle!FileStatus
  <2>5. QED
    BY <1>1, <1>6, <2>2, <2>3, <2>4 DEF TypeOK, Claim
<1>7. ASSUME NEW p \in Procs, ScanNext(p) PROVE TypeOK'
  <2>1. exec' \in [Procs -> ExecRecord]
    <3>1. ASSUME NEW pc \in PCs, Goes(p, pc) PROVE exec' \in [Procs -> ExecRecord]
      BY <1>1, <3>1, GoesFields
    <3>2. ASSUME NEW code \in Verdicts, Decides(p, code)
          PROVE  exec' \in [Procs -> ExecRecord]
      BY <1>1, <3>2, DecidesFields
    <3>3. ASSUME Stops(p) PROVE exec' \in [Procs -> ExecRecord]
      BY <1>1, <3>3, StopsFields
    <3>4. QED
      BY <1>7, <3>1, <3>2, <3>3
         DEF ScanNext, LoadSource, SkipScan, ReadAndScan, Promote, FailScan,
             CommitScan, AbandonScan, Compensate, CleanUp, PCs, Verdicts
  <2>2. job' \in JobRecord
    BY <1>1, <1>2, <1>7, AtFields, EndedFields
       DEF ScanNext, LoadSource, SkipScan, ReadAndScan, Promote, FailScan,
           CommitScan, AbandonScan, Compensate, CleanUp
  <2>3. file' \in Lifecycle!FileRecord
    <3>1. CASE FailScan(p)
      <4>1. exec[p].verdict # "none"
        BY <3>1 DEF FileInv, ExecsFit, ExecFits, FailScan, Idle
      <4>2. exec[p].verdict \in Verdicts
        BY <1>2, <4>1 DEF ExecRecord
      <4>3. QED
        BY <1>2, <3>1, <4>2
           DEF FailScan, VerdictRow, Verdicts, Lifecycle!FileRecord,
               Lifecycle!FileStatus, Lifecycle!ScanStatus
    <3>2. CASE CommitScan(p)
      BY <3>2 DEF CommitScan, CleanRow, Lifecycle!FileRecord,
         Lifecycle!FileStatus, Lifecycle!ScanStatus
    <3>3. QED
      BY <1>2, <1>7, <3>1, <3>2
         DEF ScanNext, LoadSource, SkipScan, ReadAndScan, Promote, AbandonScan,
             Compensate, CleanUp
  <2>4. scanned' \in 0..MaxAttempts
    <3>1. exec[p].attempt \in 0..MaxAttempts
      BY <1>2 DEF ExecRecord
    <3>2. QED
      BY <1>1, <1>7, <3>1
         DEF TypeOK, ScanNext, LoadSource, SkipScan, ReadAndScan, Promote, FailScan,
             CommitScan, AbandonScan, Compensate, CleanUp
  <2>5. objects' \subseteq {"quarantine", "originals"}
    BY <1>1, <1>7
       DEF TypeOK, ScanNext, LoadSource, SkipScan, ReadAndScan, Promote, FailScan,
           CommitScan, AbandonScan, Compensate, CleanUp
  <2>6. UNCHANGED <<message, upload, outputs>>
    BY <1>7
       DEF ScanNext, LoadSource, SkipScan, ReadAndScan, Promote, FailScan,
           CommitScan, AbandonScan, Compensate, CleanUp
  <2>7. QED
    BY <1>1, <2>1, <2>2, <2>3, <2>4, <2>5, <2>6 DEF TypeOK
<1>8. ASSUME NEW p \in Procs, ParseNext(p) \/ Drop(p) PROVE TypeOK'
  <2>1. exec' \in [Procs -> ExecRecord]
    BY <1>1, <1>8, GoesFields, StopsFields
       DEF ParseNext, ReuseParse, Parse, CommitParse, FailParse, WriteMarkdown,
           FailMarkdown, Drop, PCs
  <2>2. job' \in JobRecord
    BY <1>1, <1>2, <1>8, AtFields, EndedFields
       DEF ParseNext, ReuseParse, Parse, CommitParse, FailParse, WriteMarkdown,
           FailMarkdown, Drop
  <2>3. outputs' \in [parse : Nat, extraction : Nat, markdown : Nat]
    <3>1. CASE CommitParse(p)
      BY <1>1, <3>1, ParseAdded
    <3>2. CASE WriteMarkdown(p)
      BY <1>2, <3>2 DEF WriteMarkdown
    <3>3. QED
      BY <1>2, <1>8, <3>1, <3>2
         DEF ParseNext, ReuseParse, Parse, FailParse, FailMarkdown, Drop
  <2>4. UNCHANGED <<file, message, objects, upload, scanned>>
    BY <1>8
       DEF ParseNext, ReuseParse, Parse, CommitParse, FailParse, WriteMarkdown,
           FailMarkdown, Drop
  <2>5. QED
    BY <1>1, <2>1, <2>2, <2>3, <2>4 DEF TypeOK
<1>9. QED
  BY <1>3, <1>4, <1>5, <1>6, <1>7, <1>8 DEF Next

-----------------------------------------------------------------------------
(***************************** Executors **********************************)

LEMMA ExecsKept ==
  ASSUME FileInv, Next, UNCHANGED faults
  PROVE  ExecsFit'
<1>1. /\ TypeOK /\ RowFits /\ JobFits /\ OutputsFit /\ ExecsFit
      /\ file \in Lifecycle!FileRecord /\ job \in JobRecord
      /\ outputs \in [parse : Nat, extraction : Nat, markdown : Nat]
  BY DEF FileInv, TypeOK
<1>2. ~file.located => outputs.parse = 0 /\ ~StoredClean
  BY <1>1
     DEF OutputsFit, OneParse, RowFits, StoredClean, Lifecycle!RowAllowed,
         Lifecycle!NoFile
<1>3. CASE UploadNext
  <2>1. CASE CommitUpload
    <3>1. file.status = "absent" /\ job.status = "absent" /\ job.attempt = 0
      BY <2>1 DEF FileInv, UploadFits, RowFits, JobFits, CommitUpload
    <3>2. \A p \in Procs : exec[p] = Idle
      BY <1>1, <3>1 DEF ExecsFit, ExecFits
    <3>3. exec' = exec
      BY <2>1 DEF CommitUpload
    <3>4. QED
      BY <3>2, <3>3 DEF ExecsFit
  <2>2. QED
    BY <1>3, <2>1, ExecsFitStill
       DEF UploadNext, PutQuarantine, AbortUpload, CompensateUpload, StoredClean
<1>4. CASE JobNext
  <2>1. CASE TakeOver
    <3>1. Maintenance \in Procs /\ job.attempt + 1 \in 0..MaxAttempts
          /\ job.start \in {"scan", "parse"} /\ job.attempt < MaxAttempts
      BY <1>1, <2>1 DEF Procs, TakeOver, JobRecord
    <3>2. job'.attempt = job.attempt + 1
      BY <1>1, <2>1, <3>1, RunningFields DEF TakeOver
    <3>3. /\ exec'[Maintenance].pc = "claimed"
          /\ exec'[Maintenance].attempt = job.attempt + 1
          /\ \A q \in Procs \ {Maintenance} : exec'[q] = exec[q]
      BY <1>1, <2>1, <3>1, StartsFields DEF TakeOver
    <3>4. QED
      BY <2>1, <3>1, <3>2, <3>3, ExecsFitStarted DEF TakeOver
  <2>2. CASE RefuseMessage \/ DispatchDies \/ Requeue \/ GiveUp
    <3>1. job'.attempt = job.attempt
      BY <1>1, <2>2, EndedFields
         DEF RefuseMessage, DispatchDies, Requeue, GiveUp, JobRecord
    <3>2. /\ file'.located = file.located /\ file'.status = file.status
          /\ (StoredClean)' => StoredClean
      BY <1>1, <2>2
         DEF RefuseMessage, DispatchDies, Requeue, GiveUp, Lifecycle!FileRecord,
             StoredClean
    <3>3. exec' = exec /\ outputs' = outputs
      BY <2>2 DEF RefuseMessage, DispatchDies, Requeue, GiveUp
    <3>4. QED
      BY <3>1, <3>2, <3>3, ExecsFitStill
  <2>3. QED
    BY <1>4, <2>1, <2>2 DEF JobNext
<1>5. CASE Archive \/ LeaseExpires
  <2>1. job'.attempt = job.attempt
    BY <1>1, <1>5 DEF Archive, LeaseExpires, JobRecord
  <2>2. file.located => file'.located
    BY <1>1, <1>5 DEF Archive, LeaseExpires, Lifecycle!FileRecord
  <2>3. (StoredClean)' => StoredClean
    BY <1>1, <1>5 DEF Archive, LeaseExpires, StoredClean, Lifecycle!FileRecord
  <2>4. QED
    BY <1>5, <2>1, <2>2, <2>3, ExecsFitStill DEF Archive, LeaseExpires
<1>6. ASSUME NEW w \in Workers, Claim(w) PROVE ExecsFit'
  <2>1. job.attempt < MaxAttempts /\ job.start \in {"scan", "parse"}
    BY <1>1, <1>6 DEF Claim, JobFits, JobRecord
  <2>2. job'.attempt = job.attempt + 1
    BY <1>1, <1>6 DEF Claim, Running, JobRecord
  <2>3. file'.located = file.located /\ outputs' = outputs
    BY <1>1, <1>6 DEF Claim, Lifecycle!FileRecord
  <2>4. /\ w \in Procs /\ exec'[w].pc \in {"scanning", "parsing"}
        /\ exec'[w].attempt = job.attempt + 1
        /\ \A q \in Procs \ {w} : exec'[q] = exec[q]
    BY <1>1, <1>6, <2>1, ClaimWrites
  <2>5. QED
    BY <2>2, <2>3, <2>4, ExecsFitStarted
<1>7. ASSUME NEW p \in Procs, ScanNext(p) PROVE ExecsFit'
  <2>1. exec[p] # Idle /\ ExecFits(p)
    <3>1. exec[p].pc # "idle"
      BY <1>7
         DEF ScanNext, LoadSource, SkipScan, ReadAndScan, Promote, FailScan,
             CommitScan, AbandonScan, Compensate, CleanUp
    <3>2. QED
      BY <1>1, <3>1 DEF ExecsFit, Idle
  <2>2. job'.attempt = job.attempt /\ outputs' = outputs
    BY <1>1, <1>7, AtFields, EndedFields
       DEF ScanNext, LoadSource, SkipScan, ReadAndScan, Promote, FailScan,
           CommitScan, AbandonScan, Compensate, CleanUp
  <2>3. /\ file.located => file'.located
        /\ (StoredClean)' => StoredClean \/ outputs'.parse = 0
    <3>1. CASE CommitScan(p)
      <4>1. ~StoredClean /\ file.scan = "pending"
        BY <3>1 DEF CommitScan, ScanAwaited, StoredClean
      <4>2. ~file.located
        <5>1. file.status = "validating"
          BY <3>1 DEF CommitScan, ScanAwaited
        <5>2. QED
          BY <1>1, <5>1 DEF RowFits, Lifecycle!RowAllowed, Lifecycle!NoFile
      <4>3. QED
        BY <1>2, <2>2, <4>2
    <3>2. CASE FailScan(p)
      <4>1. file'.located = file.located
        BY <1>1, <3>2 DEF FailScan, VerdictRow, Lifecycle!FileRecord
      <4>2. file'.status # "stored"
        BY <1>1, <3>2 DEF FailScan, VerdictRow, Lifecycle!FileRecord
      <4>3. QED
        BY <4>1, <4>2 DEF StoredClean
    <3>3. QED
      BY <1>7, <3>1, <3>2
         DEF ScanNext, LoadSource, SkipScan, ReadAndScan, Promote, AbandonScan,
             Compensate, CleanUp, StoredClean
  <2>4. /\ \A q \in Procs \ {p} : exec'[q] = exec[q]
        /\ \/ exec'[p] = Idle
           \/ /\ exec'[p].attempt = exec[p].attempt
              /\ exec'[p].pc \in {"skipping", "scanning", "scanned", "promoted",
                                  "undoing", "parsing"}
           \/ /\ exec'[p].attempt = exec[p].attempt
              /\ exec'[p].pc = "verdict" /\ exec'[p].verdict # "none"
           \/ /\ exec'[p].attempt = exec[p].attempt
              /\ exec'[p].pc = "cleaning" /\ file'.located
    <3>1. ASSUME NEW pc \in PCs, Goes(p, pc)
          PROVE  /\ \A q \in Procs \ {p} : exec'[q] = exec[q]
                 /\ exec'[p].attempt = exec[p].attempt /\ exec'[p].pc = pc
      BY <1>1, <3>1, GoesFields
    <3>2. ASSUME NEW code \in Verdicts, Decides(p, code)
          PROVE  /\ \A q \in Procs \ {p} : exec'[q] = exec[q]
                 /\ exec'[p].attempt = exec[p].attempt /\ exec'[p].pc = "verdict"
                 /\ exec'[p].verdict # "none"
      BY <1>1, <3>2, DecidesFields DEF Verdicts
    <3>3. ASSUME Stops(p)
          PROVE  exec'[p] = Idle /\ \A q \in Procs \ {p} : exec'[q] = exec[q]
      BY <1>1, <3>3, StopsFields
    <3>4. CASE CommitScan(p)
      BY <3>1, <3>4 DEF CommitScan, CleanRow, PCs
    <3>5. CASE LoadSource(p) \/ SkipScan(p) \/ AbandonScan(p)
      BY <3>1, <3>5 DEF LoadSource, SkipScan, AbandonScan, PCs
    <3>6. CASE ReadAndScan(p) \/ Promote(p)
      BY <3>1, <3>2, <3>6 DEF ReadAndScan, Promote, PCs, Verdicts
    <3>7. CASE FailScan(p) \/ Compensate(p) \/ CleanUp(p)
      BY <3>1, <3>3, <3>7 DEF FailScan, Compensate, CleanUp, PCs
    <3>8. QED
      BY <1>7, <3>4, <3>5, <3>6, <3>7 DEF ScanNext
  <2>5. exec'[p] = Idle \/ (exec'[p].attempt = exec[p].attempt /\ (ExecFits(p))')
    BY <2>1, <2>2, <2>4 DEF ExecFits
  <2>6. QED
    BY <2>1, <2>2, <2>3, <2>4, <2>5, ExecsFitAfter
<1>8. ASSUME NEW p \in Procs, ParseNext(p) \/ Drop(p) PROVE ExecsFit'
  <2>1. exec[p] # Idle /\ ExecFits(p)
    <3>1. exec[p].pc # "idle" \/ Drop(p)
      BY <1>8
         DEF ParseNext, ReuseParse, Parse, CommitParse, FailParse, WriteMarkdown,
             FailMarkdown
    <3>2. exec[p] # Idle
      BY <3>1 DEF Drop, Idle
    <3>3. QED
      BY <1>1, <3>2 DEF ExecsFit
  <2>2. job'.attempt = job.attempt /\ file' = file
    BY <1>1, <1>8, AtFields, EndedFields
       DEF ParseNext, ReuseParse, Parse, CommitParse, FailParse, WriteMarkdown,
           FailMarkdown, Drop
  <2>3. /\ outputs.parse > 0 => outputs'.parse > 0
        /\ outputs' = outputs \/ exec[p].attempt = job.attempt
    <3>1. CASE CommitParse(p)
      BY <1>1, <3>1, ParseAdded DEF CommitParse, Holds
    <3>2. CASE WriteMarkdown(p)
      BY <1>1, <3>2 DEF WriteMarkdown, Holds
    <3>3. QED
      BY <1>8, <3>1, <3>2
         DEF ParseNext, ReuseParse, Parse, FailParse, FailMarkdown, Drop
  <2>4. ASSUME NEW pc \in PCs, Goes(p, pc)
        PROVE  /\ \A q \in Procs \ {p} : exec'[q] = exec[q]
               /\ exec'[p].attempt = exec[p].attempt /\ exec'[p].pc = pc
    BY <1>1, <2>4, GoesFields
  <2>5. ASSUME Stops(p)
        PROVE  exec'[p] = Idle /\ \A q \in Procs \ {p} : exec'[q] = exec[q]
    BY <1>1, <2>5, StopsFields
  <2>6. /\ \A q \in Procs \ {p} : exec'[q] = exec[q]
        /\ \/ exec'[p] = Idle
           \/ exec'[p].attempt = exec[p].attempt /\ (ExecFits(p))'
    <3>1. CASE ReuseParse(p) \/ CommitParse(p)
      <4>1. outputs'.parse > 0
        BY <1>1, <3>1, ParseAdded DEF ReuseParse
      <4>2. Goes(p, "writing") /\ "writing" \in PCs
        BY <3>1 DEF ReuseParse, CommitParse, PCs
      <4>3. QED
        BY <2>1, <2>2, <2>4, <4>1, <4>2 DEF ExecFits
    <3>2. CASE Parse(p)
      <4>1. Goes(p, "parsed") \/ Goes(p, "unparsed")
        BY <3>2 DEF Parse
      <4>2. StoredClean => outputs.parse = 0
        BY <1>1, <3>2 DEF Parse
      <4>3. outputs' = outputs
        BY <3>2 DEF Parse
      <4>4. (StoredClean)' <=> StoredClean
        BY <2>2 DEF StoredClean
      <4>5. QED
        BY <2>1, <2>2, <2>4, <4>1, <4>2, <4>3, <4>4 DEF ExecFits, PCs
    <3>3. CASE FailParse(p) \/ WriteMarkdown(p) \/ FailMarkdown(p) \/ Drop(p)
      BY <2>5, <3>3 DEF FailParse, WriteMarkdown, FailMarkdown, Drop
    <3>4. QED
      BY <1>8, <3>1, <3>2, <3>3 DEF ParseNext
  <2>7. QED
    BY <2>1, <2>2, <2>3, <2>6, ExecsFitAfter DEF StoredClean
<1>9. QED
  BY <1>3, <1>4, <1>5, <1>6, <1>7, <1>8 DEF Next

-----------------------------------------------------------------------------
(******************************** Rows ************************************)

LEMMA FileRow ==
  ASSUME FileInv
  PROVE  /\ file.status \in {"absent", "uploaded", "validating"} => ~file.located
         /\ file.status \in {"stored", "archived"} =>
              file.located /\ file.scan = "clean"
         /\ file.status = "absent" => file = Lifecycle!NoFile
         /\ file.status = "uploaded" => file.scan = "pending"
         /\ file.status = "validating" =>
              file.scan \in {"pending", "scan_failed", "not_configured"}
         /\ file.located => file.status \in {"stored", "archived"}
BY DEF FileInv, RowFits, Lifecycle!RowAllowed, Lifecycle!NoFile, Lifecycle!ScansOf

LEMMA RowsKept ==
  ASSUME FileInv, Next, UNCHANGED faults
  PROVE  RowsInv'
<1>1. /\ RowsInv /\ TypeOK /\ ExecsFit
      /\ file \in Lifecycle!FileRecord /\ job \in JobRecord
      /\ outputs \in [parse : Nat, extraction : Nat, markdown : Nat]
  BY DEF FileInv, TypeOK, RowsInv
<1> USE DEF RowsInv, RowFits, JobFits, UploadFits, OutputsFit, OneParse, SourceKept,
            FileAgreesWithJob, PendingIsRecoverable
<1>2. CASE UploadNext
  <2>1. CASE PutQuarantine \/ AbortUpload \/ CompensateUpload
    <3>1. UNCHANGED <<file, job, outputs>>
      BY <2>1 DEF PutQuarantine, AbortUpload, CompensateUpload
    <3>2. UploadFits'
      BY <1>1, <2>1 DEF PutQuarantine, AbortUpload, CompensateUpload
    <3>3. SourceKept'
      BY <1>1, <2>1 DEF PutQuarantine, AbortUpload, CompensateUpload
    <3>4. QED
      BY <1>1, <3>1, <3>2, <3>3
  <2>2. CASE CommitUpload
    <3>1. file' = [status |-> "uploaded", scan |-> "pending", located |-> FALSE]
      BY <2>2 DEF CommitUpload, Lifecycle!NewFile
    <3>2. /\ job'.status = "queued" /\ job'.attempt = 0 /\ ~job'.retry
          /\ job'.error = "none"
      BY <2>2 DEF CommitUpload, NoJob
    <3>3. (RowFits /\ JobFits)'
      BY <3>1, <3>2 DEF Lifecycle!RowAllowed, Lifecycle!ScansOf
    <3>4. file.status = "absent"
      BY <1>1, <2>2 DEF CommitUpload
    <3>5. outputs.parse = 0 /\ outputs' = outputs
      BY <1>1, <2>2, <3>4, FileRow DEF CommitUpload
    <3>6. (UploadFits /\ SourceKept)'
      BY <1>1, <2>2, <3>1 DEF CommitUpload
    <3>7. (OutputsFit /\ FileAgreesWithJob /\ PendingIsRecoverable)'
      BY <1>1, <3>1, <3>2, <3>5
    <3>8. QED
      BY <3>3, <3>6, <3>7
  <2>3. QED
    BY <1>2, <2>1, <2>2 DEF UploadNext
<1>3. CASE JobNext
  <2>1. CASE RefuseMessage
    BY <1>1, <2>1 DEF RefuseMessage
  <2>2. CASE DispatchDies
    <3>1. /\ job'.status = "failed" /\ job'.error = "DISPATCH" /\ ~job'.retry
          /\ job'.attempt = job.attempt
      BY <1>1, <2>2, EndedFields DEF DispatchDies
    <3>2. UNCHANGED <<file, upload, objects, outputs>> /\ job.status = "queued"
      BY <2>2 DEF DispatchDies
    <3>3. QED
      BY <1>1, <3>1, <3>2
  <2>3. CASE Requeue
    <3>1. /\ job'.status = "queued" /\ ~job'.retry /\ job'.error = "none"
          /\ job'.attempt = job.attempt /\ job.status = "failed"
          /\ job.attempt < MaxAttempts
      BY <1>1, <2>3 DEF Requeue, JobRecord
    <3>2. UNCHANGED <<upload, objects, outputs>>
      BY <2>3 DEF Requeue
    <3>3. CASE file' = file /\ Readable
      BY <1>1, <3>1, <3>2, <3>3, FileRow DEF Readable, StoredClean
    <3>4. CASE file.status = "validating" /\ file' = [file EXCEPT !.scan = "pending"]
      <4>1. file'.status = "validating" /\ file'.scan = "pending" /\ ~file'.located
        BY <1>1, <3>4, FileRow DEF Lifecycle!FileRecord
      <4>2. RowFits'
        BY <3>1, <4>1 DEF Lifecycle!RowAllowed, Lifecycle!ScansOf
      <4>3. QED
        BY <1>1, <3>1, <3>2, <3>4, <4>1, <4>2, FileRow
    <3>5. QED
      BY <2>3, <3>3, <3>4 DEF Requeue
  <2>4. CASE TakeOver
    <3>1. /\ job.status = "running" /\ UNCHANGED <<file, upload, objects, outputs>>
          /\ RecoverySource
      BY <2>4 DEF TakeOver, Recoverable
    <3>2. /\ job.attempt + 1 \in 0..MaxAttempts /\ job.start \in {"scan", "parse"}
          /\ job.attempt < MaxAttempts
      BY <1>1, <2>4 DEF TakeOver, JobRecord
    <3>3. /\ job'.status = "running" /\ job'.stage = job.start /\ job'.retry = job.retry
          /\ job'.error = "none" /\ job'.attempt = job.attempt + 1
      BY <1>1, <2>4, <3>2, RunningFields DEF TakeOver
    <3>4. job.start = "parse" => file.located
      BY <3>1 DEF RecoverySource, Readable
    <3>5. file.status # "uploaded"
      BY <3>1, FileRow DEF RecoverySource, ScanAwaited, Readable, StoredClean
    <3>6. QED
      BY <1>1, <3>1, <3>2, <3>3, <3>4, <3>5
  <2>5. CASE GiveUp
    <3>1. /\ job.status = "running" /\ UNCHANGED <<upload, objects, outputs>>
          /\ job.attempt = MaxAttempts
      BY <2>5 DEF GiveUp, Recoverable
    <3>2. /\ job'.status = "failed" /\ job'.error = "WORKER_LOST" /\ ~job'.retry
          /\ job'.attempt = job.attempt
      BY <1>1, <2>5, EndedFields DEF GiveUp
    <3>3. job.stage # "scan" => file.located
      <4>1. job.stage \in {"none", "scan", "parse", "markdown"} /\ job.stage # "none"
        BY <1>1, <3>1 DEF JobRecord
      <4>2. QED
        BY <1>1, <3>1, <4>1
    <3>4. CASE file' = file /\ ~(job.stage = "scan" /\ ScanAwaited)
      <4>1. file.status \notin {"uploaded", "validating"} \/ file.scan # "pending"
        BY <1>1, <2>5, <3>3, <3>4, FileRow
           DEF GiveUp, Recoverable, RecoverySource, ScanAwaited, Readable, StoredClean
      <4>2. file.status # "uploaded"
        BY <4>1, FileRow
      <4>3. QED
        BY <1>1, <3>1, <3>2, <3>4, <4>1, <4>2
    <3>5. CASE ScanAwaited /\ file' = [file EXCEPT !.scan = "scan_failed"]
      <4>1. file'.status = "validating" /\ file'.scan = "scan_failed" /\ ~file'.located
        BY <1>1, <3>5, FileRow DEF Lifecycle!FileRecord, ScanAwaited
      <4>2. RowFits'
        BY <3>2, <4>1 DEF Lifecycle!RowAllowed, Lifecycle!ScansOf
      <4>3. QED
        BY <1>1, <3>1, <3>2, <3>5, <4>1, <4>2, FileRow DEF ScanAwaited
    <3>6. QED
      BY <2>5, <3>4, <3>5 DEF GiveUp
  <2>6. QED
    BY <1>3, <2>1, <2>2, <2>3, <2>4, <2>5 DEF JobNext
<1>4. CASE Archive
  <2>1. file'.status = "archived" /\ file'.scan = "clean" /\ file'.located
    BY <1>1, <1>4, FileRow DEF Archive, StoredClean, Lifecycle!FileRecord
  <2>2. UNCHANGED <<job, upload, objects, outputs>> /\ file.status = "stored"
    BY <1>4 DEF Archive, StoredClean
  <2>3. RowFits'
    BY <1>1, <2>1, <2>2 DEF Lifecycle!RowAllowed, Lifecycle!ScansOf
  <2>4. QED
    BY <1>1, <2>1, <2>2, <2>3
<1>5. CASE LeaseExpires
  <2>1. /\ UNCHANGED <<file, upload, objects, outputs>>
        /\ job'.status = job.status /\ job'.attempt = job.attempt
        /\ job'.stage = job.stage /\ job'.retry = job.retry /\ job'.error = job.error
    BY <1>1, <1>5 DEF LeaseExpires, JobRecord
  <2>2. QED
    BY <1>1, <2>1
<1>6. ASSUME NEW w \in Workers, Claim(w) PROVE RowsInv'
  <2>1. /\ job.status = "queued" /\ UNCHANGED <<upload, objects, outputs>>
        /\ ClaimSource(job.start) /\ job.attempt < MaxAttempts
        /\ job.start \in {"scan", "parse"}
    BY <1>1, <1>6 DEF Claim, JobRecord
  <2>2. job.attempt + 1 \in 1..MaxAttempts /\ job.attempt + 1 \in 0..MaxAttempts
    BY <1>1, <2>1 DEF JobRecord
  <2>3. /\ job'.status = "running" /\ job'.stage = job.start /\ job'.retry = job.retry
        /\ job'.error = "none" /\ job'.attempt = job.attempt + 1
    BY <1>1, <1>6, <2>1, <2>2, RunningFields DEF Claim
  <2>4. CASE job.start = "scan"
    <3>1. file' = [file EXCEPT !.status = "validating"] /\ file.scan = "pending"
          /\ file.status \in {"uploaded", "validating"}
      BY <1>6, <2>1, <2>4 DEF Claim, ClaimSource
    <3>2. file'.status = "validating" /\ file'.scan = "pending" /\ ~file'.located
      BY <1>1, <3>1, FileRow DEF Lifecycle!FileRecord
    <3>3. RowFits'
      BY <2>3, <3>2 DEF Lifecycle!RowAllowed, Lifecycle!ScansOf
    <3>4. QED
      BY <1>1, <2>1, <2>2, <2>3, <2>4, <3>1, <3>2, <3>3, FileRow
  <2>5. CASE job.start # "scan"
    <3>1. file' = file /\ file.located /\ file.status = "stored"
      BY <1>6, <2>1, <2>5 DEF Claim, ClaimSource, Readable, StoredClean
    <3>2. QED
      BY <1>1, <2>1, <2>2, <2>3, <3>1, FileRow
  <2>6. QED
    BY <2>4, <2>5
<1>7. ASSUME NEW p \in Procs, ScanNext(p) PROVE RowsInv'
  <2>1. CASE \/ LoadSource(p) \/ ReadAndScan(p) \/ Promote(p) \/ AbandonScan(p)
             \/ Compensate(p) \/ CleanUp(p)
    <3>1. UNCHANGED Rows
      BY <2>1
         DEF LoadSource, ReadAndScan, Promote, AbandonScan, Compensate, CleanUp, Rows
    <3>2. "quarantine" \in objects /\ ~file.located => "quarantine" \in objects'
      <4>1. exec[p].pc = "cleaning" => file.located
        BY <1>1 DEF ExecsFit, ExecFits, Idle
      <4>2. QED
        BY <2>1, <4>1
           DEF LoadSource, ReadAndScan, Promote, AbandonScan, Compensate, CleanUp
    <3>3. QED
      BY <3>1, <3>2, RowsStay
  <2>2. CASE SkipScan(p)
    <3>1. /\ file.located /\ UNCHANGED <<file, upload, objects, outputs>>
          /\ job.status = "running"
      BY <2>2 DEF SkipScan, Readable, Holds
    <3>2. /\ job'.status = "running" /\ job'.stage = "parse" /\ job'.retry = job.retry
          /\ job'.error = job.error /\ job'.attempt = job.attempt
      BY <1>1, <2>2, <3>1, AtFields DEF SkipScan
    <3>3. QED
      BY <1>1, <3>1, <3>2
  <2>3. CASE FailScan(p)
    <3>1. /\ file.status = "validating" /\ file.scan = "pending"
          /\ UNCHANGED <<upload, objects, outputs>> /\ job.status = "running"
      BY <2>3 DEF FailScan, ScanAwaited, Holds
    <3>2. /\ job'.status = "failed" /\ job'.error = "HANDLER"
          /\ job'.retry => job.attempt < MaxAttempts
          /\ job'.attempt = job.attempt
      BY <1>1, <2>3, EndedFields DEF FailScan
    <3>3. exec[p].verdict \in Verdicts
      <4>1. exec[p].verdict # "none"
        BY <1>1, <2>3 DEF ExecsFit, ExecFits, FailScan, Idle
      <4>2. QED
        BY <1>1, <4>1 DEF TypeOK, ExecRecord
    <3>4. /\ file'.located = file.located /\ file'.scan = exec[p].verdict
          /\ file'.status = IF exec[p].verdict = "infected" THEN "rejected"
                                                            ELSE "validating"
      BY <1>1, <2>3 DEF FailScan, VerdictRow, Lifecycle!FileRecord
    <3>5. ~file.located
      BY <3>1, FileRow
    <3>6. RowFits'
      BY <3>2, <3>3, <3>4, <3>5 DEF Lifecycle!RowAllowed, Lifecycle!ScansOf, Verdicts
    <3>7. QED
      BY <1>1, <3>1, <3>2, <3>3, <3>4, <3>5, <3>6 DEF Verdicts
  <2>4. CASE CommitScan(p)
    <3>1. /\ file.status = "validating" /\ UNCHANGED <<upload, objects, outputs>>
          /\ job.status = "running"
      BY <2>4 DEF CommitScan, ScanAwaited, Holds
    <3>2. file' = [status |-> "stored", scan |-> "clean", located |-> TRUE]
      BY <2>4 DEF CommitScan, CleanRow
    <3>3. /\ job'.attempt = job.attempt /\ job'.error # "DISPATCH"
          /\ \/ /\ job'.status = "running" /\ job'.stage = "parse"
                /\ job'.retry = job.retry
             \/ job'.status = "succeeded" /\ ~job'.retry
      BY <1>1, <2>4, <3>1, AtFields, EndedFields DEF CommitScan
    <3>4. RowFits'
      BY <3>2, <3>3 DEF Lifecycle!RowAllowed, Lifecycle!ScansOf
    <3>5. QED
      BY <1>1, <3>1, <3>2, <3>3, <3>4, FileRow
  <2>5. QED
    BY <1>7, <2>1, <2>2, <2>3, <2>4 DEF ScanNext
<1>8. ASSUME NEW p \in Procs, ParseNext(p) \/ Drop(p) PROVE RowsInv'
  <2>1. UNCHANGED <<file, upload, objects>>
    BY <1>8
       DEF ParseNext, ReuseParse, Parse, CommitParse, FailParse, WriteMarkdown,
           FailMarkdown, Drop
  <2>2. OutputsFit'
    <3>1. CASE CommitParse(p)
      <4>1. outputs.parse = 0
        <5>1. exec[p].pc = "parsed" /\ exec[p].attempt = job.attempt /\ StoredClean
          BY <3>1 DEF CommitParse, Holds, Readable
        <5>2. QED
          BY <1>1, <5>1 DEF ExecsFit, ExecFits, Idle
      <4>2. file.located
        BY <3>1 DEF CommitParse, Readable
      <4>3. QED
        BY <1>1, <2>1, <3>1, <4>1, <4>2, ParseAdded
    <3>2. CASE WriteMarkdown(p)
      <4>1. outputs.parse > 0
        BY <1>1, <3>2 DEF ExecsFit, ExecFits, Idle, WriteMarkdown
      <4>2. QED
        BY <1>1, <2>1, <3>2, <4>1 DEF WriteMarkdown
    <3>3. CASE outputs' = outputs
      BY <1>1, <2>1, <3>3
    <3>4. QED
      BY <1>8, <3>1, <3>2, <3>3
         DEF ParseNext, ReuseParse, Parse, FailParse, FailMarkdown, Drop
  <2>3. CASE Parse(p) \/ Drop(p)
    BY <1>1, <2>1, <2>2, <2>3 DEF Parse, Drop
  <2>4. CASE ReuseParse(p) \/ CommitParse(p)
    <3>1. file.located /\ job.status = "running"
      BY <2>4, FileRow DEF ReuseParse, CommitParse, Readable, StoredClean, Holds
    <3>2. /\ job'.status = "running" /\ job'.stage = "markdown"
          /\ job'.retry = job.retry /\ job'.error = job.error
          /\ job'.attempt = job.attempt
      BY <1>1, <2>4, <3>1, AtFields DEF ReuseParse, CommitParse
    <3>3. QED
      BY <1>1, <2>1, <2>2, <3>1, <3>2
  <2>5. CASE FailParse(p) \/ WriteMarkdown(p) \/ FailMarkdown(p)
    <3>1. job.status = "running" /\ file.located
      <4>1. CASE FailParse(p)
        BY <4>1, FileRow DEF FailParse, StoredClean, Holds
      <4>2. CASE WriteMarkdown(p)
        BY <4>2, FileRow DEF WriteMarkdown, StoredClean, Holds
      <4>3. CASE FailMarkdown(p)
        BY <1>1, <4>3 DEF FailMarkdown, Holds, ExecsFit, ExecFits, Idle
      <4>4. QED
        BY <2>5, <4>1, <4>2, <4>3
    <3>2. /\ job'.status \in {"succeeded", "failed"} /\ job'.error # "DISPATCH"
          /\ job'.retry => job.attempt < MaxAttempts
          /\ job'.attempt = job.attempt
          /\ job'.status = "succeeded" => ~job'.retry
      BY <1>1, <2>5, EndedFields DEF FailParse, WriteMarkdown, FailMarkdown
    <3>3. file.status \in {"stored", "archived"} /\ file.scan = "clean"
      BY <3>1, FileRow
    <3>4. QED
      BY <1>1, <2>1, <2>2, <3>1, <3>2, <3>3
  <2>6. QED
    BY <1>8, <2>3, <2>4, <2>5 DEF ParseNext
<1>9. QED
  BY <1>2, <1>3, <1>4, <1>5, <1>6, <1>7, <1>8 DEF Next

-----------------------------------------------------------------------------
(****************************** Safety ************************************)

LEMMA InvInitially == Init => FileInv
<1> SUFFICES ASSUME Init PROVE FileInv
  OBVIOUS
<1>1. 0 \in 0..MaxAttempts
  OBVIOUS
<1>2. Idle \in ExecRecord
  BY <1>1 DEF Idle, ExecRecord
<1>3. file \in Lifecycle!FileRecord
  BY DEF Init, Lifecycle!NoFile, Lifecycle!FileRecord, Lifecycle!FileStatus,
     Lifecycle!ScanStatus
<1>4. job \in JobRecord
  BY <1>1 DEF Init, NoJob, JobRecord
<1>5. TypeOK
  BY <1>1, <1>2, <1>3, <1>4 DEF Init, TypeOK
<1>6. RowFits /\ JobFits /\ UploadFits /\ OutputsFit
  BY DEF Init, NoJob, Lifecycle!NoFile, RowFits, JobFits, UploadFits, OutputsFit,
     OneParse
<1>7. ExecsFit
  BY DEF Init, ExecsFit
<1>8. SourceKept /\ FileAgreesWithJob /\ PendingIsRecoverable
  BY DEF Init, NoJob, Lifecycle!NoFile, SourceKept, FileAgreesWithJob,
     PendingIsRecoverable
<1>9. QED
  BY <1>5, <1>6, <1>7, <1>8 DEF FileInv

\* The inductive invariant holds, whatever the faults.
THEOREM FileCorrect == Spec => []FileInv
<1>1. FileInv /\ [Next /\ UNCHANGED faults]_<<vars, faults>> => FileInv'
  <2> SUFFICES ASSUME FileInv, [Next /\ UNCHANGED faults]_<<vars, faults>>
               PROVE  FileInv'
    OBVIOUS
  <2>1. CASE Next /\ UNCHANGED faults
    BY <2>1, TypesKept, ExecsKept, RowsKept DEF FileInv, RowsInv
  <2>2. CASE UNCHANGED <<vars, faults>>
    BY <2>2
       DEF FileInv, vars, TypeOK, RowFits, JobFits, UploadFits, OutputsFit, OneParse,
           ExecsFit, ExecFits, StoredClean, SourceKept, FileAgreesWithJob,
           PendingIsRecoverable
  <2>3. QED
    BY <2>1, <2>2
<1>2. QED
  BY InvInitially, <1>1, PTL DEF Spec

\* Every variable keeps its type.
THEOREM FileTypesCorrect == Spec => []TypeOK
<1>1. FileInv => TypeOK
  BY DEF FileInv
<1>2. QED
  BY FileCorrect, <1>1, PTL

\* The late clean-up of an attempt never takes the quarantine copy of a file that
\* has not been found clean.
THEOREM SourcesAreKept == Spec => []SourceKept
<1>1. FileInv => SourceKept
  BY DEF FileInv
<1>2. QED
  BY FileCorrect, <1>1, PTL

\* The file and its lifetime job agree after every transaction.
THEOREM FileFollowsJob == Spec => []FileAgreesWithJob
<1>1. FileInv => FileAgreesWithJob
  BY DEF FileInv
<1>2. QED
  BY FileCorrect, <1>1, PTL

\* No file is left pending with its job over, dead-lettered dispatches excepted.
THEOREM NoScanIsForgotten == Spec => []PendingIsRecoverable
<1>1. FileInv => PendingIsRecoverable
  BY DEF FileInv
<1>2. QED
  BY FileCorrect, <1>1, PTL

\* Stalled attempts, lost replies and retries parse a file once.
THEOREM ParsedOnce == Spec => []OneParse
<1>1. FileInv => OneParse
  BY DEF FileInv, OutputsFit
<1>2. QED
  BY FileCorrect, <1>1, PTL

-----------------------------------------------------------------------------
(***************************** Refinement *********************************)

\* What a step writes to the row of the file.
LEMMA FileWrites ==
  ASSUME FileInv, Next
  PROVE  \/ file' = file
         \/ file = Lifecycle!NoFile /\ file' = Lifecycle!NewFile
         \/ /\ file.status \in {"uploaded", "validating"} /\ file.scan # "clean"
            /\ file'.located = file.located /\ file'.status # "absent"
         \/ file.status = "validating" /\ file.scan = "pending" /\ file' = CleanRow
         \/ /\ file.status = "stored" /\ file'.status = "archived"
            /\ file'.located = file.located
<1>1. file \in Lifecycle!FileRecord
  BY DEF FileInv, TypeOK
<1>2. CASE UploadNext
  <2>1. upload = "put" => file.status = "absent"
    BY DEF FileInv, UploadFits
  <2>2. QED
    BY <1>2, <2>1, FileRow
       DEF UploadNext, PutQuarantine, CommitUpload, AbortUpload, CompensateUpload
<1>3. CASE JobNext
  BY <1>1, <1>3
     DEF JobNext, RefuseMessage, DispatchDies, Requeue, TakeOver, GiveUp, ScanAwaited,
         Lifecycle!FileRecord
<1>4. CASE Archive \/ LeaseExpires
  BY <1>1, <1>4 DEF Archive, LeaseExpires, StoredClean, Lifecycle!FileRecord
<1>5. ASSUME NEW w \in Workers, Claim(w)
      PROVE  \/ file' = file
             \/ /\ file.status \in {"uploaded", "validating"} /\ file.scan # "clean"
                /\ file'.located = file.located /\ file'.status # "absent"
  BY <1>1, <1>5 DEF Claim, ClaimSource, Lifecycle!FileRecord
<1>6. ASSUME NEW p \in Procs, ScanNext(p)
      PROVE  \/ file' = file
             \/ /\ file.status \in {"uploaded", "validating"} /\ file.scan # "clean"
                /\ file'.located = file.located /\ file'.status # "absent"
             \/ file.status = "validating" /\ file.scan = "pending" /\ file' = CleanRow
  BY <1>1, <1>6
     DEF ScanNext, LoadSource, SkipScan, ReadAndScan, Promote, FailScan, CommitScan,
         AbandonScan, Compensate, CleanUp, ScanAwaited, VerdictRow,
         Lifecycle!FileRecord
<1>7. ASSUME NEW p \in Procs, ParseNext(p) \/ Drop(p) PROVE file' = file
  BY <1>7
     DEF ParseNext, ReuseParse, Parse, CommitParse, FailParse, WriteMarkdown,
         FailMarkdown, Drop
<1>8. QED
  BY <1>2, <1>3, <1>4, <1>5, <1>6, <1>7 DEF Next

\* Every write of the handlers, of recovery and of the services to the file's row
\* satisfies the constraints and the locator trigger of the table.
THEOREM RefinesFileLifecycle == Spec => ImplementsFileLifecycle
<1>1. Init => Lifecycle!Init
  BY DEF Init, Lifecycle!Init
<1>2. FileInv /\ FileInv' /\ [Next /\ UNCHANGED faults]_<<vars, faults>> =>
        [Lifecycle!Next]_file
  <2> SUFFICES ASSUME FileInv, FileInv', Next, file' # file
               PROVE  Lifecycle!Next
    BY DEF vars
  <2>1. CASE file = Lifecycle!NoFile /\ file' = Lifecycle!NewFile
    <3>1. Lifecycle!RowAllowed(file') /\ ~file'.located
      BY <2>1 DEF Lifecycle!NewFile, Lifecycle!RowAllowed, Lifecycle!ScansOf
    <3>2. QED
      BY <2>1, <3>1 DEF Lifecycle!Next, Lifecycle!Insert
  <2>2. CASE file.status # "absent" /\ file'.status # "absent"
    <3>1. Lifecycle!RowAllowed(file')
      BY <2>2 DEF FileInv, RowFits, Lifecycle!NoFile
    <3>2. Lifecycle!LocatorAllowed(file, file')
      BY <2>2, FileWrites DEF Lifecycle!LocatorAllowed, Lifecycle!NoFile, CleanRow
    <3>3. QED
      BY <2>2, <3>1, <3>2 DEF Lifecycle!Next, Lifecycle!Update
  <2>3. QED
    BY <2>1, <2>2, FileWrites DEF CleanRow
<1>3. QED
  BY <1>1, <1>2, FileCorrect, PTL DEF Spec, ImplementsFileLifecycle, Lifecycle!Spec

\* Attempts in flight add nothing to an archived file.
THEOREM ArchivedKept == Spec => ArchivedIsFrozen
<1>1. FileInv /\ [Next /\ UNCHANGED faults]_<<vars, faults>> =>
        [file.status = "archived" => UNCHANGED <<file, outputs>>]_vars
  <2> SUFFICES ASSUME FileInv, Next, file.status = "archived"
               PROVE  UNCHANGED <<file, outputs>>
    BY DEF vars
  <2>1. file' = file
    <3>1. file.scan = "clean" /\ file # Lifecycle!NoFile
      BY FileRow DEF Lifecycle!NoFile
    <3>2. QED
      BY <3>1, FileWrites
  <2>2. outputs' = outputs
    BY DEF Next, UploadNext, PutQuarantine, CommitUpload, AbortUpload,
       CompensateUpload, JobNext, RefuseMessage, DispatchDies, Requeue, TakeOver,
       GiveUp, Archive, LeaseExpires, Claim, ScanNext, LoadSource, SkipScan,
       ReadAndScan, Promote, FailScan, CommitScan, AbandonScan, Compensate, CleanUp,
       ParseNext, ReuseParse, Parse, CommitParse, FailParse, WriteMarkdown,
       FailMarkdown, Drop, Readable, StoredClean
  <2>3. QED
    BY <2>1, <2>2
<1>2. QED
  BY <1>1, FileCorrect, PTL DEF Spec, ArchivedIsFrozen

-----------------------------------------------------------------------------
(************************** Punctual executors ****************************)

(***************************************************************************)
(* Without faults one executor works at a time, for the attempt the job    *)
(* has reached and with its lease live, and those that are before the      *)
(* commit of a scan, or compensate, do not work on a stored file.          *)
(***************************************************************************)
BeforeStored == {"scanning", "scanned", "verdict", "promoted", "undoing"}

PunctualInv ==
  faults = {} =>
    /\ \A p \in Procs : exec[p] # Idle =>
         /\ exec[p].attempt = job.attempt
         /\ \/ job.status = "running" /\ job.lease = "live"
            \/ job.status = "succeeded" /\ ~FullProcess /\ exec[p].pc = "cleaning"
         /\ exec[p].pc \in BeforeStored => file.status # "stored"
         /\ exec[p].pc = "promoted" => "originals" \in objects
    /\ file.status = "stored" => "originals" \in objects

\* Punctual executors do not compete.
LEMMA OneWorks ==
  ASSUME FileInv, PunctualInv, faults = {}, NEW p \in Procs, exec[p] # Idle
  PROVE  \A q \in Procs \ {p} : exec[q] = Idle
BY DEF FileInv, ExecsFit, PunctualInv

LEMMA PunctualKept ==
  ASSUME FileInv, PunctualInv, Next, UNCHANGED faults
  PROVE  PunctualInv'
<1> SUFFICES ASSUME faults = {} PROVE PunctualInv'
  BY DEF PunctualInv
<1>1. /\ TypeOK /\ UploadFits /\ RowFits /\ JobFits /\ ExecsFit
      /\ file \in Lifecycle!FileRecord /\ job \in JobRecord
  BY DEF FileInv, TypeOK
<1>2. /\ \A p \in Procs : exec[p] # Idle =>
           /\ exec[p].attempt = job.attempt
           /\ \/ job.status = "running" /\ job.lease = "live"
              \/ job.status = "succeeded" /\ ~FullProcess /\ exec[p].pc = "cleaning"
           /\ exec[p].pc \in BeforeStored => file.status # "stored"
           /\ exec[p].pc = "promoted" => "originals" \in objects
      /\ file.status = "stored" => "originals" \in objects
  BY DEF PunctualInv
<1>3. CASE UploadNext
  <2>1. CASE PutQuarantine \/ CommitUpload
    <3>1. file.status = "absent" /\ job.status = "absent"
      BY <1>1, <2>1 DEF PutQuarantine, CommitUpload, UploadFits, RowFits
    <3>2. \A p \in Procs : exec'[p] = Idle
      BY <1>2, <2>1, <3>1 DEF PutQuarantine, CommitUpload
    <3>3. file'.status # "stored"
      BY <2>1, <3>1 DEF PutQuarantine, CommitUpload, Lifecycle!NewFile
    <3>4. QED
      BY <3>2, <3>3 DEF PunctualInv
  <2>2. CASE AbortUpload \/ CompensateUpload
    <3>1. /\ UNCHANGED <<file, job, exec>>
          /\ "originals" \in objects => "originals" \in objects'
      BY <2>2 DEF AbortUpload, CompensateUpload
    <3>2. QED
      BY <1>2, <3>1 DEF PunctualInv, FullProcess
  <2>3. QED
    BY <1>3, <2>1, <2>2 DEF UploadNext
<1>4. CASE RefuseMessage
  BY <1>2, <1>4 DEF RefuseMessage, PunctualInv, FullProcess
<1>5. CASE DispatchDies \/ Requeue \/ GiveUp \/ LeaseExpires
  <2>1. \A p \in Procs : exec[p] = Idle
    BY <1>2, <1>5
       DEF DispatchDies, Requeue, GiveUp, Recoverable, LeaseExpires, Alive
  <2>2. exec' = exec /\ objects' = objects
    BY <1>5 DEF DispatchDies, Requeue, GiveUp, LeaseExpires
  <2>3. file'.status = file.status
    BY <1>1, <1>5
       DEF DispatchDies, Requeue, GiveUp, LeaseExpires, Lifecycle!FileRecord
  <2>4. QED
    BY <1>2, <2>1, <2>2, <2>3 DEF PunctualInv
<1>6. CASE TakeOver
  <2>1. \A p \in Procs : exec[p] = Idle
    BY <1>2, <1>6 DEF TakeOver, Recoverable
  <2>2. /\ Maintenance \in Procs /\ job.attempt < MaxAttempts
        /\ job.attempt + 1 \in 0..MaxAttempts /\ job.start \in {"scan", "parse"}
    BY <1>1, <1>6 DEF TakeOver, Procs, JobRecord
  <2>3. /\ job'.status = "running" /\ job'.lease = "live"
        /\ job'.attempt = job.attempt + 1
    BY <1>1, <1>6, <2>2, RunningFields DEF TakeOver
  <2>4. /\ exec'[Maintenance].pc = "claimed"
        /\ exec'[Maintenance].attempt = job.attempt + 1
        /\ \A q \in Procs \ {Maintenance} : exec'[q] = exec[q]
    BY <1>1, <1>6, <2>2, StartsFields DEF TakeOver
  <2>5. QED
    BY <1>2, <1>6, <2>1, <2>2, <2>3, <2>4 DEF TakeOver, PunctualInv, BeforeStored
<1>7. CASE Archive
  <2>1. file'.status = "archived" /\ UNCHANGED <<job, exec, objects>>
    BY <1>1, <1>7 DEF Archive, Lifecycle!FileRecord
  <2>2. QED
    BY <1>2, <2>1 DEF PunctualInv, FullProcess
<1>8. ASSUME NEW w \in Workers, Claim(w) PROVE PunctualInv'
  <2>1. \A p \in Procs : exec[p] = Idle
    BY <1>2, <1>8 DEF Claim
  <2>2. /\ job.attempt < MaxAttempts /\ job.start \in {"scan", "parse"}
        /\ objects' = objects
    BY <1>1, <1>8 DEF Claim, JobFits, JobRecord
  <2>3. /\ w \in Procs /\ job.attempt + 1 \in 0..MaxAttempts
        /\ exec'[w].pc \in {"scanning", "parsing"}
        /\ exec'[w].attempt = job.attempt + 1
        /\ exec'[w].pc = "scanning" <=> job.start = "scan"
        /\ \A q \in Procs \ {w} : exec'[q] = exec[q]
    BY <1>1, <1>8, <2>2, ClaimWrites
  <2>4. /\ job'.status = "running" /\ job'.lease = "live"
        /\ job'.attempt = job.attempt + 1
    BY <1>1, <1>8, <2>2, <2>3, RunningFields DEF Claim
  <2>5. IF job.start = "scan" THEN file'.status = "validating" ELSE file' = file
    BY <1>1, <1>8 DEF Claim, Lifecycle!FileRecord
  <2>6. QED
    BY <1>2, <2>1, <2>2, <2>3, <2>4, <2>5 DEF PunctualInv, BeforeStored
<1>9. ASSUME NEW p \in Procs, ScanNext(p) \/ ParseNext(p) \/ Drop(p)
      PROVE  PunctualInv'
  <2>1. exec[p] # Idle
    <3>1. exec[p].pc # "idle" \/ Drop(p)
      BY <1>9
         DEF ScanNext, LoadSource, SkipScan, ReadAndScan, Promote, FailScan,
             CommitScan, AbandonScan, Compensate, CleanUp, ParseNext, ReuseParse,
             Parse, CommitParse, FailParse, WriteMarkdown, FailMarkdown
    <3>2. QED
      BY <3>1 DEF Drop, Idle
  <2>2. \A q \in Procs \ {p} : exec[q] = Idle
    BY <2>1, OneWorks
  <2>3. ASSUME NEW pc \in PCs, Goes(p, pc)
        PROVE  /\ \A q \in Procs \ {p} : exec'[q] = Idle
               /\ exec'[p].attempt = job.attempt /\ exec'[p].pc = pc
    BY <1>1, <1>2, <2>1, <2>2, <2>3, GoesFields
  <2>4. ASSUME NEW code \in Verdicts, Decides(p, code)
        PROVE  /\ \A q \in Procs \ {p} : exec'[q] = Idle
               /\ exec'[p].attempt = job.attempt /\ exec'[p].pc = "verdict"
    BY <1>1, <1>2, <2>1, <2>2, <2>4, DecidesFields
  <2>5. ASSUME Stops(p) PROVE \A q \in Procs : exec'[q] = Idle
    BY <1>1, <2>2, <2>5, StopsFields
  <2>6. /\ exec[p].pc # "cleaning" => job.status = "running" /\ job.lease = "live"
        /\ exec[p].pc = "cleaning" /\ FullProcess =>
             job.status = "running" /\ job.lease = "live"
    BY <1>2, <2>1
  <2>7. CASE LoadSource(p)
    <3>1. ~StoredClean => file.status # "stored"
      BY FileRow DEF StoredClean
    <3>2. \/ Goes(p, "parsing") \/ Goes(p, "skipping")
          \/ Goes(p, "scanning") /\ file.status # "stored"
      BY <2>7, <3>1 DEF LoadSource
    <3>3. /\ \A q \in Procs \ {p} : exec'[q] = Idle
          /\ exec'[p].attempt = job.attempt
          /\ exec'[p].pc \in {"parsing", "skipping", "scanning"}
          /\ exec'[p].pc = "scanning" => file.status # "stored"
      BY <2>3, <3>2 DEF PCs
    <3>4. UNCHANGED <<file, job, objects>> /\ exec[p].pc # "cleaning"
      BY <2>7 DEF LoadSource
    <3>5. QED
      BY <1>2, <2>6, <3>3, <3>4 DEF PunctualInv, BeforeStored
  <2>8. CASE ReadAndScan(p) \/ Promote(p) \/ AbandonScan(p)
    <3>1. /\ file.status # "stored" /\ UNCHANGED <<file, job>>
          /\ exec[p].pc # "cleaning"
      BY <1>2, <2>1, <2>8 DEF ReadAndScan, Promote, AbandonScan, BeforeStored
    <3>2. /\ \A q \in Procs \ {p} : exec'[q] = Idle
          /\ exec'[p].attempt = job.attempt
          /\ exec'[p].pc = "promoted" => "originals" \in objects'
      BY <2>3, <2>4, <2>8 DEF ReadAndScan, Promote, AbandonScan, PCs, Verdicts
    <3>3. QED
      BY <2>6, <3>1, <3>2 DEF PunctualInv
  <2>9. CASE FailScan(p)
    <3>1. file'.status # "stored"
      BY <1>1, <2>9 DEF FailScan, VerdictRow, Lifecycle!FileRecord
    <3>2. QED
      BY <2>5, <2>9, <3>1 DEF FailScan, PunctualInv
  <2>10. CASE CommitScan(p)
    <3>1. /\ \A q \in Procs \ {p} : exec'[q] = Idle
          /\ exec'[p].attempt = job.attempt /\ exec'[p].pc = "cleaning"
      BY <2>3, <2>10 DEF CommitScan, PCs
    <3>2. "originals" \in objects /\ objects' = objects
      BY <1>2, <2>1, <2>10 DEF CommitScan
    <3>3. /\ job'.attempt = job.attempt /\ job'.type = job.type
          /\ \/ job'.status = "running" /\ job'.lease = "live"
             \/ job'.status = "succeeded" /\ ~FullProcess
      BY <1>1, <2>10, AtFields, EndedFields DEF CommitScan, Holds
    <3>4. QED
      BY <3>1, <3>2, <3>3 DEF PunctualInv, BeforeStored, FullProcess
  <2>11. CASE Compensate(p)
    <3>1. file.status # "stored" /\ file' = file
      BY <1>2, <2>1, <2>11 DEF Compensate, BeforeStored
    <3>2. QED
      BY <2>5, <2>11, <3>1 DEF Compensate, PunctualInv
  <2>12. CASE CleanUp(p)
    <3>1. /\ UNCHANGED <<file, job>>
          /\ "originals" \in objects => "originals" \in objects'
      BY <2>12 DEF CleanUp
    <3>2. CASE FullProcess
      <4>1. /\ \A q \in Procs \ {p} : exec'[q] = Idle
            /\ exec'[p].attempt = job.attempt /\ exec'[p].pc = "parsing"
        BY <2>3, <2>12, <3>2 DEF CleanUp, PCs
      <4>2. QED
        BY <1>2, <2>6, <2>12, <3>1, <3>2, <4>1 DEF CleanUp, PunctualInv, BeforeStored
    <3>3. CASE ~FullProcess
      BY <1>2, <2>5, <2>12, <3>1, <3>3 DEF CleanUp, PunctualInv
    <3>4. QED
      BY <3>2, <3>3
  <2>13. CASE SkipScan(p) \/ ReuseParse(p) \/ CommitParse(p)
    <3>1. /\ \A q \in Procs \ {p} : exec'[q] = Idle
          /\ exec'[p].attempt = job.attempt /\ exec'[p].pc \in {"parsing", "writing"}
      BY <2>3, <2>13 DEF SkipScan, ReuseParse, CommitParse, PCs
    <3>2. /\ job'.status = "running" /\ job'.lease = "live"
          /\ job'.attempt = job.attempt /\ UNCHANGED <<file, objects>>
      BY <1>1, <2>13, AtFields DEF SkipScan, ReuseParse, CommitParse, Holds
    <3>3. QED
      BY <1>2, <3>1, <3>2 DEF PunctualInv, BeforeStored
  <2>14. CASE Parse(p)
    <3>1. /\ \A q \in Procs \ {p} : exec'[q] = Idle
          /\ exec'[p].attempt = job.attempt /\ exec'[p].pc \in {"parsed", "unparsed"}
      BY <2>3, <2>14 DEF Parse, PCs
    <3>2. UNCHANGED <<file, job, objects>> /\ exec[p].pc # "cleaning"
      BY <2>14 DEF Parse
    <3>3. QED
      BY <1>2, <2>6, <3>1, <3>2 DEF PunctualInv, BeforeStored
  <2>15. CASE FailParse(p) \/ WriteMarkdown(p) \/ FailMarkdown(p) \/ Drop(p)
    BY <1>2, <2>5, <2>15
       DEF FailParse, WriteMarkdown, FailMarkdown, Drop, PunctualInv
  <2>16. QED
    BY <1>9, <2>7, <2>8, <2>9, <2>10, <2>11, <2>12, <2>13, <2>14, <2>15
       DEF ScanNext, ParseNext
<1>10. QED
  BY <1>3, <1>4, <1>5, <1>6, <1>7, <1>8, <1>9 DEF Next, JobNext

\* As long as every living executor keeps its lease and every reply of a commit
\* arrives, a stored file has its original.
THEOREM OriginalsAreKept == Spec => []OriginalKeptWhenPunctual
<1>1. Init => PunctualInv
  BY DEF Init, PunctualInv, Lifecycle!NoFile
<1>2. FileInv /\ PunctualInv /\ [Next /\ UNCHANGED faults]_<<vars, faults>> =>
        PunctualInv'
  <2> SUFFICES ASSUME FileInv, PunctualInv,
                      [Next /\ UNCHANGED faults]_<<vars, faults>>
               PROVE  PunctualInv'
    OBVIOUS
  <2>1. CASE UNCHANGED <<vars, faults>>
    BY <2>1 DEF vars, PunctualInv, FullProcess
  <2>2. QED
    BY <2>1, PunctualKept
<1>3. PunctualInv => OriginalKeptWhenPunctual
  BY DEF PunctualInv, OriginalKeptWhenPunctual
<1>4. QED
  BY <1>1, <1>2, <1>3, FileCorrect, PTL DEF Spec

-----------------------------------------------------------------------------
(***************************** The job's row ******************************)

\* An attempt that runs has a number and a lease, and so has had one what is to
\* be tried again.
JobRowFits ==
  /\ job.status = "running" \/ job.retry => job.attempt > 0
  /\ job.status = "running" => job.lease # "none"

\* What a step writes to the columns of the job that its trigger looks at.
Ends(status) ==
  /\ job'.status = status /\ job'.attempt = job.attempt /\ job'.lease = "none"
  /\ job'.retry => job.attempt < MaxAttempts

JobWrites ==
  \/ job' = job
  \/ /\ job.status = "absent"
     /\ job'.status = "queued" /\ job'.attempt = 0 /\ ~job'.retry
  \/ /\ job.status = "queued" \/ (job.status = "running" /\ job.lease = "expired")
     /\ job.attempt < MaxAttempts
     /\ job'.status = "running" /\ job'.attempt = job.attempt + 1 /\ job'.lease = "live"
  \/ job.status = "queued" /\ Ends("failed") /\ ~job'.retry
  \/ /\ job.status = "running" /\ job.lease = "expired" /\ job.attempt = MaxAttempts
     /\ Ends("failed")
  \/ /\ job.status = "running" /\ job.lease = "live"
     /\ \/ Ends("succeeded") \/ Ends("failed")
        \/ /\ job'.status = "running" /\ job'.attempt = job.attempt
           /\ job'.lease = "live" /\ job'.retry = job.retry
  \/ job.status = "running" /\ job.lease = "live" /\ job' = [job EXCEPT !.lease = "expired"]
  \/ /\ job.status = "failed" /\ job.retry /\ job.attempt < MaxAttempts
     /\ job'.status = "queued" /\ job'.attempt = job.attempt /\ ~job'.retry

LEMMA JobWritten == ASSUME FileInv, Next PROVE JobWrites
<1> USE DEF JobWrites, Ends
<1>1. /\ TypeOK /\ job \in JobRecord /\ JobFits
      /\ file.status = "absent" <=> job.status = "absent"
  BY DEF FileInv, TypeOK, RowFits
<1>2. CASE UploadNext
  <2>1. CASE CommitUpload
    <3>1. job.status = "absent"
      BY <1>1, <2>1 DEF CommitUpload, FileInv, UploadFits
    <3>2. job'.status = "queued" /\ job'.attempt = 0 /\ ~job'.retry
      BY <2>1 DEF CommitUpload, NoJob
    <3>3. QED
      BY <3>1, <3>2
  <2>2. QED
    BY <1>2, <2>1 DEF UploadNext, PutQuarantine, AbortUpload, CompensateUpload
<1>3. CASE JobNext
  <2>1. CASE RefuseMessage
    BY <2>1 DEF RefuseMessage
  <2>2. CASE DispatchDies
    BY <1>1, <2>2, EndedFields DEF DispatchDies
  <2>3. CASE Requeue
    <3>1. job'.status = "queued" /\ job'.attempt = job.attempt /\ job'.retry = FALSE
      BY <1>1, <2>3 DEF Requeue, JobRecord
    <3>2. QED
      BY <1>1, <2>3, <3>1 DEF Requeue, JobFits
  <2>4. CASE TakeOver
    <3>1. job.attempt + 1 \in 0..MaxAttempts /\ job.start \in {"scan", "parse"}
      BY <1>1, <2>4 DEF TakeOver, JobRecord
    <3>2. QED
      BY <1>1, <2>4, <3>1, RunningFields DEF TakeOver, Recoverable
  <2>5. CASE GiveUp
    BY <1>1, <2>5, EndedFields DEF GiveUp, Recoverable
  <2>6. QED
    BY <1>3, <2>1, <2>2, <2>3, <2>4, <2>5 DEF JobNext
<1>4. CASE Archive \/ LeaseExpires
  BY <1>4 DEF Archive, LeaseExpires
<1>5. ASSUME NEW w \in Workers, Claim(w) PROVE JobWrites
  <2>1. job.status = "queued" /\ job.attempt < MaxAttempts
    BY <1>1, <1>5 DEF Claim, JobFits
  <2>2. job.attempt + 1 \in 0..MaxAttempts /\ job.start \in {"scan", "parse"}
    BY <1>1, <2>1 DEF JobRecord
  <2>3. QED
    BY <1>1, <1>5, <2>1, <2>2, RunningFields DEF Claim
<1>6. ASSUME NEW p \in Procs, ScanNext(p) PROVE JobWrites
  <2>1. CASE SkipScan(p)
    BY <1>1, <2>1, AtFields DEF SkipScan, Holds
  <2>2. CASE FailScan(p)
    BY <1>1, <2>2, EndedFields DEF FailScan, Holds
  <2>3. CASE CommitScan(p)
    <3>1. CASE FullProcess
      BY <1>1, <2>3, <3>1, AtFields DEF CommitScan, Holds
    <3>2. CASE ~FullProcess
      BY <1>1, <2>3, <3>2, EndedFields DEF CommitScan, Holds
    <3>3. QED
      BY <3>1, <3>2
  <2>4. QED
    BY <1>6, <2>1, <2>2, <2>3
       DEF ScanNext, LoadSource, ReadAndScan, Promote, AbandonScan, Compensate, CleanUp
<1>7. ASSUME NEW p \in Procs, ParseNext(p) PROVE JobWrites
  <2>1. CASE ReuseParse(p) \/ CommitParse(p)
    BY <1>1, <2>1, AtFields DEF ReuseParse, CommitParse, Holds
  <2>2. CASE FailParse(p)
    BY <1>1, <2>2, EndedFields DEF FailParse, Holds
  <2>3. CASE WriteMarkdown(p) \/ FailMarkdown(p)
    BY <1>1, <2>3, EndedFields DEF WriteMarkdown, FailMarkdown, Holds
  <2>4. QED
    BY <1>7, <2>1, <2>2, <2>3 DEF ParseNext, Parse
<1>8. ASSUME NEW p \in Procs, Drop(p) PROVE JobWrites
  BY <1>8 DEF Drop
<1>9. QED
  BY <1>2, <1>3, <1>4, <1>5, <1>6, <1>7, <1>8 DEF Next

LEMMA JobRowStays ==
  ASSUME FileInv, JobRowFits, JobWrites
  PROVE  JobRowFits'
<1>1. job \in JobRecord /\ (job.retry => job.status = "failed")
  BY DEF FileInv, TypeOK, JobFits
<1>2. QED
  BY <1>1 DEF JobRowFits, JobWrites, Ends, JobRecord

\* What JobWrites says is what the trigger accepts.
LEMMA JobRowAllowed ==
  ASSUME FileInv, JobRowFits, JobWrites
  PROVE  JobRow!Next \/ job' = job
<1>1. job \in JobRecord
  BY DEF FileInv, TypeOK
<1> QED
  BY <1>1
     DEF JobRecord, JobRowFits, JobWrites, Ends, JobRow!Next, JobRow!Moves,
         JobRow!SameAttempt, JobRow!NextAttempt, JobRow!Inserted, JobRow!Claimed,
         JobRow!DispatchFailed, JobRow!TakenOver, JobRow!Renewed, JobRow!Finished,
         JobRow!Retried, JobRow!LeaseEnds

\* The job of a file obeys its trigger, through upload, scan, parsing, retries at
\* another stage and takeovers (enforce_async_jobs_state_v1).
THEOREM RefinesJobRow == Spec => ImplementsJobRow
<1> DEFINE row == [status |-> job.status, attempt |-> job.attempt, lease |-> job.lease,
                   retry |-> job.retry]
<1>1. Init => JobRowFits /\ JobRow!Init
  BY DEF Init, JobRowFits, NoJob, JobRow!Init
<1>2. ASSUME FileInv, JobRowFits, [Next /\ UNCHANGED faults]_<<vars, faults>>
      PROVE  JobRowFits' /\ [JobRow!Next]_row
  <2>1. CASE UNCHANGED vars
    BY <1>2, <2>1 DEF vars, JobRowFits
  <2>2. CASE Next
    BY <1>2, <2>2, JobWritten, JobRowStays, JobRowAllowed
  <2>3. QED
    BY <1>2, <2>1, <2>2 DEF vars
<1>3. QED
  BY <1>1, <1>2, FileCorrect, PTL DEF Spec, ImplementsJobRow, JobRow!Spec
=============================================================================
