-------------------------- MODULE JobRuntimeProofs --------------------------
(***************************************************************************)
(* Safety of the job runtime for all values of its constants: the types,   *)
(* the invariants and action properties that MCJobRuntime checks on small  *)
(* instances, and the refinements of JobLifecycle and JobRowLifecycle.     *)
(***************************************************************************)
EXTENDS JobRuntime, TLAPS

(***************************************************************************)
(* The inductive invariant.  Its first part relates what the processes     *)
(* remember to the rows they remember it of.                               *)
(***************************************************************************)
RowOK(r) ==
  /\ r.status = "absent" => r = NoRow
  /\ r.status \in Active <=> r.lease # "none"
  /\ r.status \in Active => r.attempt_no \in Attempts /\ r.stage \in Stages
  /\ r.status = "failed" /\ r.retry =>
       /\ r.attempt_no \in 1..(MaxAttempts - 1)
       /\ r.error \in Lifecycle!RetryableCodes

ClaimOK(c) == c # NoClaim =>
  /\ c.job \in Jobs
  /\ c.attempt \in Attempts
  /\ c.attempt <= job[c.job].attempt_no

DispatchOK(d) == d.pc # "idle" =>
  d.job \in Jobs /\ d.seq \in Attempts /\ d.count \in 1..MaxDeliveries

JobsOK       == job \in [Jobs -> JobRecord] /\ \A j \in Jobs : RowOK(job[j])
ClaimsOK     == claim \in [Procs -> ClaimRecord] /\ \A p \in Procs : ClaimOK(claim[p])
DispatchesOK == /\ dispatch \in [Dispatchers -> DispatchRecord]
                /\ \A d \in Dispatchers : DispatchOK(dispatch[d])
StepsType    == step \in [Jobs -> [Attempts -> [Stages -> StepStatus]]]
EventsType   == outbox \in [Jobs -> [Attempts -> EventRecord]]
OthersType   == broker \subseteq Jobs \X Attempts /\ results \in [Jobs -> SUBSET Attempts]

RecordsOK ==
  JobsOK /\ ClaimsOK /\ DispatchesOK /\ StepsType /\ EventsType /\ OthersType

-----------------------------------------------------------------------------
(************************** Lemmas about rows *****************************)

USE JobRuntimeAssumption

\* What every row update of the runtime leaves of the record's type.
LEMMA RowUpdateTypes ==
  ASSUME NEW r \in JobRecord
  PROVE  /\ Bump(r) \in JobRecord
         /\ r.attempt_no < MaxAttempts => RunningRow(r) \in JobRecord
         /\ \A s \in Stages : AtStage(r, s) \in JobRecord
         /\ \A status \in {"succeeded", "failed", "cancelled"},
               error \in Lifecycle!ErrorCodes :
              EndedRow(r, status, error) \in JobRecord
         /\ \A error \in Lifecycle!ErrorCodes : FailedRow(r, error) \in JobRecord
         /\ \A s \in Stages : RequeuedRow(r, s) \in JobRecord
<1> USE DEF JobRecord, Lifecycle!JobRecord, Lifecycle!JobStatus,
            Lifecycle!Stages, Lifecycle!Leases, Stages
<1>1. Bump(r) \in JobRecord
  BY DEF Bump
<1>2. ASSUME r.attempt_no < MaxAttempts PROVE RunningRow(r) \in JobRecord
  <2>1. r.attempt_no + 1 \in 0..MaxAttempts
    BY <1>2
  <2>2. r.start \in 0..NumSteps
    OBVIOUS
  <2>3. QED
    BY <1>1, <2>1, <2>2 DEF RunningRow, Bump
<1>3. ASSUME NEW s \in Stages PROVE AtStage(r, s) \in JobRecord
  <2>1. s \in 0..NumSteps
    OBVIOUS
  <2>2. QED
    BY <1>1, <2>1 DEF AtStage
<1>4. ASSUME NEW status \in {"succeeded", "failed", "cancelled"},
             NEW error \in Lifecycle!ErrorCodes
      PROVE  EndedRow(r, status, error) \in JobRecord
  BY <1>1 DEF EndedRow
<1>7. ASSUME NEW error \in Lifecycle!ErrorCodes
      PROVE  FailedRow(r, error) \in JobRecord
  BY <1>4 DEF FailedRow
<1>5. ASSUME NEW s \in Stages PROVE RequeuedRow(r, s) \in JobRecord
  <2>1. 0 \in 0..NumSteps
    OBVIOUS
  <2>2. QED
    BY <1>1, <2>1 DEF RequeuedRow, Lifecycle!ErrorCodes
<1>6. QED
  BY <1>1, <1>2, <1>3, <1>4, <1>5, <1>7

\* The rows that do not exist and that were just inserted.
LEMMA NewRowTypes == NoRow \in JobRecord /\ QueuedRow \in JobRecord
<1> USE JobRuntimeAssumption
       DEF JobRecord, Lifecycle!JobRecord, NoRow, Lifecycle!NoRow,
           Lifecycle!JobStatus, Lifecycle!Stages, Lifecycle!Leases,
           Lifecycle!ErrorCodes
<1>1. NoRow \in JobRecord
  OBVIOUS
<1>2. QueuedRow \in JobRecord
  BY <1>1 DEF QueuedRow
<1>3. QED
  BY <1>1, <1>2

\* Ending or advancing a step keeps the table of steps well typed.
LEMMA StepUpdateTypes ==
  ASSUME StepsType, NEW j, NEW status \in StepStatus
  PROVE  /\ StepEnds(j, status) \in [Jobs -> [Attempts -> [Stages -> StepStatus]]]
         /\ StepAdvances(j, status) \in [Jobs -> [Attempts -> [Stages -> StepStatus]]]
BY DEF StepEnds, StepAdvances, StepStatus, StepsType

\* What the row updates write, field by field.
LEMMA RunningRowFields ==
  ASSUME NEW r \in JobRecord
  PROVE  /\ RunningRow(r).status = "running" /\ RunningRow(r).lease = "live"
         /\ RunningRow(r).attempt_no = r.attempt_no + 1
         /\ RunningRow(r).stage = r.start /\ RunningRow(r).start = r.start
         /\ RunningRow(r).row_version = r.row_version + 1
BY DEF JobRecord, Lifecycle!JobRecord, Bump, RunningRow

LEMMA AtStageFields ==
  ASSUME NEW r \in JobRecord, NEW s
  PROVE  /\ AtStage(r, s).status = r.status /\ AtStage(r, s).lease = "live"
         /\ AtStage(r, s).attempt_no = r.attempt_no /\ AtStage(r, s).stage = s
         /\ AtStage(r, s).start = r.start
         /\ AtStage(r, s).row_version = r.row_version + 1
BY DEF JobRecord, Lifecycle!JobRecord, Bump, AtStage

LEMMA EndedRowFields ==
  ASSUME NEW r \in JobRecord, NEW status, NEW error
  PROVE  /\ EndedRow(r, status, error).status = status
         /\ EndedRow(r, status, error).lease = "none"
         /\ EndedRow(r, status, error).error = error
         /\ ~ EndedRow(r, status, error).retry
         /\ EndedRow(r, status, error).attempt_no = r.attempt_no
         /\ EndedRow(r, status, error).start = r.start
         /\ EndedRow(r, status, error).stage = r.stage
         /\ EndedRow(r, status, error).row_version = r.row_version + 1
BY DEF JobRecord, Lifecycle!JobRecord, Bump, EndedRow

LEMMA FailedRowFields ==
  ASSUME NEW r \in JobRecord, NEW error
  PROVE  /\ FailedRow(r, error).status = "failed"
         /\ FailedRow(r, error).lease = "none"
         /\ FailedRow(r, error).error = error
         /\ FailedRow(r, error).retry <=> /\ error \in Lifecycle!RetryableCodes
                                        /\ r.attempt_no < MaxAttempts
         /\ FailedRow(r, error).attempt_no = r.attempt_no
         /\ FailedRow(r, error).start = r.start
         /\ FailedRow(r, error).stage = r.stage
         /\ FailedRow(r, error).row_version = r.row_version + 1
BY DEF JobRecord, Lifecycle!JobRecord, Bump, EndedRow, FailedRow

LEMMA RequeuedRowFields ==
  ASSUME NEW r \in JobRecord, NEW s
  PROVE  /\ RequeuedRow(r, s).status = "queued" /\ ~ RequeuedRow(r, s).retry
         /\ RequeuedRow(r, s).attempt_no = r.attempt_no
         /\ RequeuedRow(r, s).lease = r.lease
         /\ RequeuedRow(r, s).row_version = r.row_version + 1
BY DEF JobRecord, Lifecycle!JobRecord, Bump, RequeuedRow

-----------------------------------------------------------------------------
(************************* Records stay in step ***************************)

\* The updates keep the parts of a row in step with each other.
LEMMA RowUpdatesOK ==
  ASSUME NEW r \in JobRecord, RowOK(r)
  PROVE  /\ r.attempt_no < MaxAttempts => RowOK(RunningRow(r))
         /\ r.status \in Active => \A s \in Stages : RowOK(AtStage(r, s))
         /\ r.lease = "none" => \A s \in Stages : RowOK(RequeuedRow(r, s))
         /\ \A status \in {"succeeded", "failed", "cancelled"} : \A error :
              RowOK(EndedRow(r, status, error))
         /\ r.attempt_no \in Attempts => \A error : RowOK(FailedRow(r, error))
<1> USE DEF RowOK, Active
<1>1. ASSUME r.attempt_no < MaxAttempts PROVE RowOK(RunningRow(r))
  <2>1. r.attempt_no + 1 \in Attempts /\ r.start \in Stages
    BY <1>1 DEF Attempts, Stages, JobRecord, Lifecycle!JobRecord, Lifecycle!Stages
  <2>2. QED
    BY <2>1, RunningRowFields
<1>2. ASSUME r.status \in Active, NEW s \in Stages PROVE RowOK(AtStage(r, s))
  BY <1>2, AtStageFields
<1>3. ASSUME r.lease = "none", NEW s \in Stages PROVE RowOK(RequeuedRow(r, s))
  BY <1>3, RequeuedRowFields
<1>4. ASSUME NEW status \in {"succeeded", "failed", "cancelled"}, NEW error
      PROVE  RowOK(EndedRow(r, status, error))
  <2>1. /\ EndedRow(r, status, error).status = status
        /\ EndedRow(r, status, error).lease = "none"
        /\ ~ EndedRow(r, status, error).retry
    BY EndedRowFields
  <2>2. QED
    BY <2>1
<1>5. ASSUME r.attempt_no \in Attempts, NEW error PROVE RowOK(FailedRow(r, error))
  BY <1>5, FailedRowFields DEF Attempts
<1>6. QED
  BY <1>1, <1>2, <1>3, <1>4, <1>5

\* One row of async_jobs was written, and became r.
Wrote(j, r) ==
  /\ JobsOK'
  /\ job'[j] = r
  /\ \A i \in Jobs \ {j} : job'[i] = job[i]
  /\ \A i \in Jobs : job[i].attempt_no <= job'[i].attempt_no

LEMMA RowWrite ==
  ASSUME JobsOK, NEW j \in Jobs, NEW r \in JobRecord, RowOK(r),
         job[j].attempt_no <= r.attempt_no, job' = [job EXCEPT ![j] = r]
  PROVE  Wrote(j, r)
<1>1. job' \in [Jobs -> JobRecord] /\ job'[j] = r
  BY DEF JobsOK
<1>2. \A i \in Jobs \ {j} : job'[i] = job[i]
  BY DEF JobsOK
<1>3. \A i \in Jobs : RowOK(job'[i])
  BY <1>1, <1>2 DEF JobsOK
<1>4. \A i \in Jobs : job[i].attempt_no <= job'[i].attempt_no
  BY <1>1, <1>2 DEF JobsOK, JobRecord, Lifecycle!JobRecord
<1>5. QED
  BY <1>1, <1>2, <1>3, <1>4 DEF JobsOK, Wrote

LEMMA EndedWrite ==
  ASSUME JobsOK, NEW j \in Jobs, NEW status \in {"succeeded", "failed", "cancelled"},
         NEW error \in Lifecycle!ErrorCodes,
         job' = [job EXCEPT ![j] = EndedRow(job[j], status, error)]
  PROVE  Wrote(j, EndedRow(job[j], status, error))
<1>1. job[j] \in JobRecord /\ RowOK(job[j])
  BY DEF JobsOK
<1>2. EndedRow(job[j], status, error) \in JobRecord
  BY <1>1, RowUpdateTypes
<1>3. RowOK(EndedRow(job[j], status, error))
  BY <1>1, RowUpdatesOK
<1>4. job[j].attempt_no <= EndedRow(job[j], status, error).attempt_no
  BY <1>1, EndedRowFields DEF JobRecord, Lifecycle!JobRecord
<1>5. QED
  BY <1>2, <1>3, <1>4, RowWrite

LEMMA FailedWrite ==
  ASSUME JobsOK, NEW j \in Jobs, job[j].status \in Active,
         NEW error \in Lifecycle!ErrorCodes,
         job' = [job EXCEPT ![j] = FailedRow(job[j], error)]
  PROVE  Wrote(j, FailedRow(job[j], error))
<1>1. job[j] \in JobRecord /\ RowOK(job[j])
  BY DEF JobsOK
<1>2. job[j].attempt_no \in Attempts
  BY <1>1 DEF RowOK
<1>3. FailedRow(job[j], error) \in JobRecord
  BY <1>1, RowUpdateTypes
<1>4. RowOK(FailedRow(job[j], error))
  BY <1>1, <1>2, RowUpdatesOK
<1>5. job[j].attempt_no <= FailedRow(job[j], error).attempt_no
  BY <1>1, FailedRowFields DEF JobRecord, Lifecycle!JobRecord
<1>6. QED
  BY <1>3, <1>4, <1>5, RowWrite

LEMMA RunningWrite ==
  ASSUME JobsOK, NEW j \in Jobs, job[j].attempt_no < MaxAttempts,
         job' = [job EXCEPT ![j] = RunningRow(job[j])]
  PROVE  Wrote(j, RunningRow(job[j]))
<1>1. job[j] \in JobRecord /\ RowOK(job[j])
  BY DEF JobsOK
<1>2. RunningRow(job[j]) \in JobRecord
  BY <1>1, RowUpdateTypes
<1>3. RowOK(RunningRow(job[j]))
  BY <1>1, RowUpdatesOK
<1>4. job[j].attempt_no <= RunningRow(job[j]).attempt_no
  BY <1>1, RunningRowFields DEF JobRecord, Lifecycle!JobRecord
<1>5. QED
  BY <1>2, <1>3, <1>4, RowWrite

LEMMA AtStageWrite ==
  ASSUME JobsOK, NEW j \in Jobs, job[j].status \in Active, NEW s \in Stages,
         job' = [job EXCEPT ![j] = AtStage(job[j], s)]
  PROVE  Wrote(j, AtStage(job[j], s))
<1>1. job[j] \in JobRecord /\ RowOK(job[j])
  BY DEF JobsOK
<1>2. AtStage(job[j], s) \in JobRecord
  BY <1>1, RowUpdateTypes
<1>3. RowOK(AtStage(job[j], s))
  BY <1>1, RowUpdatesOK
<1>4. job[j].attempt_no <= AtStage(job[j], s).attempt_no
  BY <1>1, AtStageFields DEF JobRecord, Lifecycle!JobRecord
<1>5. QED
  BY <1>2, <1>3, <1>4, RowWrite

LEMMA RequeuedWrite ==
  ASSUME JobsOK, NEW j \in Jobs, job[j].status \notin Active, NEW s \in Stages,
         job' = [job EXCEPT ![j] = RequeuedRow(job[j], s)]
  PROVE  Wrote(j, RequeuedRow(job[j], s))
<1>1. job[j] \in JobRecord /\ RowOK(job[j])
  BY DEF JobsOK
<1>2. job[j].lease = "none"
  BY <1>1 DEF RowOK
<1>3. RequeuedRow(job[j], s) \in JobRecord
  BY <1>1, RowUpdateTypes
<1>4. RowOK(RequeuedRow(job[j], s))
  BY <1>1, <1>2, RowUpdatesOK
<1>5. job[j].attempt_no <= RequeuedRow(job[j], s).attempt_no
  BY <1>1, RequeuedRowFields DEF JobRecord, Lifecycle!JobRecord
<1>6. QED
  BY <1>3, <1>4, <1>5, RowWrite

\* The row of a new job, of a cancel request, and of a lease that ran out.
LEMMA InsertWrite ==
  ASSUME JobsOK, NEW j \in Jobs, job[j].status = "absent",
         job' = [job EXCEPT ![j] = QueuedRow]
  PROVE  Wrote(j, QueuedRow)
<1>1. RowOK(QueuedRow)
  BY DEF RowOK, QueuedRow, NoRow, Lifecycle!NoRow, Active
<1>2. job[j].attempt_no <= QueuedRow.attempt_no
  BY DEF JobsOK, RowOK, QueuedRow, NoRow, Lifecycle!NoRow
<1>3. QED
  BY <1>1, <1>2, NewRowTypes, RowWrite

LEMMA CancelWrite ==
  ASSUME JobsOK, NEW j \in Jobs, job[j].status = "running",
         job' = [job EXCEPT ![j] = [Bump(job[j]) EXCEPT !.status = "cancel_requested"]]
  PROVE  Wrote(j, [Bump(job[j]) EXCEPT !.status = "cancel_requested"])
<1> DEFINE r == [Bump(job[j]) EXCEPT !.status = "cancel_requested"]
<1>1. job[j] \in JobRecord /\ RowOK(job[j])
  BY DEF JobsOK
<1>2. r \in JobRecord
  <2>1. Bump(job[j]) \in JobRecord
    BY <1>1, RowUpdateTypes
  <2>2. QED
    BY <2>1 DEF JobRecord, Lifecycle!JobRecord, Lifecycle!JobStatus
<1>3. /\ r.status = "cancel_requested" /\ r.lease = job[j].lease
      /\ r.attempt_no = job[j].attempt_no /\ r.stage = job[j].stage
  BY <1>1 DEF JobRecord, Lifecycle!JobRecord, Bump
<1>4. RowOK(r)
  BY <1>1, <1>3 DEF RowOK, Active
<1>5. job[j].attempt_no <= r.attempt_no
  BY <1>1, <1>3 DEF JobRecord, Lifecycle!JobRecord
<1>6. QED
  BY <1>2, <1>4, <1>5, RowWrite

LEMMA LeaseWrite ==
  ASSUME JobsOK, NEW j \in Jobs, job[j].lease # "none",
         NEW lease \in {"expired", "graced"}, job' = [job EXCEPT ![j].lease = lease]
  PROVE  Wrote(j, [job[j] EXCEPT !.lease = lease])
<1> DEFINE r == [job[j] EXCEPT !.lease = lease]
<1>1. job[j] \in JobRecord /\ RowOK(job[j])
  BY DEF JobsOK
<1>2. r \in JobRecord
  BY <1>1 DEF JobRecord, Lifecycle!JobRecord, Lifecycle!Leases
<1>3. /\ r.status = job[j].status /\ r.lease = lease
      /\ r.attempt_no = job[j].attempt_no /\ r.stage = job[j].stage
  BY <1>1 DEF JobRecord, Lifecycle!JobRecord
<1>4. RowOK(r)
  BY <1>1, <1>3 DEF RowOK, Active
<1>5. job' = [job EXCEPT ![j] = r]
  BY DEF JobsOK
<1>6. job[j].attempt_no <= r.attempt_no
  BY <1>1, <1>3 DEF JobRecord, Lifecycle!JobRecord
<1>7. QED
  BY <1>2, <1>4, <1>5, <1>6, RowWrite

\* What the processes and the tables keep when they are not written, and what
\* the writes of claims, steps and events leave of them.
LEMMA ClaimsWrite ==
  ASSUME JobsOK, JobsOK', ClaimsOK,
         \A i \in Jobs : job[i].attempt_no <= job'[i].attempt_no
  PROVE  /\ claim' = claim => ClaimsOK'
         /\ \A p \in Procs : claim' = [claim EXCEPT ![p] = NoClaim] => ClaimsOK'
         /\ \A p \in Procs, c \in ClaimRecord :
              /\ c.job \in Jobs /\ c.attempt \in Attempts
              /\ c.attempt = job'[c.job].attempt_no
              /\ claim' = [claim EXCEPT ![p] = c]
              => ClaimsOK'
         /\ \A p \in Procs :
              claim[p] # NoClaim /\ claim' = [claim EXCEPT ![p].version = @ + 1]
              => ClaimsOK'
<1>1. ASSUME NEW c \in ClaimRecord, ClaimOK(c) PROVE ClaimOK(c)'
  BY <1>1 DEF ClaimOK, JobsOK, JobRecord, Lifecycle!JobRecord, ClaimRecord, Attempts
<1>2. ASSUME claim' = claim PROVE ClaimsOK'
  BY <1>1, <1>2 DEF ClaimsOK
<1>3. ASSUME NEW p \in Procs, NEW c \in ClaimRecord, ClaimOK(c)',
             claim' = [claim EXCEPT ![p] = c]
      PROVE  ClaimsOK'
  <2>1. claim' \in [Procs -> ClaimRecord]
    BY <1>3 DEF ClaimsOK
  <2>2. ASSUME NEW q \in Procs PROVE ClaimOK(claim[q])'
    BY <1>1, <1>3 DEF ClaimsOK
  <2>3. QED
    BY <2>1, <2>2 DEF ClaimsOK
<1>4. NoClaim \in ClaimRecord /\ ClaimOK(NoClaim)'
  BY DEF NoClaim, ClaimRecord, ClaimOK
<1>5. ASSUME NEW c \in ClaimRecord, c.job \in Jobs, c.attempt \in Attempts,
             c.attempt = job'[c.job].attempt_no
      PROVE  ClaimOK(c)'
  BY <1>5 DEF ClaimOK, Attempts
<1>6. ASSUME NEW p \in Procs, claim[p] # NoClaim,
             claim' = [claim EXCEPT ![p].version = @ + 1]
      PROVE  ClaimsOK'
  <2>1. PICK old \in ClaimRecord : old = claim[p]
    BY DEF ClaimsOK
  <2> DEFINE c == [old EXCEPT !.version = @ + 1]
  <2>2. c \in ClaimRecord
    BY DEF ClaimRecord
  <2>3. c.job = old.job /\ c.attempt = old.attempt
    BY DEF ClaimRecord
  <2>4. ClaimOK(old) /\ old # NoClaim
    BY <1>6, <2>1 DEF ClaimsOK
  <2>5. ClaimOK(old)'
    BY <1>1, <2>4
  <2>6. ClaimOK(c)'
    BY <2>3, <2>4, <2>5 DEF ClaimOK
  <2>7. claim' = [claim EXCEPT ![p] = c]
    BY <1>6, <2>1 DEF ClaimsOK
  <2>8. QED
    BY <1>3, <2>2, <2>6, <2>7
<1>7. QED
  BY <1>2, <1>3, <1>4, <1>5, <1>6

LEMMA EventWrite ==
  ASSUME EventsType, NEW j \in Jobs, NEW a \in Attempts, NEW e \in EventRecord,
         outbox' = [outbox EXCEPT ![j][a] = e]
  PROVE  /\ EventsType'
         /\ outbox'[j][a] = e
         /\ \A i \in Jobs, b \in Attempts :
              i # j \/ b # a => outbox'[i][b] = outbox[i][b]
BY DEF EventsType

LEMMA EventBecomesWrite ==
  ASSUME EventsType, NEW j \in Jobs, NEW a \in Attempts, NEW status \in EventStatus,
         outbox' = EventBecomes(j, a, status)
  PROVE  /\ EventsType'
         /\ outbox'[j][a].status = status
         /\ \A i \in Jobs, b \in Attempts :
              i # j \/ b # a => outbox'[i][b] = outbox[i][b]
<1>1. outbox[j][a] \in EventRecord
  BY DEF EventsType
<1>2. PICK e \in EventRecord :
        e = [outbox[j][a] EXCEPT !.status = status, !.due = FALSE]
  BY <1>1 DEF EventRecord
<1>3. e.status = status
  BY <1>1, <1>2 DEF EventRecord
<1>4. outbox' = [outbox EXCEPT ![j][a] = e]
  BY <1>2 DEF EventBecomes, EventsType
<1>5. EventsType' /\ outbox'[j][a] = e
  BY <1>4 DEF EventsType
<1>6. \A i \in Jobs, b \in Attempts : i # j \/ b # a => outbox'[i][b] = outbox[i][b]
  BY <1>4 DEF EventsType
<1>7. QED
  BY <1>3, <1>5, <1>6

LEMMA NothingWritten ==
  ASSUME RecordsOK
  PROVE  /\ job' = job => JobsOK' /\ \A i \in Jobs : job[i].attempt_no <= job'[i].attempt_no
         /\ dispatch' = dispatch => DispatchesOK'
         /\ step' = step => StepsType'
         /\ outbox' = outbox => EventsType'
         /\ broker' = broker /\ results' = results => OthersType'
BY DEF RecordsOK, JobsOK, JobRecord, Lifecycle!JobRecord, DispatchesOK, StepsType,
       EventsType, OthersType

\* The outcome of a broker call is noted.
LEMMA DispatchWrite ==
  ASSUME DispatchesOK, NEW d \in Dispatchers, dispatch[d].pc = "claimed",
         NEW code \in {"sent"} \cup DeliveryCodes,
         dispatch' = [dispatch EXCEPT ![d].pc = "called", ![d].outcome = code]
  PROVE  DispatchesOK'
<1>1. PICK old \in DispatchRecord : old = dispatch[d]
  BY DEF DispatchesOK
<1> DEFINE new == [old EXCEPT !.pc = "called", !.outcome = code]
<1>2. new \in DispatchRecord
  BY DEF DispatchRecord
<1>3. new.job = old.job /\ new.seq = old.seq /\ new.count = old.count
  BY DEF DispatchRecord
<1>4. DispatchOK(old) /\ old.pc # "idle"
  BY <1>1 DEF DispatchesOK
<1>5. DispatchOK(new)
  BY <1>3, <1>4 DEF DispatchOK
<1>6. dispatch' = [dispatch EXCEPT ![d] = new]
  BY <1>1 DEF DispatchesOK
<1>7. QED
  BY <1>2, <1>5, <1>6 DEF DispatchesOK, DispatchOK

LEMMA NewEventType == NewEvent \in EventRecord
BY DEF NewEvent, EventRecord, EventStatus

LEMMA RecordsStep == RecordsOK /\ [Next]_vars => RecordsOK'
<1> SUFFICES ASSUME RecordsOK, [Next]_vars PROVE RecordsOK'
  OBVIOUS
<1> USE DEF RecordsOK
<1>1. ASSUME NEW j \in Jobs, CreateJob(j) PROVE RecordsOK'
  <2>1. JobsOK' /\ \A i \in Jobs : job[i].attempt_no <= job'[i].attempt_no
    BY <1>1, InsertWrite DEF CreateJob, Wrote
  <2>2. EventsType'
    BY <1>1, NewEventType DEF CreateJob, EventsType, Attempts
  <2>3. ClaimsOK' /\ DispatchesOK' /\ StepsType' /\ OthersType'
    BY <1>1, <2>1, NothingWritten, ClaimsWrite DEF CreateJob
  <2>4. QED
    BY <2>1, <2>2, <2>3
<1>2. ASSUME NEW j \in Jobs, RequestCancel(j) PROVE RecordsOK'
  <2>1. JobsOK' /\ \A i \in Jobs : job[i].attempt_no <= job'[i].attempt_no
    BY <1>2, EndedWrite, CancelWrite DEF RequestCancel, Wrote, Lifecycle!ErrorCodes
  <2>2. ClaimsOK' /\ DispatchesOK' /\ StepsType' /\ EventsType' /\ OthersType'
    BY <1>2, <2>1, NothingWritten, ClaimsWrite DEF RequestCancel
  <2>3. QED
    BY <2>1, <2>2
<1>3. ASSUME NEW j \in Jobs, Requeue(j) PROVE RecordsOK'
  <2>1. JobsOK' /\ \A i \in Jobs : job[i].attempt_no <= job'[i].attempt_no
    BY <1>3, RequeuedWrite DEF Requeue, Retryable, Active, Wrote
  <2>2. EventsType'
    BY <1>3, NewEventType DEF Requeue, Retryable, EventsType
  <2>3. ClaimsOK' /\ DispatchesOK' /\ StepsType' /\ OthersType'
    BY <1>3, <2>1, NothingWritten, ClaimsWrite DEF Requeue
  <2>4. QED
    BY <2>1, <2>2, <2>3
<1>4. ASSUME NEW j \in Jobs, TakeOver(j) PROVE RecordsOK'
  <2>1. Wrote(j, RunningRow(job[j]))
    BY <1>4, RunningWrite DEF TakeOver, AttemptsLeft
  <2>2. JobsOK' /\ \A i \in Jobs : job[i].attempt_no <= job'[i].attempt_no
    BY <2>1 DEF Wrote
  <2>3. job'[j].attempt_no = job[j].attempt_no + 1 /\ job[j].attempt_no + 1 \in Attempts
    BY <1>4, <2>1, RunningRowFields
       DEF Wrote, JobsOK, TakeOver, AttemptsLeft, Attempts, JobRecord, Lifecycle!JobRecord
  <2>4. [job |-> j, attempt |-> job[j].attempt_no + 1,
         version |-> job[j].row_version + 1] \in ClaimRecord
    BY <2>3 DEF ClaimRecord, Attempts, JobsOK, JobRecord, Lifecycle!JobRecord
  <2>5. ClaimsOK'
    BY <1>4, <2>2, <2>3, <2>4, ClaimsWrite DEF TakeOver, Procs
  <2>6. StepsType'
    <3>1. StepEnds(j, "failed") \in [Jobs -> [Attempts -> [Stages -> StepStatus]]]
      BY StepUpdateTypes DEF StepStatus
    <3>2. QED
      BY <1>4, <3>1 DEF TakeOver, StepsType, StepStatus
  <2>7. DispatchesOK' /\ EventsType' /\ OthersType'
    BY <1>4, <2>2, NothingWritten DEF TakeOver
  <2>8. QED
    BY <2>1, <2>2, <2>3, <2>4, <2>5, <2>6, <2>7
<1>5. ASSUME NEW j \in Jobs, GiveUpLost(j) PROVE RecordsOK'
  <2>1. JobsOK' /\ \A i \in Jobs : job[i].attempt_no <= job'[i].attempt_no
    BY <1>5, EndedWrite DEF GiveUpLost, Wrote, Lifecycle!ErrorCodes
  <2>2. StepsType'
    BY <1>5, StepUpdateTypes DEF GiveUpLost, StepsType, StepStatus
  <2>3. ClaimsOK' /\ DispatchesOK' /\ EventsType' /\ OthersType'
    BY <1>5, <2>1, NothingWritten, ClaimsWrite DEF GiveUpLost
  <2>4. QED
    BY <2>1, <2>2, <2>3
<1>6. ASSUME NEW j \in Jobs, LeaseExpires(j) PROVE RecordsOK'
  <2>1. JobsOK' /\ \A i \in Jobs : job[i].attempt_no <= job'[i].attempt_no
    BY <1>6, LeaseWrite DEF LeaseExpires, Wrote
  <2>2. ClaimsOK' /\ DispatchesOK' /\ StepsType' /\ EventsType' /\ OthersType'
    BY <1>6, <2>1, NothingWritten, ClaimsWrite DEF LeaseExpires
  <2>3. QED
    BY <2>1, <2>2
<1>7. ASSUME NEW j \in Jobs, GraceElapses(j) PROVE RecordsOK'
  <2>1. JobsOK' /\ \A i \in Jobs : job[i].attempt_no <= job'[i].attempt_no
    BY <1>7, LeaseWrite DEF GraceElapses, Wrote
  <2>2. ClaimsOK' /\ DispatchesOK' /\ StepsType' /\ EventsType' /\ OthersType'
    BY <1>7, <2>1, NothingWritten, ClaimsWrite DEF GraceElapses
  <2>3. QED
    BY <2>1, <2>2
<1>8. ASSUME NEW d \in Dispatchers, ClaimNextOutbox(d) PROVE RecordsOK'
  <2>1. JobsOK' /\ \A i \in Jobs : job[i].attempt_no <= job'[i].attempt_no
    BY <1>8, NothingWritten DEF ClaimNextOutbox
  <2>2. DispatchesOK'
    <3>1. PICK j \in Jobs, a \in Attempts :
            /\ outbox[j][a].count < MaxDeliveries
            /\ dispatch' = [dispatch EXCEPT ![d] =
                             [pc |-> "claimed", job |-> j, seq |-> a,
                              count |-> outbox[j][a].count + 1,
                              planned |-> job[j].attempt_no + 1,
                              outcome |-> "none"]]
      BY <1>8 DEF ClaimNextOutbox
    <3>2. outbox[j][a].count + 1 \in 1..MaxDeliveries
      BY <3>1 DEF EventsType, EventRecord
    <3>3. job[j].attempt_no + 1 \in 0..MaxAttempts + 1
      BY DEF JobsOK, JobRecord, Lifecycle!JobRecord
    <3>4. [pc |-> "claimed", job |-> j, seq |-> a, count |-> outbox[j][a].count + 1,
           planned |-> job[j].attempt_no + 1, outcome |-> "none"] \in DispatchRecord
      BY <3>2, <3>3 DEF DispatchRecord, Attempts
    <3>5. QED
      BY <3>1, <3>2, <3>4 DEF DispatchesOK, DispatchOK
  <2>3. EventsType'
    BY <1>8 DEF ClaimNextOutbox, EventsType, EventRecord, EventStatus
  <2>4. ClaimsOK' /\ StepsType' /\ OthersType'
    BY <1>8, <2>1, NothingWritten, ClaimsWrite DEF ClaimNextOutbox
  <2>5. QED
    BY <2>1, <2>2, <2>3, <2>4
<1>9. ASSUME NEW d \in Dispatchers, RejectRoute(d) PROVE RecordsOK'
  <2>1. JobsOK' /\ \A i \in Jobs : job[i].attempt_no <= job'[i].attempt_no
    BY <1>9, NothingWritten DEF RejectRoute
  <2>2. DispatchesOK'
    BY <1>9, DispatchWrite DEF RejectRoute, DispatchesOK, DeliveryCodes
  <2>3. ClaimsOK' /\ StepsType' /\ EventsType' /\ OthersType'
    BY <1>9, <2>1, NothingWritten, ClaimsWrite DEF RejectRoute
  <2>4. QED
    BY <2>1, <2>2, <2>3
<1>10. ASSUME NEW d \in Dispatchers, Publish(d) PROVE RecordsOK'
  <2>1. JobsOK' /\ \A i \in Jobs : job[i].attempt_no <= job'[i].attempt_no
    BY <1>10, NothingWritten DEF Publish
  <2>2. DispatchesOK'
    BY <1>10
       DEF Publish, DispatchesOK, DispatchOK, DispatchRecord, DeliveryCodes,
           RecoverableCodes
  <2>3. OthersType'
    BY <1>10 DEF Publish, OthersType, DispatchesOK, DispatchOK
  <2>4. ClaimsOK' /\ StepsType' /\ EventsType'
    BY <1>10, <2>1, NothingWritten, ClaimsWrite DEF Publish
  <2>5. QED
    BY <2>1, <2>2, <2>3, <2>4
<1>11. ASSUME NEW d \in Dispatchers, MarkPublished(d) PROVE RecordsOK'
  <2>1. JobsOK' /\ \A i \in Jobs : job[i].attempt_no <= job'[i].attempt_no
    BY <1>11, NothingWritten DEF MarkPublished
  <2>2. DispatchesOK'
    BY <1>11 DEF MarkPublished, DispatchesOK, DispatchOK, DispatchRecord, NoDispatch
  <2>3. EventsType'
    BY <1>11, EventBecomesWrite, NothingWritten
       DEF MarkPublished, DispatchesOK, DispatchOK, EventStatus
  <2>4. ClaimsOK' /\ StepsType' /\ OthersType'
    BY <1>11, <2>1, NothingWritten, ClaimsWrite DEF MarkPublished
  <2>5. QED
    BY <2>1, <2>2, <2>3, <2>4
<1>12. ASSUME NEW d \in Dispatchers, MarkFailure(d) PROVE RecordsOK'
  <2>1. dispatch[d].job \in Jobs /\ dispatch[d].seq \in Attempts
    BY <1>12 DEF MarkFailure, DispatchesOK, DispatchOK
  <2>2. JobsOK' /\ \A i \in Jobs : job[i].attempt_no <= job'[i].attempt_no
    BY <1>12, <2>1, EndedWrite, NothingWritten
       DEF MarkFailure, FailDelivery, Wrote, Lifecycle!ErrorCodes, DispatchesOK, DispatchOK
  <2>3. DispatchesOK'
    BY <1>12 DEF MarkFailure, DispatchesOK, DispatchOK, DispatchRecord, NoDispatch
  <2>4. EventsType'
    BY <1>12, <2>1, EventBecomesWrite, NothingWritten
       DEF MarkFailure, FailDelivery, DispatchesOK, DispatchOK, EventStatus
  <2>5. ClaimsOK' /\ StepsType' /\ OthersType'
    BY <1>12, <2>2, NothingWritten, ClaimsWrite DEF MarkFailure
  <2>6. QED
    BY <2>1, <2>2, <2>3, <2>4, <2>5
<1>13. ASSUME NEW d \in Dispatchers, ReapExpired(d) PROVE RecordsOK'
  <2>1. JobsOK' /\ \A i \in Jobs : job[i].attempt_no <= job'[i].attempt_no
    BY <1>13, EndedWrite, NothingWritten
       DEF ReapExpired, FailDelivery, Wrote, Lifecycle!ErrorCodes
  <2>2. EventsType'
    BY <1>13, EventBecomesWrite DEF ReapExpired, FailDelivery, EventStatus
  <2>3. ClaimsOK' /\ DispatchesOK' /\ StepsType' /\ OthersType'
    BY <1>13, <2>1, NothingWritten, ClaimsWrite DEF ReapExpired
  <2>4. QED
    BY <2>1, <2>2, <2>3
<1>14. ASSUME NEW d \in Dispatchers, DispatcherCrash(d) PROVE RecordsOK'
  <2>1. JobsOK' /\ \A i \in Jobs : job[i].attempt_no <= job'[i].attempt_no
    BY <1>14, NothingWritten DEF DispatcherCrash
  <2>2. DispatchesOK'
    BY <1>14 DEF DispatcherCrash, DispatchesOK, DispatchOK, DispatchRecord, NoDispatch
  <2>3. ClaimsOK' /\ StepsType' /\ EventsType' /\ OthersType'
    BY <1>14, <2>1, NothingWritten, ClaimsWrite DEF DispatcherCrash
  <2>4. QED
    BY <2>1, <2>2, <2>3
<1>15. ASSUME NEW w \in Workers, NEW j \in Jobs, NEW a \in Attempts, ClaimJob(w, j, a) PROVE RecordsOK'
  <2>1. job[j].attempt_no < MaxAttempts /\ a = job[j].attempt_no + 1
    BY <1>15 DEF ClaimJob, ClaimAllowed, Attempts, JobsOK, JobRecord, Lifecycle!JobRecord
  <2>2. Wrote(j, RunningRow(job[j]))
    BY <1>15, <2>1, RunningWrite DEF ClaimJob
  <2>3. JobsOK' /\ \A i \in Jobs : job[i].attempt_no <= job'[i].attempt_no
    BY <2>2 DEF Wrote
  <2>4. job'[j].attempt_no = a
    BY <2>1, <2>2, RunningRowFields DEF Wrote, JobsOK
  <2>5. [job |-> j, attempt |-> a, version |-> job[j].row_version + 1] \in ClaimRecord
    BY DEF ClaimRecord, Attempts, JobsOK, JobRecord, Lifecycle!JobRecord
  <2>6. ClaimsOK'
    BY <1>15, <2>3, <2>4, <2>5, ClaimsWrite DEF ClaimJob, Procs
  <2>7. StepsType'
    BY <1>15 DEF ClaimJob, StepsType, StepStatus
  <2>8. DispatchesOK' /\ EventsType' /\ OthersType'
    BY <1>15, <2>3, NothingWritten DEF ClaimJob
  <2>9. QED
    BY <2>1, <2>2, <2>3, <2>4, <2>5, <2>6, <2>7, <2>8
<1>16. ASSUME NEW w \in Workers, NEW j \in Jobs, NEW a \in Attempts, RejectDelivery(w, j, a) PROVE RecordsOK'
  <2>1. JobsOK' /\ \A i \in Jobs : job[i].attempt_no <= job'[i].attempt_no
    BY <1>16, NothingWritten DEF RejectDelivery
  <2>2. OthersType'
    BY <1>16 DEF RejectDelivery, OthersType
  <2>3. ClaimsOK' /\ DispatchesOK' /\ StepsType' /\ EventsType'
    BY <1>16, <2>1, NothingWritten, ClaimsWrite DEF RejectDelivery
  <2>4. QED
    BY <2>1, <2>2, <2>3
<1>17. ASSUME NEW p \in Procs, Heartbeat(p) PROVE RecordsOK'
  <2>1. claim[p].job \in Jobs /\ job[claim[p].job].stage \in Stages
    BY <1>17 DEF Heartbeat, Fenced, LeaseHeld, ClaimsOK, ClaimOK, JobsOK, RowOK
  <2>2. JobsOK' /\ \A i \in Jobs : job[i].attempt_no <= job'[i].attempt_no
    BY <1>17, <2>1, AtStageWrite DEF Heartbeat, Wrote
  <2>3. ClaimsOK'
    BY <1>17, <2>2, ClaimsWrite DEF Heartbeat, Fenced, LeaseHeld
  <2>4. DispatchesOK' /\ StepsType' /\ EventsType' /\ OthersType'
    BY <1>17, <2>2, NothingWritten DEF Heartbeat
  <2>5. QED
    BY <2>1, <2>2, <2>3, <2>4
<1>18. ASSUME NEW p \in Procs, AdvanceStep(p) PROVE RecordsOK'
  <2>1. claim[p].job \in Jobs /\ job[claim[p].job].stage + 1 \in Stages
    BY <1>18
       DEF AdvanceStep, Fenced, LeaseHeld, ClaimsOK, ClaimOK, JobsOK, RowOK, Active, Stages
  <2>2. JobsOK' /\ \A i \in Jobs : job[i].attempt_no <= job'[i].attempt_no
    BY <1>18, <2>1, AtStageWrite DEF AdvanceStep, Wrote, Active
  <2>3. ClaimsOK'
    BY <1>18, <2>2, ClaimsWrite DEF AdvanceStep, Fenced, LeaseHeld
  <2>4. StepsType'
    BY <1>18, StepUpdateTypes DEF AdvanceStep, StepsType, StepStatus
  <2>5. DispatchesOK' /\ EventsType' /\ OthersType'
    BY <1>18, <2>2, NothingWritten DEF AdvanceStep
  <2>6. QED
    BY <2>1, <2>2, <2>3, <2>4, <2>5
<1>19. ASSUME NEW p \in Procs, Succeed(p) PROVE RecordsOK'
  <2>1. claim[p].job \in Jobs
    BY <1>19 DEF Succeed, Fenced, LeaseHeld, ClaimsOK, ClaimOK, JobsOK, RowOK
  <2>2. JobsOK' /\ \A i \in Jobs : job[i].attempt_no <= job'[i].attempt_no
    BY <1>19, <2>1, EndedWrite DEF Succeed, Wrote, Lifecycle!ErrorCodes
  <2>3. ClaimsOK'
    BY <1>19, <2>2, ClaimsWrite DEF Succeed
  <2>4. StepsType'
    BY <1>19, StepUpdateTypes DEF Succeed, StepsType, StepStatus
  <2>5. OthersType'
    BY <1>19 DEF Succeed, OthersType, Fenced, LeaseHeld, ClaimsOK, ClaimOK
  <2>6. DispatchesOK' /\ EventsType'
    BY <1>19, <2>2, NothingWritten DEF Succeed
  <2>7. QED
    BY <2>1, <2>2, <2>3, <2>4, <2>5, <2>6
<1>20. ASSUME NEW p \in Procs, Fail(p) PROVE RecordsOK'
  <2>1. claim[p].job \in Jobs
    BY <1>20 DEF Fail, Fenced, LeaseHeld, ClaimsOK, ClaimOK, JobsOK, RowOK
  <2>2. JobsOK' /\ \A i \in Jobs : job[i].attempt_no <= job'[i].attempt_no
    BY <1>20, <2>1, FailedWrite DEF Fail, Wrote, Active, Lifecycle!ErrorCodes
  <2>3. ClaimsOK'
    BY <1>20, <2>2, ClaimsWrite DEF Fail
  <2>4. StepsType'
    BY <1>20, StepUpdateTypes DEF Fail, StepsType, StepStatus
  <2>5. DispatchesOK' /\ EventsType' /\ OthersType'
    BY <1>20, <2>2, NothingWritten DEF Fail
  <2>6. QED
    BY <2>1, <2>2, <2>3, <2>4, <2>5
<1>21. ASSUME NEW p \in Procs, FinishCancel(p) PROVE RecordsOK'
  <2>1. claim[p].job \in Jobs
    BY <1>21 DEF FinishCancel, ClaimsOK, ClaimOK, JobsOK, RowOK
  <2>2. JobsOK' /\ \A i \in Jobs : job[i].attempt_no <= job'[i].attempt_no
    BY <1>21, <2>1, EndedWrite DEF FinishCancel, Wrote, Lifecycle!ErrorCodes
  <2>3. ClaimsOK'
    BY <1>21, <2>2, ClaimsWrite DEF FinishCancel
  <2>4. StepsType'
    BY <1>21, StepUpdateTypes DEF FinishCancel, StepsType, StepStatus
  <2>5. DispatchesOK' /\ EventsType' /\ OthersType'
    BY <1>21, <2>2, NothingWritten DEF FinishCancel
  <2>6. QED
    BY <2>1, <2>2, <2>3, <2>4, <2>5
<1>22. ASSUME NEW p \in Procs, Drop(p) PROVE RecordsOK'
  <2>1. JobsOK' /\ \A i \in Jobs : job[i].attempt_no <= job'[i].attempt_no
    BY <1>22, NothingWritten DEF Drop
  <2>2. ClaimsOK'
    BY <1>22, <2>1, ClaimsWrite DEF Drop
  <2>3. DispatchesOK' /\ StepsType' /\ EventsType' /\ OthersType'
    BY <1>22, <2>1, NothingWritten DEF Drop
  <2>4. QED
    BY <2>1, <2>2, <2>3
<1>23. ASSUME NEW j \in Jobs, NEW a \in Attempts, EventFallsDue(j, a) PROVE RecordsOK'
  <2>1. JobsOK' /\ \A i \in Jobs : job[i].attempt_no <= job'[i].attempt_no
    BY <1>23, NothingWritten DEF EventFallsDue
  <2>2. EventsType'
    <3>1. outbox[j][a] \in EventRecord
      BY DEF EventsType
    <3>2. [outbox[j][a] EXCEPT !.due = TRUE] \in EventRecord
      BY <3>1 DEF EventRecord
    <3>3. outbox' = [outbox EXCEPT ![j][a] = [outbox[j][a] EXCEPT !.due = TRUE]]
      BY <1>23 DEF EventFallsDue, EventsType
    <3>4. QED
      BY <3>2, <3>3 DEF EventsType
  <2>3. ClaimsOK' /\ DispatchesOK' /\ StepsType' /\ OthersType'
    BY <1>23, <2>1, NothingWritten, ClaimsWrite DEF EventFallsDue
  <2>4. QED
    BY <2>1, <2>2, <2>3
<1>24. ASSUME NEW j \in Jobs, NEW a \in Attempts, BrokerLoses(j, a) PROVE RecordsOK'
  <2>1. JobsOK' /\ \A i \in Jobs : job[i].attempt_no <= job'[i].attempt_no
    BY <1>24, NothingWritten DEF BrokerLoses
  <2>2. OthersType'
    BY <1>24 DEF BrokerLoses, OthersType
  <2>3. ClaimsOK' /\ DispatchesOK' /\ StepsType' /\ EventsType'
    BY <1>24, <2>1, NothingWritten, ClaimsWrite DEF BrokerLoses
  <2>4. QED
    BY <2>1, <2>2, <2>3
<1>25. CASE UNCHANGED vars
  BY <1>25, NothingWritten, ClaimsWrite DEF vars
<1>26. QED
  BY <1>1, <1>2, <1>3, <1>4, <1>5, <1>6, <1>7, <1>8, <1>9, <1>10, <1>11, <1>12, <1>13,
     <1>14, <1>15, <1>16, <1>17, <1>18, <1>19, <1>20, <1>21, <1>22, <1>23, <1>24, <1>25
     DEF Next, DispatcherNext, Deliver, ExecutorNext, JobNext, EventNext

\* The types of all variables, for every value of the constants, and the
\* records of the processes in step with the rows they are about.
LEMMA RecordsInit == Init => RecordsOK
<1> SUFFICES ASSUME Init PROVE RecordsOK
  OBVIOUS
<1>1. JobsOK
  BY NewRowTypes DEF Init, JobsOK, RowOK, NoRow, Lifecycle!NoRow, Active
<1>2. ClaimsOK /\ DispatchesOK
  BY DEF Init, ClaimsOK, ClaimOK, ClaimRecord, NoClaim, DispatchesOK, DispatchOK,
         DispatchRecord, NoDispatch
<1>3. StepsType /\ EventsType /\ OthersType
  BY DEF Init, StepsType, StepStatus, EventsType, EventRecord, EventStatus, NoEvent,
         OthersType
<1>4. QED
  BY <1>1, <1>2, <1>3 DEF RecordsOK

THEOREM RecordsCorrect == Spec => []RecordsOK
BY RecordsInit, RecordsStep, PTL DEF Spec

\* Every variable of the runtime keeps its type.
THEOREM TypeCorrect == Spec => []TypeOK
<1>1. RecordsOK => TypeOK
  BY DEF RecordsOK, TypeOK, JobsOK, ClaimsOK, DispatchesOK, StepsType, EventsType,
         OthersType
<1>2. QED
  BY <1>1, RecordsCorrect, PTL

-----------------------------------------------------------------------------
(********************** Refinement of JobLifecycle ************************)

\* One row made a transition of the lifecycle; the others are as they were.
OneTransition(j) ==
  Lifecycle!Transition(j) /\ \A i \in Jobs \ {j} : job'[i] = job[i]

\* No statement of the repository or the services is refused by the trigger.
LEMMA LifecycleStep ==
  RecordsOK /\ [Next]_vars => [Lifecycle!Next]_job
<1> SUFFICES ASSUME RecordsOK, Next PROVE Lifecycle!Next \/ UNCHANGED job
  BY DEF vars
<1> USE DEF RecordsOK
<1>0. ASSUME NEW j \in Jobs, OneTransition(j) PROVE Lifecycle!Next
  BY <1>0 DEF OneTransition, Lifecycle!Next
<1>1. ASSUME NEW j \in Jobs, CreateJob(j) PROVE Lifecycle!Next
  <2>1. Wrote(j, QueuedRow)
    BY <1>1, InsertWrite DEF CreateJob
  <2>2. Lifecycle!Insert(j)
    BY <1>1, <2>1
       DEF CreateJob, JobsOK, RowOK, QueuedRow, NoRow, Lifecycle!NoRow, Wrote,
           Lifecycle!Insert, Lifecycle!Moves, Lifecycle!Keeps
  <2>3. QED
    BY <1>0, <2>1, <2>2 DEF OneTransition, Lifecycle!Transition, Wrote
<1>2. ASSUME NEW j \in Jobs, Requeue(j) PROVE Lifecycle!Next
  <2>1. Wrote(j, RequeuedRow(job[j], job[j].stage))
    BY <1>2, RequeuedWrite DEF Requeue, Retryable, Active
  <2>2. Lifecycle!Retry(j)
    BY <1>2, <2>1, RequeuedRowFields
       DEF Requeue, Retryable, AttemptsLeft, JobsOK, RowOK, Wrote, Lifecycle!Retry,
           Lifecycle!Moves, Lifecycle!Keeps
  <2>3. QED
    BY <1>0, <2>1, <2>2 DEF OneTransition, Lifecycle!Transition, Wrote
<1>3. ASSUME NEW j \in Jobs, TakeOver(j) PROVE Lifecycle!Next
  <2>1. Wrote(j, RunningRow(job[j]))
    BY <1>3, RunningWrite DEF TakeOver, AttemptsLeft
  <2>2. Lifecycle!TakeOver(j)
    BY <1>3, <2>1, RunningRowFields
       DEF TakeOver, Recoverable, AttemptsLeft, JobsOK, Wrote, Lifecycle!TakeOver,
           Lifecycle!Moves, Lifecycle!Keeps
  <2>3. QED
    BY <1>0, <2>1, <2>2 DEF OneTransition, Lifecycle!Transition, Wrote
<1>4. ASSUME NEW j \in Jobs, GiveUpLost(j) PROVE Lifecycle!Next
  <2>1. Wrote(j, EndedRow(job[j], "failed", "WORKER_LOST"))
    BY <1>4, EndedWrite DEF GiveUpLost, Lifecycle!ErrorCodes
  <2>2. Lifecycle!Finish(j)
    BY <1>4, <2>1, EndedRowFields
       DEF GiveUpLost, Recoverable, AttemptsLeft, JobsOK, JobRecord, Lifecycle!JobRecord,
           Wrote, Lifecycle!Finish, Lifecycle!Moves, Lifecycle!Keeps
  <2>3. QED
    BY <1>0, <2>1, <2>2 DEF OneTransition, Lifecycle!Transition, Wrote
<1>5. ASSUME NEW j \in Jobs, LeaseExpires(j) PROVE Lifecycle!Next
  <2>1. Wrote(j, [job[j] EXCEPT !.lease = "expired"])
    BY <1>5, LeaseWrite DEF LeaseExpires
  <2>2. Lifecycle!ClockAdvances(j)
    BY <1>5, <2>1
       DEF LeaseExpires, Wrote, Lifecycle!ClockAdvances, Lifecycle!Moves, Lifecycle!Keeps
  <2>3. QED
    BY <1>0, <2>1, <2>2 DEF OneTransition, Lifecycle!Transition, Wrote
<1>6. ASSUME NEW j \in Jobs, GraceElapses(j) PROVE Lifecycle!Next
  <2>1. Wrote(j, [job[j] EXCEPT !.lease = "graced"])
    BY <1>6, LeaseWrite DEF GraceElapses
  <2>2. Lifecycle!ClockAdvances(j)
    BY <1>6, <2>1
       DEF GraceElapses, Wrote, Lifecycle!ClockAdvances, Lifecycle!Moves, Lifecycle!Keeps
  <2>3. QED
    BY <1>0, <2>1, <2>2 DEF OneTransition, Lifecycle!Transition, Wrote
<1>7. ASSUME NEW j \in Jobs, RequestCancel(j) PROVE Lifecycle!Next
  <2>1. CASE job[j].status = "queued"
    <3>1. Wrote(j, EndedRow(job[j], "cancelled", "JOB_CANCELLED"))
      BY <1>7, <2>1, EndedWrite DEF RequestCancel, Lifecycle!ErrorCodes
    <3>2. Lifecycle!CancelQueued(j)
      BY <2>1, <3>1, EndedRowFields
         DEF JobsOK, Wrote, Lifecycle!CancelQueued, Lifecycle!Moves, Lifecycle!Keeps
    <3>3. QED
      BY <1>0, <3>1, <3>2 DEF OneTransition, Lifecycle!Transition, Wrote
  <2>2. CASE job[j].status = "running"
    <3>1. Wrote(j, [Bump(job[j]) EXCEPT !.status = "cancel_requested"])
      BY <1>7, <2>2, CancelWrite DEF RequestCancel
    <3>2. Lifecycle!AskCancel(j)
      BY <2>2, <3>1 DEF JobsOK, JobRecord, Lifecycle!JobRecord, Bump, Wrote,
                        Lifecycle!AskCancel, Lifecycle!Moves, Lifecycle!Keeps
    <3>3. QED
      BY <1>0, <3>1, <3>2 DEF OneTransition, Lifecycle!Transition, Wrote
  <2>3. QED
    BY <1>7, <2>1, <2>2 DEF RequestCancel
<1>8. ASSUME NEW j \in Jobs, NEW a, NEW count, NEW code, FailDelivery(j, a, count, code)
      PROVE  Lifecycle!Next \/ UNCHANGED job
  <2>1. CASE job' = job
    BY <2>1
  <2>2. CASE job' # job
    <3>1. PICK error \in Lifecycle!DispatchCodes :
            job' = [job EXCEPT ![j] = EndedRow(job[j], "failed", error)]
      BY <1>8, <2>2 DEF FailDelivery, Lifecycle!DispatchCodes
    <3>2. job[j].status = "queued"
      BY <1>8, <2>2 DEF FailDelivery
    <3>3. Wrote(j, EndedRow(job[j], "failed", error))
      BY <3>1, EndedWrite DEF Lifecycle!DispatchCodes, Lifecycle!ErrorCodes
    <3>4. Lifecycle!FailDispatch(j)
      BY <3>2, <3>3, EndedRowFields
         DEF JobsOK, Wrote, Lifecycle!FailDispatch, Lifecycle!Moves, Lifecycle!Keeps
    <3>5. QED
      BY <1>0, <3>3, <3>4 DEF OneTransition, Lifecycle!Transition, Wrote
  <2>3. QED
    BY <2>1, <2>2
<1>9. ASSUME NEW d \in Dispatchers, DispatcherNext(d) PROVE Lifecycle!Next \/ UNCHANGED job
  <2>1. dispatch[d].pc # "idle" => dispatch[d].job \in Jobs
    BY DEF DispatchesOK, DispatchOK
  <2>2. QED
    BY <1>9, <1>8, <2>1
       DEF DispatcherNext, ClaimNextOutbox, RejectRoute, Publish, MarkPublished,
           MarkFailure, ReapExpired, DispatcherCrash
<1>10. ASSUME NEW w \in Workers, NEW j \in Jobs, NEW a \in Attempts, ClaimJob(w, j, a)
      PROVE  Lifecycle!Next
  <2>1. /\ job[j].status = "queued" /\ job[j].attempt_no < MaxAttempts
        /\ job' = [job EXCEPT ![j] = RunningRow(job[j])]
    BY <1>10 DEF ClaimJob, ClaimAllowed, Attempts, JobsOK, JobRecord, Lifecycle!JobRecord
  <2>2. Wrote(j, RunningRow(job[j]))
    BY <2>1, RunningWrite
  <2>3. job[j] \in JobRecord /\ job[j].attempt_no \in Nat
    BY DEF JobsOK, JobRecord, Lifecycle!JobRecord
  <2>4. Lifecycle!Claim(j)
    BY <2>1, <2>2, <2>3, RunningRowFields
       DEF Wrote, Lifecycle!Claim, Lifecycle!Moves, Lifecycle!Keeps
  <2>5. QED
    BY <1>0, <2>2, <2>4 DEF OneTransition, Lifecycle!Transition, Wrote
<1>11. ASSUME NEW p \in Procs, Heartbeat(p) PROVE Lifecycle!Next
  <2>1. PICK j \in Jobs : j = claim[p].job
    BY <1>11 DEF Heartbeat, Fenced, LeaseHeld, ClaimsOK, ClaimOK
  <2>2. /\ job[j].status \in Active /\ job[j].stage \in Stages
        /\ job[j].lease = "live"
        /\ job' = [job EXCEPT ![j] = AtStage(job[j], job[j].stage)]
    BY <1>11, <2>1 DEF Heartbeat, Fenced, LeaseHeld, Heartbeat, JobsOK, RowOK, Active
  <2>3. Wrote(j, AtStage(job[j], job[j].stage))
    BY <2>2, AtStageWrite DEF Active
  <2>4. Lifecycle!Renew(j) \/ Lifecycle!RenewCancelling(j)
    BY <2>2, <2>3, AtStageFields
       DEF JobsOK, Wrote, Lifecycle!Renew, Lifecycle!RenewCancelling, Active,
       Lifecycle!Moves, Lifecycle!Keeps
  <2>5. QED
    BY <1>0, <2>3, <2>4 DEF OneTransition, Lifecycle!Transition, Wrote
<1>12. ASSUME NEW p \in Procs, AdvanceStep(p) PROVE Lifecycle!Next
  <2>1. PICK j \in Jobs : j = claim[p].job
    BY <1>12 DEF AdvanceStep, Fenced, LeaseHeld, ClaimsOK, ClaimOK
  <2>2. /\ job[j].status = "running" /\ job[j].stage + 1 \in Stages
        /\ job[j].lease = "live"
        /\ job' = [job EXCEPT ![j] = AtStage(job[j], job[j].stage + 1)]
    BY <1>12, <2>1 DEF AdvanceStep, Fenced, LeaseHeld, JobsOK, RowOK, Active, Stages
  <2>3. Wrote(j, AtStage(job[j], job[j].stage + 1))
    BY <2>2, AtStageWrite DEF Active
  <2>4. Lifecycle!Renew(j)
    BY <2>2, <2>3, AtStageFields DEF JobsOK, Wrote, Lifecycle!Renew,
       Lifecycle!Moves, Lifecycle!Keeps
  <2>5. QED
    BY <1>0, <2>3, <2>4 DEF OneTransition, Lifecycle!Transition, Wrote
<1>13. ASSUME NEW p \in Procs, Succeed(p) PROVE Lifecycle!Next
  <2>1. PICK j \in Jobs : j = claim[p].job
    BY <1>13 DEF Succeed, Fenced, LeaseHeld, ClaimsOK, ClaimOK
  <2>2. /\ job[j].status = "running"
        /\ job[j].lease = "live"
        /\ job' = [job EXCEPT ![j] = EndedRow(job[j], "succeeded", "none")]
    BY <1>13, <2>1 DEF Succeed, Fenced, LeaseHeld
  <2>3. Wrote(j, EndedRow(job[j], "succeeded", "none"))
    BY <2>2, EndedWrite DEF Active, Lifecycle!ErrorCodes
  <2>4. Lifecycle!Finish(j)
    BY <2>2, <2>3, EndedRowFields DEF JobsOK, Wrote, Lifecycle!Finish,
       Lifecycle!Moves, Lifecycle!Keeps
  <2>5. QED
    BY <1>0, <2>3, <2>4 DEF OneTransition, Lifecycle!Transition, Wrote
<1>14. ASSUME NEW p \in Procs, FinishCancel(p) PROVE Lifecycle!Next
  <2>1. PICK j \in Jobs : j = claim[p].job
    BY <1>14 DEF FinishCancel, ClaimsOK, ClaimOK
  <2>2. /\ job[j].status = "cancel_requested"
        /\ job[j].lease \in {"live", "graced"}
        /\ job' = [job EXCEPT ![j] = EndedRow(job[j], "cancelled", "JOB_CANCELLED")]
    BY <1>14, <2>1 DEF FinishCancel
  <2>3. Wrote(j, EndedRow(job[j], "cancelled", "JOB_CANCELLED"))
    BY <2>2, EndedWrite DEF Active, Lifecycle!ErrorCodes
  <2>4. Lifecycle!FinishCancelling(j)
    BY <2>2, <2>3, EndedRowFields DEF JobsOK, Wrote, Lifecycle!FinishCancelling,
       Lifecycle!Moves, Lifecycle!Keeps
  <2>5. QED
    BY <1>0, <2>3, <2>4 DEF OneTransition, Lifecycle!Transition, Wrote
<1>15. ASSUME NEW p \in Procs, Fail(p) PROVE Lifecycle!Next
  <2>1. PICK j \in Jobs : j = claim[p].job
    BY <1>15 DEF Fail, Fenced, LeaseHeld, ClaimsOK, ClaimOK
  <2>2. PICK code \in {"TRANSIENT", "PERMANENT"} :
          job' = [job EXCEPT ![j] = FailedRow(job[j], code)]
    BY <1>15, <2>1 DEF Fail
  <2>3. job[j].status = "running" /\ job[j].lease = "live"
    BY <1>15, <2>1 DEF Fail, Fenced, LeaseHeld
  <2>4. Wrote(j, FailedRow(job[j], code))
    BY <2>2, <2>3, FailedWrite DEF Active, Lifecycle!ErrorCodes
  <2>5. Lifecycle!Finish(j)
    BY <2>3, <2>4, FailedRowFields DEF JobsOK, Wrote, Lifecycle!Finish,
       Lifecycle!Moves, Lifecycle!Keeps
  <2>6. QED
    BY <1>0, <2>4, <2>5 DEF OneTransition, Lifecycle!Transition, Wrote
<1>16. QED
  BY <1>1, <1>2, <1>3, <1>4, <1>5, <1>6, <1>7, <1>8, <1>9, <1>10, <1>11, <1>12, <1>13,
     <1>14, <1>15
     DEF Next, Deliver, ExecutorNext, JobNext, EventNext, RejectDelivery, Drop,
         EventFallsDue, BrokerLoses

\* The runtime implements the lifecycle that the job trigger enforces.
THEOREM RefinesLifecycle == Spec => ImplementsLifecycle
<1>1. Init => Lifecycle!Init
  BY DEF Init, Lifecycle!Init, NoRow
<1>2. QED
  BY <1>1, RecordsCorrect, LifecycleStep, PTL DEF Spec, ImplementsLifecycle, Lifecycle!Spec

\* What the lifecycle allows of a job it allows of the row that the components see.
LEMMA SeenStep ==
  ASSUME NEW j \in Jobs, RecordsOK, RecordsOK', Lifecycle!Transition(j)
  PROVE  Row(j)!Next \/ Seen(job[j])' = Seen(job[j])
<1> DEFINE old == Seen(job[j])
           new == Seen(job'[j])
<1>1. /\ job[j] \in JobRecord /\ job'[j] \in JobRecord
      /\ RowOK(job[j]) /\ RowOK(job'[j])
  BY DEF RecordsOK, JobsOK
<1>2. \A r \in JobRecord :
        /\ Seen(r).status = r.status /\ Seen(r).attempt = r.attempt_no
        /\ Seen(r).retry = r.retry
        /\ Seen(r).lease = "live" <=> r.lease = "live"
        /\ Seen(r).lease = "none" <=> r.lease = "none"
        /\ Seen(r).lease = "expired" <=> r.lease \in {"expired", "graced"}
  BY DEF JobRecord, Lifecycle!JobRecord, Seen
<1>3. Seen(job[j])' = new
  OBVIOUS
<1> HIDE DEF old, new
<1> USE <1>1, <1>2, <1>3
    DEF Row!Moves, Row!SameAttempt, Row!NextAttempt, Lifecycle!Moves, Lifecycle!Keeps
<1>4. CASE Lifecycle!Insert(j)
  BY <1>4 DEF Lifecycle!Insert, Lifecycle!NoRow, Row!Inserted, Row!Next
<1>5. CASE Lifecycle!Claim(j)
  BY <1>5 DEF Lifecycle!Claim, Row!Claimed, Row!Next, JobRecord, Lifecycle!JobRecord
<1>6. CASE Lifecycle!CancelQueued(j) \/ Lifecycle!FinishCancelling(j)
  BY <1>6 DEF Lifecycle!CancelQueued, Lifecycle!FinishCancelling, Row!Cancelled, Row!Next
<1>7. CASE Lifecycle!FailDispatch(j)
  BY <1>7 DEF Lifecycle!FailDispatch, Row!DispatchFailed, Row!Next
<1>8. CASE Lifecycle!Renew(j) \/ Lifecycle!RenewCancelling(j)
  BY <1>8 DEF Lifecycle!Renew, Lifecycle!RenewCancelling, Row!Renewed, Row!Next
<1>9. CASE Lifecycle!TakeOver(j)
  BY <1>9 DEF Lifecycle!TakeOver, Row!TakenOver, Row!Next
<1>10. CASE Lifecycle!AskCancel(j)
  <2>1. job'[j].lease = job[j].lease
    BY <1>10 DEF Lifecycle!AskCancel
  <2>2. Seen(job'[j]).lease = Seen(job[j]).lease
    BY <2>1 DEF Seen
  <2>3. QED
    BY <1>10, <2>2 DEF Lifecycle!AskCancel, Row!CancelAsked, Row!Next
<1>11. CASE Lifecycle!Finish(j)
  BY <1>11 DEF Lifecycle!Finish, Row!Finished, Row!Next
<1>12. CASE Lifecycle!Retry(j)
  BY <1>12 DEF Lifecycle!Retry, Row!Retried, Row!Next
<1>13. CASE Lifecycle!ClockAdvances(j)
  <2>1. job[j].lease # "none" /\ \E l \in {"expired", "graced"} :
          job'[j] = [job[j] EXCEPT !.lease = l]
    BY <1>13 DEF Lifecycle!ClockAdvances
  <2>2. Seen(job'[j]) = [Seen(job[j]) EXCEPT !.lease = "expired"]
    BY <2>1 DEF Seen, JobRecord, Lifecycle!JobRecord
  <2>3. QED
    BY <2>1, <2>2 DEF Row!LeaseEnds, Row!Next
<1>14. QED
  BY ONLY <1>4, <1>5, <1>6, <1>7, <1>8, <1>9, <1>10, <1>11, <1>12, <1>13,
          Lifecycle!Transition(j)
     DEF Lifecycle!Transition

\* Every row is written only as the components of files, audits, reports and
\* indexes assume of the row of their job (enforce_async_jobs_state_v1).
THEOREM RefinesJobRows == Spec => ImplementsJobRows
<1>1. Init => \A j \in Jobs : Row(j)!Init
  <2> SUFFICES ASSUME Init, NEW j \in Jobs PROVE Row(j)!Init
    OBVIOUS
  <2>1. job[j] = Lifecycle!NoRow
    BY DEF Init, NoRow
  <2>2. QED
    BY <2>1 DEF Lifecycle!NoRow, Row!Init, Seen
<1>2. RecordsOK /\ RecordsOK' /\ [Next]_vars =>
        [\A j \in Jobs : [Row(j)!Next]_(Seen(job[j]))]_job
  <2> SUFFICES ASSUME RecordsOK, RecordsOK', Lifecycle!Next, NEW j \in Jobs
               PROVE  Row(j)!Next \/ Seen(job[j])' = Seen(job[j])
    BY LifecycleStep
  <2>1. CASE Lifecycle!Transition(j)
    BY <2>1, SeenStep
  <2>2. CASE job'[j] = job[j]
    BY <2>2 DEF Seen
  <2>3. QED
    BY <2>1, <2>2 DEF Lifecycle!Next
<1>3. QED
  BY <1>1, <1>2, RecordsCorrect, PTL DEF Spec, ImplementsJobRows

\* A job that is over stays as it is, whoever is late.
THEOREM FinalRowsKept == Spec => TerminalIsFinal
<1>1. ASSUME RecordsOK, [Lifecycle!Next]_job, NEW j \in Jobs, Final(j)
      PROVE  job'[j] = job[j]
  <2>1. job[j].lease = "none"
    BY <1>1 DEF RecordsOK, JobsOK, RowOK, Final, Active
  <2>2. ~Lifecycle!Transition(j)
    BY <1>1, <2>1 DEF Final, NoRow, Lifecycle!NoRow, Lifecycle!Transition,
       Lifecycle!Insert, Lifecycle!Claim, Lifecycle!CancelQueued,
       Lifecycle!FailDispatch, Lifecycle!Renew, Lifecycle!TakeOver,
       Lifecycle!AskCancel, Lifecycle!Finish, Lifecycle!RenewCancelling,
       Lifecycle!FinishCancelling, Lifecycle!Retry, Lifecycle!ClockAdvances,
       Lifecycle!Moves
  <2>3. QED
    BY <1>1, <2>2 DEF Lifecycle!Next
<1>2. RecordsOK /\ [Next]_vars => [\A j \in Jobs : Final(j) => job'[j] = job[j]]_vars
  BY <1>1, LifecycleStep
<1>3. QED
  BY <1>2, RecordsCorrect, PTL DEF Spec, TerminalIsFinal

-----------------------------------------------------------------------------
(*********************** Tables that agree ********************************)

(***************************************************************************)
(* The tables of one job: r is its row, st its steps, ev its events and    *)
(* res the attempts whose result was committed.                            *)
(***************************************************************************)
StepsAgree(r, st) == \A a \in Attempts, s \in Stages :
  /\ st[a][s] = "running" <=> r.status \in Active /\ a = r.attempt_no /\ s = r.stage
  /\ a > r.attempt_no => st[a][s] = "none"

Dispatchable == {"pending", "processing", "failed", "published"}

\* From which event_sequence on a job has no event yet.
NextFree(r) == IF r.status = "queued" THEN r.attempt_no + 2 ELSE r.attempt_no + 1
EventsAgree(r, ev) ==
  /\ r.status = "queued" =>
       r.attempt_no < MaxAttempts /\ ev[r.attempt_no + 1].status \in Dispatchable
  /\ r.status \in {"absent", "queued"} \cup Active \/ (r.status = "failed" /\ r.retry) =>
       \A a \in Attempts : a >= NextFree(r) => ev[a] = NoEvent

ResultAgrees(r, res) == res = IF r.status = "succeeded" THEN {r.attempt_no} ELSE {}

Agree(j) == /\ StepsAgree(job[j], step[j])
            /\ EventsAgree(job[j], outbox[j])
            /\ ResultAgrees(job[j], results[j])
JobsAgree == \A j \in Jobs : Agree(j)

\* What the two invariants below say follows from the agreement of each job.
LEMMA AgreeImplies == RecordsOK /\ JobsAgree => OneResult /\ TablesAgree
<1> SUFFICES ASSUME RecordsOK, JobsAgree PROVE OneResult /\ TablesAgree
  OBVIOUS
<1>1. OneResult
  BY DEF JobsAgree, Agree, ResultAgrees, OneResult
<1>2. JobStepConsistent
  BY DEF JobsAgree, Agree, StepsAgree, JobStepConsistent
<1>3. QueuedIsDispatchable
  BY DEF JobsAgree, Agree, EventsAgree, Dispatchable, QueuedIsDispatchable
<1>4. RetrySequenceUnused
  <2> SUFFICES ASSUME NEW j \in Jobs, job[j].status = "failed", job[j].retry,
                      NEW a \in Attempts, a > job[j].attempt_no
               PROVE  outbox[j][a] = NoEvent
    BY DEF RetrySequenceUnused
  <2>1. a >= NextFree(job[j])
    BY DEF NextFree, RecordsOK, JobsOK, JobRecord, Lifecycle!JobRecord, Attempts
  <2>2. QED
    BY <2>1 DEF JobsAgree, Agree, EventsAgree
<1>5. QED
  BY <1>1, <1>2, <1>3, <1>4 DEF TablesAgree

\* Only one job was touched.
Alone(j) == \A i \in Jobs \ {j} :
  job'[i] = job[i] /\ step'[i] = step[i] /\ outbox'[i] = outbox[i]
       /\ results'[i] = results[i]

\* A step that touches one job keeps the agreement of the others.
LEMMA OneAgrees ==
  ASSUME JobsAgree, NEW j \in Jobs, Alone(j), Agree(j)'
  PROVE  JobsAgree'
<1>1. ASSUME NEW i \in Jobs \ {j} PROVE Agree(i)'
  BY DEF JobsAgree, Agree, Alone
<1>2. QED
  BY <1>1 DEF JobsAgree

\* Steps and events that are not written agree with a row of the same attempt.
LEMMA StepsUnmoved ==
  ASSUME NEW r, NEW q, NEW st, StepsAgree(r, st),
         q.attempt_no = r.attempt_no,
         \/ q.status \notin Active /\ r.status \notin Active
         \/ q.status \in Active /\ r.status \in Active /\ q.stage = r.stage
  PROVE  StepsAgree(q, st)
BY DEF StepsAgree

\* The running step ends, and the row leaves the active ones.
LEMMA StepsEnd ==
  ASSUME StepsType, NEW j \in Jobs, NEW q, NEW status \in StepStatus \ {"running", "none"},
         RowOK(job[j]), StepsAgree(job[j], step[j]), job[j].status \in Active,
         job[j].attempt_no \in Nat,
         q.attempt_no = job[j].attempt_no, q.status \notin Active,
         step' = StepEnds(j, status)
  PROVE  StepsAgree(q, step'[j]) /\ \A i \in Jobs \ {j} : step'[i] = step[i]
BY DEF StepsType, StepEnds, StepsAgree, RowOK

\* A row that leaves the queue takes no event with it.
LEMMA EventsUnmoved ==
  ASSUME NEW r, NEW q, NEW ev, EventsAgree(r, ev), r.attempt_no \in Nat,
         q.attempt_no \in {r.attempt_no, r.attempt_no + 1},
         q.status # "queued",
         r.status \in {"queued"} \cup Active,
         r.status = "queued" /\ q.status \in Active => q.attempt_no = r.attempt_no + 1,
         q.status # "absent",
         q.status = "failed" /\ q.retry => r.status # "queued"
  PROVE  EventsAgree(q, ev)
BY DEF EventsAgree, NextFree, Active, Attempts

\* Every handler writes the row, the steps, the events and the result it should.
LEMMA JobsAgreeStep ==
  RecordsOK /\ JobsAgree /\ [Next]_vars => JobsAgree'
<1> SUFFICES ASSUME RecordsOK, JobsAgree, [Next]_vars PROVE JobsAgree'
  OBVIOUS
<1> USE DEF RecordsOK
<1>0. \A j \in Jobs : job[j] \in JobRecord /\ job[j].attempt_no \in 0..MaxAttempts
        /\ RowOK(job[j]) /\ Agree(j)
  BY DEF JobsOK, JobRecord, Lifecycle!JobRecord, JobsAgree
<1>1. ASSUME NEW j \in Jobs, CreateJob(j) PROVE JobsAgree'
  <2>1. Wrote(j, QueuedRow)
    BY <1>1, InsertWrite DEF CreateJob
  <2>2. job[j] = NoRow /\ QueuedRow.status = "queued" /\ QueuedRow.attempt_no = 0
          /\ NoRow.attempt_no = 0
    BY <1>1, <1>0 DEF CreateJob, RowOK, QueuedRow, NoRow, Lifecycle!NoRow
  <2>3. StepsAgree(QueuedRow, step[j])
    BY <1>0, <1>1, <2>2, StepsUnmoved DEF CreateJob, Active, Agree
  <2>4. /\ 1 \in Attempts /\ outbox'[j][1] = NewEvent
        /\ \A b \in Attempts \ {1} : outbox'[j][b] = outbox[j][b]
        /\ \A i \in Jobs \ {j} : outbox'[i] = outbox[i]
    BY <1>1 DEF CreateJob, EventsType, Attempts
  <2>5. EventsAgree(QueuedRow, outbox'[j])
    BY <1>0, <1>1, <2>2, <2>4
       DEF CreateJob, Agree, EventsAgree, NextFree, Dispatchable, NewEvent, Attempts,
           EventsType
  <2>6. ResultAgrees(QueuedRow, results[j])
    BY <1>0, <1>1, <2>2 DEF CreateJob, Agree, ResultAgrees
  <2>7. QED
    BY <1>1, <2>1, <2>3, <2>4, <2>5, <2>6, OneAgrees DEF CreateJob, Wrote, Agree, Alone
<1>2. ASSUME NEW j \in Jobs, RequestCancel(j) PROVE JobsAgree'
  <2>1. PICK q : /\ Wrote(j, q)
                 /\ q.attempt_no = job[j].attempt_no /\ q.stage = job[j].stage
                 /\ \/ job[j].status = "queued" /\ q.status = "cancelled"
                    \/ job[j].status = "running" /\ q.status = "cancel_requested"
    <3>1. CASE job[j].status = "queued"
      <4>1. Wrote(j, EndedRow(job[j], "cancelled", "JOB_CANCELLED"))
        BY <1>2, <3>1, EndedWrite DEF RequestCancel, Lifecycle!ErrorCodes
      <4>2. QED
        BY <3>1, <4>1, <1>0, EndedRowFields
    <3>2. CASE job[j].status = "running"
      <4> DEFINE r == [Bump(job[j]) EXCEPT !.status = "cancel_requested"]
      <4>1. Wrote(j, r)
        BY <1>2, <3>2, CancelWrite DEF RequestCancel
      <4>2. /\ r.attempt_no = job[j].attempt_no /\ r.stage = job[j].stage
            /\ r.status = "cancel_requested"
        BY <1>0 DEF Bump, JobRecord, Lifecycle!JobRecord
      <4> HIDE DEF r
      <4>3. QED
        BY <3>2, <4>1, <4>2
    <3>3. QED
      BY <1>2, <3>1, <3>2 DEF RequestCancel
  <2>2. StepsAgree(q, step[j])
    BY <1>0, <2>1, StepsUnmoved DEF Active, Agree
  <2>3. EventsAgree(q, outbox[j])
    BY <1>0, <2>1 DEF Active, Agree, EventsAgree, NextFree
  <2>4. ResultAgrees(q, results[j])
    BY <1>0, <2>1 DEF Agree, ResultAgrees
  <2>5. QED
    BY <1>2, <2>1, <2>2, <2>3, <2>4, OneAgrees DEF RequestCancel, Wrote, Agree, Alone
<1>3. ASSUME NEW j \in Jobs, Requeue(j) PROVE JobsAgree'
  <2> DEFINE q == RequeuedRow(job[j], job[j].stage)
  <2>1. Wrote(j, q)
    BY <1>3, RequeuedWrite DEF Requeue, Retryable, Active
  <2>2. q.status = "queued" /\ q.attempt_no = job[j].attempt_no
    BY <1>0, RequeuedRowFields
  <2>3. /\ job[j].status = "failed" /\ job[j].retry
        /\ job[j].attempt_no + 1 \in Attempts
    BY <1>0, <1>3 DEF Requeue, Retryable, AttemptsLeft, Attempts
  <2>4. /\ outbox'[j][job[j].attempt_no + 1] = NewEvent
        /\ \A b \in Attempts \ {job[j].attempt_no + 1} : outbox'[j][b] = outbox[j][b]
        /\ \A i \in Jobs \ {j} : outbox'[i] = outbox[i]
    BY <1>3, <2>3 DEF Requeue, EventsType
  <2>5. StepsAgree(q, step[j])
    BY <1>0, <2>2, <2>3, StepsUnmoved DEF Active, Agree
  <2>6. EventsAgree(q, outbox'[j])
    <3>1. q.attempt_no < MaxAttempts /\ outbox'[j][q.attempt_no + 1].status \in Dispatchable
      BY <1>0, <2>2, <2>3, <2>4 DEF Dispatchable, NewEvent, Attempts
    <3>2. ASSUME NEW a \in Attempts, a >= q.attempt_no + 2 PROVE outbox'[j][a] = NoEvent
      <4>1. a >= NextFree(job[j]) /\ a # job[j].attempt_no + 1
        BY <1>0, <2>2, <2>3, <3>2 DEF NextFree, Attempts
      <4>2. outbox[j][a] = NoEvent
        BY <1>0, <2>3, <4>1 DEF Agree, EventsAgree
      <4>3. QED
        BY <2>4, <4>1, <4>2
    <3>3. QED
      BY <2>2, <3>1, <3>2 DEF EventsAgree, NextFree
  <2>7. ResultAgrees(q, results[j])
    BY <1>0, <2>2, <2>3 DEF Agree, ResultAgrees
  <2>8. QED
    BY <1>3, <2>1, <2>4, <2>5, <2>6, <2>7, OneAgrees DEF Requeue, Wrote, Agree, Alone
<1>4. ASSUME NEW j \in Jobs, TakeOver(j) PROVE JobsAgree'
  <2> DEFINE q == RunningRow(job[j])
             a == job[j].attempt_no
  <2>1. Wrote(j, q)
    BY <1>4, RunningWrite DEF TakeOver, AttemptsLeft
  <2>2. q.status = "running" /\ q.attempt_no = a + 1 /\ q.stage = job[j].start
    BY <1>0, RunningRowFields
  <2>3. /\ job[j].status = "running" /\ a \in Attempts /\ a + 1 \in Attempts
        /\ job[j].start \in Stages /\ job[j].stage \in Stages
    BY <1>0, <1>4
       DEF TakeOver, Recoverable, AttemptsLeft, Attempts, RowOK, Active, JobRecord,
           Lifecycle!JobRecord, Stages, Lifecycle!Stages
  <2>4. /\ step'[j][a][job[j].stage] = "failed" /\ step'[j][a + 1][job[j].start] = "running"
        /\ \A b \in Attempts, s \in Stages :
             (b # a \/ s # job[j].stage) /\ (b # a + 1 \/ s # job[j].start) =>
               step'[j][b][s] = step[j][b][s]
        /\ \A i \in Jobs \ {j} : step'[i] = step[i]
    <3>1. PICK st \in [Jobs -> [Attempts -> [Stages -> StepStatus]]] :
            st = StepEnds(j, "failed")
      BY StepUpdateTypes DEF StepStatus
    <3>2. /\ st[j][a][job[j].stage] = "failed"
          /\ \A b \in Attempts, s \in Stages :
               b # a \/ s # job[j].stage => st[j][b][s] = step[j][b][s]
          /\ \A i \in Jobs \ {j} : st[i] = step[i]
      BY <2>3, <3>1 DEF StepEnds, StepsType
    <3>3. /\ step'[j][a + 1][job[j].start] = "running"
          /\ \A b \in Attempts, s \in Stages :
               b # a + 1 \/ s # job[j].start => step'[j][b][s] = st[j][b][s]
          /\ \A i \in Jobs \ {j} : step'[i] = st[i]
      BY <1>4, <2>3, <3>1 DEF TakeOver
    <3>4. a # a + 1
      BY <2>3 DEF Attempts
    <3>5. QED
      BY <2>3, <3>2, <3>3, <3>4
  <2>5. StepsAgree(q, step'[j])
    <3> SUFFICES ASSUME NEW b \in Attempts, NEW s \in Stages
                 PROVE  /\ step'[j][b][s] = "running" <=> b = a + 1 /\ s = job[j].start
                        /\ b > a + 1 => step'[j][b][s] = "none"
      BY <2>2 DEF StepsAgree, Active
    <3>1. /\ step[j][b][s] = "running" <=> b = a /\ s = job[j].stage
          /\ b > a => step[j][b][s] = "none"
      BY <1>0, <2>3 DEF Agree, StepsAgree, Active
    <3>2. CASE b = a /\ s = job[j].stage
      BY <2>3, <2>4, <3>2 DEF Attempts
    <3>3. CASE b = a + 1 /\ s = job[j].start
      BY <2>3, <2>4, <3>3 DEF Attempts
    <3>4. CASE ~(b = a /\ s = job[j].stage) /\ ~(b = a + 1 /\ s = job[j].start)
      <4>1. step'[j][b][s] = step[j][b][s]
        BY <2>4, <3>4
      <4>2. QED
        BY <2>3, <3>1, <3>4, <4>1 DEF Attempts
    <3>5. QED
      BY <3>2, <3>3, <3>4
  <2>6. EventsAgree(q, outbox[j])
    BY <1>0, <2>2, <2>3, EventsUnmoved DEF Agree, Active, Attempts
  <2>7. ResultAgrees(q, results[j])
    BY <1>0, <2>2, <2>3 DEF Agree, ResultAgrees
  <2>8. QED
    BY <1>4, <2>1, <2>4, <2>5, <2>6, <2>7, OneAgrees DEF TakeOver, Wrote, Agree, Alone
<1>5. ASSUME NEW j \in Jobs, GiveUpLost(j) PROVE JobsAgree'
  <2> DEFINE q == EndedRow(job[j], "failed", "WORKER_LOST")
  <2>1. Wrote(j, q)
    BY <1>5, EndedWrite DEF GiveUpLost, Lifecycle!ErrorCodes
  <2>2. q.status = "failed" /\ q.attempt_no = job[j].attempt_no /\ ~q.retry
    BY <1>0, EndedRowFields
  <2>3. job[j].status = "running"
    BY <1>5 DEF GiveUpLost, Recoverable
  <2>4. StepsAgree(q, step'[j]) /\ \A i \in Jobs \ {j} : step'[i] = step[i]
    BY <1>0, <1>5, <2>2, <2>3, StepsEnd DEF GiveUpLost, Agree, Active, StepStatus
  <2>5. EventsAgree(q, outbox[j])
    BY <1>0, <2>2, <2>3, EventsUnmoved DEF Agree, Active
  <2>6. ResultAgrees(q, results[j])
    BY <1>0, <2>2, <2>3 DEF Agree, ResultAgrees
  <2>7. QED
    BY <1>5, <2>1, <2>4, <2>5, <2>6, OneAgrees DEF GiveUpLost, Wrote, Agree, Alone
<1>6. ASSUME NEW j \in Jobs, NEW lease \in {"expired", "graced"}, job[j].lease # "none",
             job' = [job EXCEPT ![j].lease = lease], UNCHANGED <<step, outbox, results>>
      PROVE  JobsAgree'
  <2> DEFINE q == [job[j] EXCEPT !.lease = lease]
  <2>1. Wrote(j, q)
    BY <1>6, LeaseWrite
  <2>2. q.status = job[j].status /\ q.attempt_no = job[j].attempt_no
          /\ q.stage = job[j].stage /\ q.retry = job[j].retry
    BY <1>0 DEF JobRecord, Lifecycle!JobRecord
  <2>3. StepsAgree(q, step[j])
    BY <1>0, <2>2 DEF Agree, StepsAgree
  <2>4. EventsAgree(q, outbox[j])
    BY <1>0, <2>2 DEF Agree, EventsAgree, NextFree
  <2>5. ResultAgrees(q, results[j])
    BY <1>0, <2>2 DEF Agree, ResultAgrees
  <2>6. QED
    BY <1>6, <2>1, <2>3, <2>4, <2>5, OneAgrees DEF Wrote, Agree, Alone
<1>7. ASSUME NEW j \in Jobs, NEW a \in Attempts, NEW count, NEW code,
             outbox[j][a].status = "processing", FailDelivery(j, a, count, code),
             UNCHANGED <<step, results>>
      PROVE  JobsAgree'
  <2>1. PICK status \in {"failed", "dead_letter"} :
          /\ outbox' = EventBecomes(j, a, status)
          /\ status = "dead_letter" /\ job[j].status = "queued" =>
               \E error \in Lifecycle!DispatchCodes :
                    job' = [job EXCEPT ![j] = EndedRow(job[j], "failed", error)]
          /\ status = "failed" \/ job[j].status # "queued" => job' = job
    BY <1>7 DEF FailDelivery, Lifecycle!DispatchCodes
  <2>2. /\ outbox'[j][a].status = status
        /\ \A i \in Jobs, b \in Attempts : i # j \/ b # a => outbox'[i][b] = outbox[i][b]
        /\ EventsType'
    BY <2>1, EventBecomesWrite DEF EventStatus
  <2>3. outbox[j][a] # NoEvent /\ \A i \in Jobs \ {j} : outbox'[i] = outbox[i]
    BY <1>7, <2>2 DEF NoEvent, EventsType
  <2>4. CASE status = "dead_letter" /\ job[j].status = "queued"
    <3>1. PICK error \in Lifecycle!DispatchCodes :
            job' = [job EXCEPT ![j] = EndedRow(job[j], "failed", error)]
      BY <2>1, <2>4
    <3> DEFINE q == EndedRow(job[j], "failed", error)
    <3>2. Wrote(j, q)
      BY <3>1, EndedWrite DEF Lifecycle!DispatchCodes, Lifecycle!ErrorCodes
    <3>3. q.status = "failed" /\ q.attempt_no = job[j].attempt_no /\ ~q.retry
      BY <1>0, EndedRowFields
    <3>4. StepsAgree(q, step[j])
      BY <1>0, <2>4, <3>3, StepsUnmoved DEF Active, Agree
    <3>5. EventsAgree(q, outbox'[j])
      BY <3>3 DEF EventsAgree, Active
    <3>6. ResultAgrees(q, results[j])
      BY <1>0, <2>4, <3>3 DEF Agree, ResultAgrees
    <3>7. QED
      BY <1>7, <2>3, <3>2, <3>4, <3>5, <3>6, OneAgrees DEF Wrote, Agree, Alone
  <2>5. CASE status = "failed" \/ job[j].status # "queued"
    <3>1. job' = job
      BY <2>1, <2>5
    <3>2. EventsAgree(job[j], outbox'[j])
      <4>1. ASSUME job[j].status = "queued"
            PROVE  /\ job[j].attempt_no < MaxAttempts
                   /\ outbox'[j][job[j].attempt_no + 1].status \in Dispatchable
        <5>1. job[j].attempt_no < MaxAttempts /\ job[j].attempt_no + 1 \in Attempts
              /\ outbox[j][job[j].attempt_no + 1].status \in Dispatchable
          BY <1>0, <4>1 DEF Agree, EventsAgree, Attempts
        <5>2. QED
          BY <2>2, <2>5, <4>1, <5>1 DEF Dispatchable
      <4>2. \A b \in Attempts : outbox[j][b] = NoEvent => outbox'[j][b] = NoEvent
        BY <2>2, <2>3
      <4>3. QED
        BY <1>0, <4>1, <4>2 DEF Agree, EventsAgree
    <3>3. QED
      BY <1>0, <1>7, <2>3, <3>1, <3>2, OneAgrees DEF Agree, Alone
  <2>6. QED
    BY <2>1, <2>4, <2>5
<1>8. ASSUME NEW d \in Dispatchers, DispatcherNext(d) PROVE JobsAgree'
  <2>1. ASSUME UNCHANGED <<job, step, outbox, results>> PROVE JobsAgree'
    BY <2>1 DEF JobsAgree, Agree
  <2>2. CASE ClaimNextOutbox(d)
    <3>1. PICK j \in Jobs, a \in Attempts :
            /\ Claimable(j, a)
            /\ outbox' = [outbox EXCEPT ![j][a] =
                 [status |-> "processing", count |-> @.count + 1, due |-> FALSE]]
      BY <2>2 DEF ClaimNextOutbox
    <3>2. /\ outbox'[j][a].status = "processing" /\ outbox[j][a] # NoEvent
          /\ \A b \in Attempts \ {a} : outbox'[j][b] = outbox[j][b]
          /\ \A i \in Jobs \ {j} : outbox'[i] = outbox[i]
      BY <3>1 DEF EventsType, Claimable, NoEvent
    <3>3. EventsAgree(job[j], outbox'[j])
      <4>1. job[j].status = "queued" /\ job[j].attempt_no + 1 \in Attempts
        BY <1>0, <3>1 DEF Claimable, Agree, EventsAgree, Attempts
      <4>2. outbox'[j][job[j].attempt_no + 1].status \in Dispatchable
        BY <1>0, <3>2, <4>1 DEF Agree, EventsAgree, Dispatchable
      <4>3. \A b \in Attempts : outbox[j][b] = NoEvent => outbox'[j][b] = NoEvent
        BY <3>2
      <4>4. QED
        BY <1>0, <4>2, <4>3 DEF Agree, EventsAgree
    <3>4. QED
      BY <1>0, <2>2, <3>2, <3>3, OneAgrees DEF ClaimNextOutbox, Agree, Alone
  <2>3. CASE MarkPublished(d)
    <3> DEFINE j == dispatch[d].job
               a == dispatch[d].seq
    <3>1. CASE outbox' = outbox
      BY <2>1, <2>3, <3>1 DEF MarkPublished
    <3>2. CASE EventFenced(j, a, dispatch[d].count)
            /\ outbox' = EventBecomes(j, a, "published")
      <4>1. j \in Jobs /\ a \in Attempts
        BY <2>3 DEF MarkPublished, DispatchesOK, DispatchOK
      <4>2. /\ outbox'[j][a].status = "published"
            /\ \A i \in Jobs, b \in Attempts : i # j \/ b # a
                 => outbox'[i][b] = outbox[i][b]
            /\ EventsType'
        BY <3>2, <4>1, EventBecomesWrite DEF EventStatus
      <4>3. outbox[j][a] # NoEvent /\ \A i \in Jobs \ {j} : outbox'[i] = outbox[i]
        BY <3>2, <4>1, <4>2 DEF EventFenced, NoEvent, EventsType
      <4>4. \A b \in Attempts : outbox[j][b] = NoEvent => outbox'[j][b] = NoEvent
        BY <4>1, <4>2, <4>3
      <4>5. ASSUME job[j].status = "queued"
            PROVE  /\ job[j].attempt_no < MaxAttempts
                   /\ outbox'[j][job[j].attempt_no + 1].status \in Dispatchable
        <5>1. job[j].attempt_no < MaxAttempts /\ job[j].attempt_no + 1 \in Attempts
              /\ outbox[j][job[j].attempt_no + 1].status \in Dispatchable
          BY <1>0, <4>1, <4>5 DEF Agree, EventsAgree, Attempts
        <5>2. QED
          BY <4>1, <4>2, <5>1 DEF Dispatchable
      <4>6. EventsAgree(job[j], outbox'[j])
        BY <1>0, <4>1, <4>4, <4>5 DEF Agree, EventsAgree
      <4>7. QED
        BY <1>0, <2>3, <4>1, <4>3, <4>6, OneAgrees DEF MarkPublished, Agree, Alone
    <3>3. QED
      BY <2>3, <3>1, <3>2 DEF MarkPublished
  <2>4. CASE MarkFailure(d)
    <3>1. dispatch[d].job \in Jobs /\ dispatch[d].seq \in Attempts
      BY <2>4 DEF MarkFailure, DispatchesOK, DispatchOK
    <3>2. QED
      BY <1>7, <2>1, <2>4, <3>1 DEF MarkFailure, EventFenced
  <2>5. CASE ReapExpired(d)
    BY <1>7, <2>5 DEF ReapExpired
  <2>6. QED
    BY <1>8, <2>1, <2>2, <2>3, <2>4, <2>5
       DEF DispatcherNext, RejectRoute, Publish, DispatcherCrash
<1>9. ASSUME NEW w \in Workers, NEW j \in Jobs, NEW a \in Attempts, ClaimJob(w, j, a)
      PROVE  JobsAgree'
  <2> DEFINE q == RunningRow(job[j])
  <2>1. /\ job[j].status = "queued"
        /\ a = job[j].attempt_no + 1 /\ job[j].attempt_no < MaxAttempts
        /\ \A s \in Stages : step[j][a][s] = "none"
        /\ job' = [job EXCEPT ![j] = q]
    BY <1>0, <1>9 DEF ClaimJob, ClaimAllowed, Attempts
  <2>2. Wrote(j, q)
    BY <2>1, RunningWrite
  <2>3. q.status = "running" /\ q.attempt_no = a /\ q.stage = job[j].start
          /\ job[j].start \in Stages
    BY <1>0, <2>1, RunningRowFields
       DEF JobRecord, Lifecycle!JobRecord, Stages, Lifecycle!Stages
  <2>4. /\ step'[j][a][job[j].start] = "running"
        /\ \A b \in Attempts, s \in Stages : b # a \/ s # job[j].start
             => step'[j][b][s] = step[j][b][s]
        /\ \A i \in Jobs \ {j} : step'[i] = step[i]
    BY <1>9, <2>3 DEF ClaimJob, StepsType
  <2>5. StepsAgree(q, step'[j])
    BY <1>0, <2>1, <2>3, <2>4 DEF Agree, StepsAgree, Active, Attempts
  <2>6. EventsAgree(q, outbox[j])
    BY <1>0, <2>1, <2>3, EventsUnmoved DEF Agree, Active, Attempts
  <2>7. ResultAgrees(q, results[j])
    BY <1>0, <2>1, <2>3 DEF Agree, ResultAgrees
  <2>8. QED
    BY <1>9, <2>2, <2>4, <2>5, <2>6, <2>7, OneAgrees DEF ClaimJob, Wrote, Agree, Alone
<1>10. ASSUME NEW p \in Procs, Fenced(p) \/ claim[p] # NoClaim
       PROVE  claim[p].job \in Jobs
  BY <1>10 DEF Fenced, LeaseHeld, ClaimsOK, ClaimOK
<1>11. ASSUME NEW p \in Procs, Heartbeat(p) PROVE JobsAgree'
  <2>1. PICK j \in Jobs : j = claim[p].job
    BY <1>10, <1>11 DEF Heartbeat
  <2> DEFINE q == AtStage(job[j], job[j].stage)
  <2>2. /\ job[j].status \in Active /\ job[j].stage \in Stages
        /\ job' = [job EXCEPT ![j] = q]
    BY <1>0, <1>11, <2>1 DEF Heartbeat, RowOK
  <2>3. Wrote(j, q)
    BY <2>2, AtStageWrite
  <2>4. q.status = job[j].status /\ q.attempt_no = job[j].attempt_no
          /\ q.stage = job[j].stage
    BY <1>0, AtStageFields
  <2>5. StepsAgree(q, step[j])
    BY <1>0, <2>4 DEF Agree, StepsAgree
  <2>6. EventsAgree(q, outbox[j])
    BY <1>0, <2>2, <2>4, EventsUnmoved DEF Agree, Active
  <2>7. ResultAgrees(q, results[j])
    BY <1>0, <2>4 DEF Agree, ResultAgrees
  <2>8. QED
    BY <1>11, <2>3, <2>5, <2>6, <2>7, OneAgrees DEF Heartbeat, Wrote, Agree, Alone
<1>12. ASSUME NEW p \in Procs, AdvanceStep(p) PROVE JobsAgree'
  <2>1. PICK j \in Jobs : j = claim[p].job
    BY <1>10, <1>12 DEF AdvanceStep
  <2> DEFINE q == AtStage(job[j], job[j].stage + 1)
             a == job[j].attempt_no
  <2>2. /\ job[j].status = "running" /\ a \in Attempts
        /\ job[j].stage \in Stages /\ job[j].stage + 1 \in Stages
        /\ job' = [job EXCEPT ![j] = q]
    BY <1>0, <1>12, <2>1 DEF AdvanceStep, RowOK, Active, Stages
  <2>3. Wrote(j, q)
    BY <2>2, AtStageWrite DEF Active
  <2>4. q.status = job[j].status /\ q.attempt_no = a /\ q.stage = job[j].stage + 1
    BY <1>0, AtStageFields
  <2>5. PICK status \in {"succeeded", "skipped"} : step' = StepAdvances(j, status)
    BY <1>12, <2>1 DEF AdvanceStep
  <2>6. /\ step'[j][a][job[j].stage] = status /\ step'[j][a][job[j].stage + 1] = "running"
        /\ \A b \in Attempts, s \in Stages :
             b # a \/ s \notin {job[j].stage, job[j].stage + 1}
                  => step'[j][b][s] = step[j][b][s]
        /\ \A i \in Jobs \ {j} : step'[i] = step[i]
    <3>1. PICK st \in [Jobs -> [Attempts -> [Stages -> StepStatus]]] :
            st = StepEnds(j, status)
      BY StepUpdateTypes DEF StepStatus
    <3>2. /\ st[j][a][job[j].stage] = status
          /\ \A b \in Attempts, s \in Stages :
               b # a \/ s # job[j].stage => st[j][b][s] = step[j][b][s]
          /\ \A i \in Jobs \ {j} : st[i] = step[i]
      BY <2>2, <3>1 DEF StepEnds, StepsType
    <3>3. /\ step'[j][a][job[j].stage + 1] = "running"
          /\ \A b \in Attempts, s \in Stages :
               b # a \/ s # job[j].stage + 1 => step'[j][b][s] = st[j][b][s]
          /\ \A i \in Jobs \ {j} : step'[i] = st[i]
      BY <2>2, <2>5, <3>1 DEF StepAdvances
    <3>4. job[j].stage # job[j].stage + 1
      BY <2>2 DEF Stages
    <3>5. QED
      BY <2>2, <3>2, <3>3, <3>4
  <2>7. StepsAgree(q, step'[j])
    BY <1>0, <2>2, <2>4, <2>6 DEF Agree, StepsAgree, Active, Stages
  <2>8. EventsAgree(q, outbox[j])
    BY <1>0, <2>2, <2>4, EventsUnmoved DEF Agree, Active
  <2>9. ResultAgrees(q, results[j])
    BY <1>0, <2>2, <2>4 DEF Agree, ResultAgrees
  <2>10. QED
    BY <1>12, <2>3, <2>6, <2>7, <2>8, <2>9, OneAgrees DEF AdvanceStep, Wrote, Agree, Alone
<1>13. ASSUME NEW p \in Procs, Succeed(p) PROVE JobsAgree'
  <2>1. PICK j \in Jobs : j = claim[p].job
    BY <1>10, <1>13 DEF Succeed
  <2> DEFINE q == EndedRow(job[j], "succeeded", "none")
  <2>2. /\ job[j].status = "running" /\ job[j].attempt_no = claim[p].attempt
        /\ job' = [job EXCEPT ![j] = q]
    BY <1>13, <2>1 DEF Succeed, Fenced, LeaseHeld
  <2>3. Wrote(j, q)
    BY <2>2, EndedWrite DEF Lifecycle!ErrorCodes
  <2>4. q.status = "succeeded" /\ q.attempt_no = job[j].attempt_no
    BY <1>0, EndedRowFields
  <2>5. StepsAgree(q, step'[j]) /\ \A i \in Jobs \ {j} : step'[i] = step[i]
    BY <1>0, <1>13, <2>1, <2>2, <2>4, StepsEnd DEF Succeed, Agree, Active, StepStatus
  <2>6. EventsAgree(q, outbox[j])
    BY <1>0, <2>2, <2>4, EventsUnmoved DEF Agree, Active
  <2>7. /\ results'[j] = {q.attempt_no}
        /\ \A i \in Jobs \ {j} : results'[i] = results[i]
    BY <1>0, <1>13, <2>1, <2>2, <2>4 DEF Succeed, Agree, ResultAgrees, OthersType
  <2>8. ResultAgrees(q, results'[j])
    BY <2>4, <2>7 DEF ResultAgrees
  <2>9. QED
    BY <1>13, <2>3, <2>5, <2>6, <2>7, <2>8, OneAgrees DEF Succeed, Wrote, Agree, Alone
<1>14. ASSUME NEW p \in Procs, Fail(p) PROVE JobsAgree'
  <2>1. PICK j \in Jobs : j = claim[p].job
    BY <1>10, <1>14 DEF Fail
  <2>2. PICK code \in {"TRANSIENT", "PERMANENT"} :
          job' = [job EXCEPT ![j] = FailedRow(job[j], code)]
    BY <1>14, <2>1 DEF Fail
  <2> DEFINE q == FailedRow(job[j], code)
  <2>3. job[j].status = "running"
    BY <1>14, <2>1 DEF Fail
  <2>4. Wrote(j, q)
    BY <2>2, <2>3, FailedWrite DEF Active, Lifecycle!ErrorCodes
  <2>5. q.status = "failed" /\ q.attempt_no = job[j].attempt_no
    BY <1>0, FailedRowFields
  <2>6. StepsAgree(q, step'[j]) /\ \A i \in Jobs \ {j} : step'[i] = step[i]
    BY <1>0, <1>14, <2>1, <2>3, <2>5, StepsEnd DEF Fail, Agree, Active, StepStatus
  <2>7. EventsAgree(q, outbox[j])
    BY <1>0, <2>3, <2>5, EventsUnmoved DEF Agree, Active
  <2>8. ResultAgrees(q, results[j])
    BY <1>0, <2>3, <2>5 DEF Agree, ResultAgrees
  <2>9. QED
    BY <1>14, <2>4, <2>6, <2>7, <2>8, OneAgrees DEF Fail, Wrote, Agree, Alone
<1>15. ASSUME NEW p \in Procs, FinishCancel(p) PROVE JobsAgree'
  <2>1. PICK j \in Jobs : j = claim[p].job
    BY <1>10, <1>15 DEF FinishCancel
  <2> DEFINE q == EndedRow(job[j], "cancelled", "JOB_CANCELLED")
  <2>2. job[j].status = "cancel_requested" /\ job' = [job EXCEPT ![j] = q]
    BY <1>15, <2>1 DEF FinishCancel
  <2>3. Wrote(j, q)
    BY <2>2, EndedWrite DEF Lifecycle!ErrorCodes
  <2>4. q.status = "cancelled" /\ q.attempt_no = job[j].attempt_no
    BY <1>0, EndedRowFields
  <2>5. StepsAgree(q, step'[j]) /\ \A i \in Jobs \ {j} : step'[i] = step[i]
    BY <1>0, <1>15, <2>1, <2>2, <2>4, StepsEnd DEF FinishCancel, Agree, Active, StepStatus
  <2>6. EventsAgree(q, outbox[j])
    BY <1>0, <2>2, <2>4, EventsUnmoved DEF Agree, Active
  <2>7. ResultAgrees(q, results[j])
    BY <1>0, <2>2, <2>4 DEF Agree, ResultAgrees
  <2>8. QED
    BY <1>15, <2>3, <2>5, <2>6, <2>7, OneAgrees DEF FinishCancel, Wrote, Agree, Alone
<1>16. ASSUME NEW j \in Jobs, NEW a \in Attempts, EventFallsDue(j, a) PROVE JobsAgree'
  <2>1. /\ outbox'[j][a].status = outbox[j][a].status /\ outbox[j][a] # NoEvent
        /\ \A b \in Attempts \ {a} : outbox'[j][b] = outbox[j][b]
        /\ \A i \in Jobs \ {j} : outbox'[i] = outbox[i]
    BY <1>16 DEF EventFallsDue, EventsType, EventRecord, NoEvent
  <2>2. \A b \in Attempts : outbox'[j][b].status = outbox[j][b].status
    BY <2>1
  <2>3. \A b \in Attempts : outbox[j][b] = NoEvent => outbox'[j][b] = NoEvent
    BY <2>1
  <2>4. job[j].status = "queued" => job[j].attempt_no + 1 \in Attempts
    BY <1>0 DEF Agree, EventsAgree, Attempts
  <2>5. EventsAgree(job[j], outbox'[j])
    BY <1>0, <2>2, <2>3, <2>4 DEF Agree, EventsAgree
  <2>6. QED
    BY <1>0, <1>16, <2>1, <2>5, OneAgrees DEF EventFallsDue, Agree, Alone
<1>17. ASSUME UNCHANGED <<job, step, outbox, results>> PROVE JobsAgree'
  BY <1>17 DEF JobsAgree, Agree
<1>18. QED
  BY <1>1, <1>2, <1>3, <1>4, <1>5, <1>6, <1>8, <1>9, <1>11, <1>12, <1>13, <1>14, <1>15,
     <1>16, <1>17
     DEF Next, vars, Deliver, ExecutorNext, JobNext, EventNext, LeaseExpires, GraceElapses,
         RejectDelivery, Drop, BrokerLoses

\* Tables without rows agree.
LEMMA AgreeStarts == Init => JobsAgree
<1> SUFFICES ASSUME Init, NEW j \in Jobs PROVE Agree(j)
  BY DEF JobsAgree
<1>1. NoRow.status = "absent" /\ NoRow.attempt_no = 0
  BY DEF NoRow, Lifecycle!NoRow
<1>2. StepsAgree(NoRow, step[j])
  BY <1>1 DEF Init, StepsAgree, Active
<1>3. EventsAgree(NoRow, outbox[j]) /\ ResultAgrees(NoRow, results[j])
  BY <1>1 DEF Init, EventsAgree, ResultAgrees
<1>4. QED
  BY <1>2, <1>3 DEF Init, Agree

\* The agreement of the tables, for any number of jobs, workers and attempts.
LEMMA JobsAgreeCorrect == Spec => []JobsAgree
BY RecordsCorrect, AgreeStarts, JobsAgreeStep, PTL DEF Spec

\* However many messages, workers and takeovers a job has seen, the result of
\* one attempt was committed, the one its row is about, or none.
THEOREM ResultsCommittedOnce == Spec => []OneResult
BY AgreeImplies, RecordsCorrect, JobsAgreeCorrect, PTL

\* The rows of jobs, steps and events that different processes write agree.
THEOREM TablesInStep == Spec => []TablesAgree
BY AgreeImplies, RecordsCorrect, JobsAgreeCorrect, PTL

-----------------------------------------------------------------------------
(*************************** One holder ***********************************)

\* A process gets an attempt that no process can have, or keeps what it had.
Grants(p, c) == /\ claim' = [claim EXCEPT ![p] = c]
                /\ c = NoClaim \/ (c.job \in Jobs /\ c.attempt > job[c.job].attempt_no)
Renews(p) == claim[p] # NoClaim /\ claim' = [claim EXCEPT ![p].version = @ + 1]

\* A claim or takeover grants the attempt after the last; nobody grants it twice.
LEMMA OneHolderStep ==
  RecordsOK /\ OneHolder /\ [Next]_vars => OneHolder'
<1> SUFFICES ASSUME RecordsOK, OneHolder, [Next]_vars PROVE OneHolder'
  OBVIOUS
<1> USE DEF RecordsOK
<1>1. \A p \in Procs : /\ claim[p] \in ClaimRecord
                       /\ claim[p] # NoClaim =>
                            /\ claim[p].job \in Jobs
                            /\ claim[p].attempt <= job[claim[p].job].attempt_no
  BY DEF ClaimsOK, ClaimOK
<1>2. NoClaim \in ClaimRecord /\ NoClaim.job \notin Jobs
  BY DEF NoClaim, ClaimRecord
<1>3. \A j \in Jobs : job[j].attempt_no \in Nat
  BY DEF JobsOK, JobRecord, Lifecycle!JobRecord
<1>4. ASSUME NEW p \in Procs, NEW c \in ClaimRecord, Grants(p, c) PROVE OneHolder'
  <2>1. \A q \in Procs \ {p} : claim'[q] = claim[q]
    BY <1>4 DEF Grants, ClaimsOK
  <2>2. claim'[p] = c
    BY <1>4 DEF Grants, ClaimsOK
  <2>3. ASSUME NEW q \in Procs \ {p}, claim[q] # NoClaim \/ c # NoClaim,
               claim[q].job = c.job, claim[q].attempt = c.attempt
        PROVE  FALSE
    <3>1. claim[q] # NoClaim /\ claim[q].job \in Jobs
      BY <1>1, <1>2, <1>4, <2>3 DEF Grants
    <3>2. c.attempt > job[c.job].attempt_no
      BY <1>2, <1>4, <2>3, <3>1 DEF Grants
    <3>3. claim[q].attempt <= job[c.job].attempt_no
      BY <1>1, <2>3, <3>1
    <3>4. c.attempt \in Nat /\ claim[q].attempt \in Nat /\ job[c.job].attempt_no \in Nat
      BY <1>1, <1>3, <2>3, <3>1 DEF ClaimRecord, Attempts
    <3>5. QED
      BY <2>3, <3>2, <3>3, <3>4
  <2>4. QED
    BY <2>1, <2>2, <2>3 DEF OneHolder
<1>5. ASSUME NEW p \in Procs, Renews(p) PROVE OneHolder'
  <2>1. /\ \A q \in Procs \ {p} : claim'[q] = claim[q]
        /\ claim'[p].job = claim[p].job /\ claim'[p].attempt = claim[p].attempt
    BY <1>1, <1>5 DEF Renews, ClaimsOK, ClaimRecord
  <2>2. \A q \in Procs : /\ claim'[q].job = claim[q].job
                         /\ claim'[q].attempt = claim[q].attempt
                         /\ claim'[q] # NoClaim => claim[q] # NoClaim
    BY <1>5, <2>1 DEF Renews
  <2>3. QED
    BY <2>2 DEF OneHolder
<1>6. \A p \in Procs : claim' = [claim EXCEPT ![p] = NoClaim] => OneHolder'
  BY <1>2, <1>4 DEF Grants
<1>7. claim' = claim => OneHolder'
  BY DEF OneHolder
<1>8. ASSUME NEW w \in Workers, NEW j \in Jobs, NEW a \in Attempts, ClaimJob(w, j, a)
      PROVE  OneHolder'
  <2> DEFINE c == [job |-> j, attempt |-> a, version |-> job[j].row_version + 1]
  <2>1. c \in ClaimRecord
    BY DEF ClaimRecord, JobsOK, JobRecord, Lifecycle!JobRecord, Attempts
  <2>2. Grants(w, c)
    BY <1>3, <1>8 DEF ClaimJob, ClaimAllowed, Grants
  <2>3. QED
    BY <1>4, <2>1, <2>2 DEF Procs
<1>9. ASSUME NEW j \in Jobs, TakeOver(j) PROVE OneHolder'
  <2> DEFINE c == [job |-> j, attempt |-> job[j].attempt_no + 1,
                    version |-> job[j].row_version + 1]
  <2>1. c \in ClaimRecord
    BY <1>3, <1>9
       DEF TakeOver, AttemptsLeft, ClaimRecord, JobsOK, JobRecord, Lifecycle!JobRecord
  <2>2. Grants(Maintenance, c)
    BY <1>3, <1>9 DEF TakeOver, Grants
  <2>3. QED
    BY <1>4, <2>1, <2>2 DEF Procs
<1>10. QED
  BY <1>5, <1>6, <1>7, <1>8, <1>9
     DEF Next, vars, DispatcherNext, Deliver, ExecutorNext, JobNext, EventNext,
         ClaimNextOutbox, RejectRoute, Publish, MarkPublished, MarkFailure, ReapExpired,
         DispatcherCrash, RejectDelivery, Heartbeat, Fenced, LeaseHeld, AdvanceStep, Succeed,
         Fail, FinishCancel, Drop, CreateJob, RequestCancel, Requeue, GiveUpLost,
         LeaseExpires, GraceElapses, EventFallsDue, BrokerLoses, Renews

\* One attempt of a job belongs to one executor, however often its message is
\* delivered and its lease taken over.
THEOREM AttemptsHaveOneHolder == Spec => []OneHolder
<1>1. Init => OneHolder
  BY DEF Init, OneHolder
<1>2. QED
  BY <1>1, RecordsCorrect, OneHolderStep, PTL DEF Spec
=============================================================================
