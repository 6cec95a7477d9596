------------------------------ MODULE AiCalls ------------------------------
(***************************************************************************)
(* A provider call from its reservation to its adoption: the invoker of    *)
(* services/audited_llm.py and ai/embedding_runtime.py with its sink and   *)
(* permits, the durable events and the log of                              *)
(* repositories/ai_call_audit.py, and the gate of AiRuntimeControl.        *)
(*                                                                         *)
(* Work is what calls are made for: an extraction, an explanation, a draft *)
(* or an answer by the LLM, or a batch of texts to embed.  A run is one    *)
(* attempt of it: a job's work is run again when its worker dies, fails or *)
(* loses the lease, and the old worker may go on.  Late completions        *)
(* (sequence 3) have no sender.                                            *)
(***************************************************************************)
EXTENDS AiRuntimeControl, Functions, FiniteSetsExt

CONSTANTS
  Works,          \* what calls are made for
  Embeddings,     \* the works that embed texts; the others ask the LLM
  MaxAttempts,    \* max_attempts of a job
  Repairs,        \* max_model_repairs
  Size,           \* tokens and cost reserved for an attempt, by its number
  MaxTotal        \* max_total_tokens, max_cost_microunits of an operation

Runs == Works \X (1..MaxAttempts)

ASSUME AiCallsAssumption ==
  /\ Calls = Runs \X (1..Repairs + 1)
  /\ Repairs \in Nat /\ MaxTotal \in Nat
  /\ Size \in [1..Repairs + 1 -> Nat]
  /\ MaxAttempts \in Nat \ {0}
  /\ Embeddings \subseteq Works

VARIABLES
  run,         \* what the process of each run does: [at, no, verdict]
  current,     \* the run whose job lease is valid, of each work
  late,        \* runs whose deadline (and then the grace of 30 s) has passed
  started,     \* the event ai.call.started: its outbox status, or "none"
  completed,   \* the event ai.call.completed: its verdict, or "none"
  log,         \* ai_call_logs.status, or "none"
  adopted,     \* calls whose output a committed business transaction uses
  sent         \* calls that went out to the provider

avars == <<run, current, late, started, completed, log, adopted, sent>>
vars  == <<run, current, late, started, completed, log, adopted, sent, rvars>>

\* Faulty variant: LLM calls, too, are identified by the attempt.
OperationOfRun(r) == r

\* business_operation_id: an LLM call has the id of its job, report, risk or
\* question, an embedding call of a job one made from the job, its attempt and the
\* batch (that of a question has the id of the question; it is never repeated and
\* not here).
Operation(r) == IF r[1] \in Embeddings THEN r ELSE r[1]

Operations == {Operation(r) : r \in Runs}
Verdicts   == {"succeeded", "failed", "rejected", "outcome_unknown"}
Call(r)    == <<r, run[r].no>>
OpOf(c)    == Operation(c[1])

RunState ==
  [at : {"idle", "entering", "admitted", "asking", "cleared", "sent", "closing", "confirming",
         "answered", "refused", "ended"},
   no : 1..Repairs + 1, verdict : {"none", "failed", "invalid", "rejected"}]
NotRun == [at |-> "idle", no |-> 1, verdict |-> "none"]

Goes(r, place)  == run' = [run EXCEPT ![r].at = place]
Closes(r, v)    == run' = [run EXCEPT ![r].at = "closing", ![r].verdict = v]
Holds(r)        == current[r[1]] = r

Init ==
  /\ RuntimeInit
  /\ run = [r \in Runs |-> NotRun]
  /\ current = [w \in Works |-> NoCall]
  /\ late = {}
  /\ started = [c \in Calls |-> "none"]
  /\ completed = [c \in Calls |-> "none"]
  /\ log = [c \in Calls |-> "none"]
  /\ adopted = {} /\ sent = {}

-----------------------------------------------------------------------------
(***************************** Runs and the gate **************************)

\* LLM and embeddings have pools and targets of their own.  There is one gate here,
\* which belongs to the kind of run that comes first.
SameGate(r) ==
  \A s \in Runs : run[s] # NotRun => (s[1] \in Embeddings <=> r[1] \in Embeddings)

\* A worker starts some work, or its next attempt: the one before has lost its lease,
\* whatever it is doing.  Work whose output was adopted is finished.
StartRun(r) ==
  /\ run[r] = NotRun /\ SameGate(r)
  /\ \A s \in Runs : s[1] = r[1] /\ s[2] < r[2] => run[s] # NotRun
  /\ \A c \in adopted : c[1][1] # r[1]
  /\ Goes(r, "entering")
  /\ current' = [current EXCEPT ![r[1]] = r]
  /\ UNCHANGED <<late, started, completed, log, adopted, sent, rvars>>

\* invoke: deadline, then the runtime permit.  The reply of Redis may be lost.
EnterGate(r) ==
  /\ run[r].at = "entering" /\ r \notin late
  /\ Acquire(Call(r))
  /\ \/ Goes(r, "admitted") \/ Goes(r, "ended")
  /\ UNCHANGED <<current, late, started, completed, log, adopted, sent>>

\* Deadline, preflight, breaker, pool, buckets or no Redis: nothing was reserved.
TurnedAway(r) ==
  /\ run[r].at = "entering"
  /\ Deny
  /\ Goes(r, "ended")
  /\ UNCHANGED <<current, late, started, completed, log, adopted, sent>>

-----------------------------------------------------------------------------
(***************************** Reservation ********************************)

Siblings(c)   == {d \in Calls : OpOf(d) = OpOf(c) /\ started[d] # "none"}
Reserved(C)   == FoldSet(LAMBDA c, n : Size[c[2]] + n, 0, C)
NumberTaken(c) == \E d \in Siblings(c) : d # c /\ d[2] = c[2]
OverBudget(c) == Reserved(Siblings(c) \cup {c}) > MaxTotal

\* Faulty variant: each run counts its own reservations only.
ReservablePerRun(r) ==
  /\ r \notin late /\ ~ NumberTaken(Call(r))
  /\ Reserved({d \in Siblings(Call(r)) : d = Call(r)} \cup {Call(r)}) <= MaxTotal

Reservable(r) ==
  r \notin late /\ ~ NumberTaken(Call(r)) /\ ~ OverBudget(Call(r))

\* reserve_attempt of the repository under the operation lock, committed: a new
\* row, or the row a reply was lost for.
Reserve(r) ==
  /\ run[r].at \in {"admitted", "asking"}
  /\ started[Call(r)] # "none" \/ Reservable(r)
  /\ started' = IF started[Call(r)] = "none"
                THEN [started EXCEPT ![Call(r)] = "pending"] ELSE started
  /\ Goes(r, "cleared")
  /\ UNCHANGED <<current, late, completed, log, adopted, sent, rvars>>

\* conflict, budget_exhausted or deadline_exhausted.
ReserveRefused(r) ==
  /\ run[r].at \in {"admitted", "asking"}
  /\ started[Call(r)] = "none" /\ ~ Reservable(r)
  /\ Goes(r, "refused")
  /\ UNCHANGED <<current, late, started, completed, log, adopted, sent, rvars>>

\* The commit's reply is lost (DBAPIError): asked once more, with the same id.
ReserveUnknown(r) ==
  /\ run[r].at \in {"admitted", "asking"}
  /\ \/ UNCHANGED started
     \/ /\ started[Call(r)] = "none" /\ Reservable(r)
        /\ started' = [started EXCEPT ![Call(r)] = "pending"]
  /\ Goes(r, IF run[r].at = "admitted" THEN "asking" ELSE "refused")
  /\ UNCHANGED <<current, late, completed, log, adopted, sent, rvars>>

\* The permit is given back as neutral before the error is raised.
BackOut(r) ==
  /\ run[r].at = "refused"
  /\ Finish(Call(r), "neutral") \/ UNCHANGED rvars
  /\ Goes(r, "ended")
  /\ UNCHANGED <<current, late, started, completed, log, adopted, sent>>

-----------------------------------------------------------------------------
(***************************** The provider *******************************)

Send(r) ==
  /\ run[r].at = "cleared" /\ r \notin late
  /\ sent' = sent \cup {Call(r)}
  /\ Goes(r, "sent")
  /\ UNCHANGED <<current, late, started, completed, log, adopted, rvars>>

TooLateToSend(r) ==
  /\ run[r].at = "cleared" /\ r \in late
  /\ Goes(r, "refused")
  /\ UNCHANGED <<current, late, started, completed, log, adopted, sent, rvars>>

\* A technical failure counts against the target; other failures, an answer
\* without usage, one above its reservation, are neutral.  The permit's reply may
\* be lost.
Fails(r) ==
  /\ run[r].at = "sent"
  /\ \/ Finish(Call(r), "transient_failure") /\ Closes(r, "failed")
     \/ Finish(Call(r), "neutral") /\ \E v \in {"failed", "rejected"} : Closes(r, v)
     \/ UNCHANGED rvars /\ \E v \in {"failed", "rejected"} : Closes(r, v)
  /\ UNCHANGED <<current, late, started, completed, log, adopted, sent>>

\* A usable answer: valid output is handed to the business, invalid output of the
\* LLM is rejected; without the permit's reply the answer counts as failed.
Answers(r) ==
  /\ run[r].at = "sent"
  /\ Finish(Call(r), "success")
  /\ \/ Goes(r, "answered") \/ Closes(r, "failed")
     \/ r[1] \notin Embeddings /\ Closes(r, "invalid")
  /\ UNCHANGED <<current, late, started, completed, log, adopted, sent>>

-----------------------------------------------------------------------------
(************************* Completion and adoption ************************)

StatusOf(v) == IF v = "invalid" THEN "rejected" ELSE v

\* append_completion finds no other completed event; one is written at most.
Completable(c, v) == completed[c] \in {"none", v}

\* After invalid output the caller goes on with the repair prompt.
Settled(r) ==
  run' = IF run[r].verdict = "invalid" /\ run[r].no <= Repairs
         THEN [run EXCEPT ![r] = [at |-> "entering", no |-> @.no + 1, verdict |-> "none"]]
         ELSE [run EXCEPT ![r].at = "ended"]

Complete(r) ==
  LET v == StatusOf(run[r].verdict) IN
  /\ run[r].at \in {"closing", "confirming"}
  /\ \/ /\ Completable(Call(r), v)
        /\ completed' = [completed EXCEPT ![Call(r)] = v]
        /\ Settled(r)
     \/ ~ Completable(Call(r), v) /\ UNCHANGED completed /\ Goes(r, "ended")
  /\ UNCHANGED <<current, late, started, log, adopted, sent, rvars>>

\* The commit's reply is lost: asked once more, then AI_AUDIT_COMPLETION_UNAVAILABLE.
CompleteUnknown(r) ==
  LET v == StatusOf(run[r].verdict) IN
  /\ run[r].at \in {"closing", "confirming"}
  /\ \/ UNCHANGED completed
     \/ Completable(Call(r), v) /\ completed' = [completed EXCEPT ![Call(r)] = v]
  /\ Goes(r, IF run[r].at = "closing" THEN "confirming" ELSE "ended")
  /\ UNCHANGED <<current, late, started, log, adopted, sent, rvars>>

\* adopt_in_transaction: completion and business facts commit together, or, when
\* the lease is lost or another verdict stands, neither.
Adopt(r) ==
  /\ run[r].at = "answered" /\ Holds(r)
  /\ completed[Call(r)] = "none"
  /\ completed' = [completed EXCEPT ![Call(r)] = "succeeded"]
  /\ adopted' = adopted \cup {Call(r)}
  /\ Goes(r, "ended")
  /\ UNCHANGED <<current, late, started, log, sent, rvars>>

\* reject_in_transaction: the business no longer wants the answer.
Decline(r) ==
  /\ run[r].at = "answered" /\ Holds(r)
  /\ completed[Call(r)] = "none"
  /\ completed' = [completed EXCEPT ![Call(r)] = "rejected"]
  /\ Goes(r, "ended")
  /\ UNCHANGED <<current, late, started, log, adopted, sent, rvars>>

\* The business transaction rolls back and takes the completion with it.
Abandon(r) ==
  /\ run[r].at = "answered"
  /\ Goes(r, "ended")
  /\ UNCHANGED <<current, late, started, completed, log, adopted, sent, rvars>>

\* The process dies: its permits die with it, its leases do not.
Crash(r) ==
  /\ run[r].at \notin {"idle", "ended"}
  /\ Goes(r, "ended")
  /\ UNCHANGED <<current, late, started, completed, log, adopted, sent, rvars>>

-----------------------------------------------------------------------------
(*********************** Projection and reconciliation ********************)

\* project_next: the log row of a started event, in one transaction.
ProjectStarted(c) ==
  /\ started[c] = "pending"
  /\ started' = [started EXCEPT ![c] = "published"]
  /\ log' = [log EXCEPT ![c] = "pending"]
  /\ UNCHANGED <<run, current, late, completed, adopted, sent, rvars>>

\* A completed event waits until its started event is published.
ProjectCompleted(c) ==
  /\ started[c] = "published" /\ completed[c] # "none"
  /\ log[c] = "pending"
  /\ log' = [log EXCEPT ![c] = completed[c]]
  /\ UNCHANGED <<run, current, late, started, completed, adopted, sent, rvars>>

\* Faulty variant: an expired call without an answer is left to its process.
ReconcileAnswered(c) ==
  /\ c[1] \in late /\ log[c] = "pending" /\ completed[c] # "none"
  /\ log' = [log EXCEPT ![c] = completed[c]]
  /\ UNCHANGED <<run, current, late, started, completed, adopted, sent, rvars>>

\* reconcile_expired_once: a call still pending after deadline and grace gets the
\* verdict outcome_unknown, projected in the same transaction.
Reconcile(c) ==
  /\ c[1] \in late /\ log[c] = "pending" /\ completed[c] = "none"
  /\ completed' = [completed EXCEPT ![c] = "outcome_unknown"]
  /\ log' = [log EXCEPT ![c] = "outcome_unknown"]
  /\ UNCHANGED <<run, current, late, started, adopted, sent, rvars>>

DeadlinePasses(r) ==
  /\ run[r].at # "idle" /\ r \notin late
  /\ late' = late \cup {r}
  /\ UNCHANGED <<run, current, started, completed, log, adopted, sent, rvars>>

\* A lease lasts until the deadline of its run.
LeaseRunsOut(c) ==
  /\ c[1] \in late
  /\ LeaseExpires(c)
  /\ UNCHANGED avars

Invoke(r) ==
  \/ StartRun(r) \/ EnterGate(r) \/ TurnedAway(r)
  \/ Reserve(r) \/ ReserveRefused(r) \/ ReserveUnknown(r) \/ BackOut(r)
  \/ Send(r) \/ TooLateToSend(r) \/ Fails(r) \/ Answers(r)
  \/ Complete(r) \/ CompleteUnknown(r)
  \/ Adopt(r) \/ Decline(r) \/ Abandon(r) \/ Crash(r)

Next ==
  \/ \E r \in Runs : Invoke(r) \/ DeadlinePasses(r)
  \/ \E c \in Calls :
       ProjectStarted(c) \/ ProjectCompleted(c) \/ Reconcile(c) \/ LeaseRunsOut(c)
  \/ RuntimeClock /\ UNCHANGED avars

\* Time passes and the maintenance loop comes back to every call; no process has to
\* take another step.
Fairness ==
  /\ \A r \in Runs : WF_vars(DeadlinePasses(r))
  /\ \A c \in Calls :
       WF_vars(ProjectStarted(c)) /\ WF_vars(ProjectCompleted(c)) /\ WF_vars(Reconcile(c))

Spec == Init /\ [][Next]_vars /\ Fairness

-----------------------------------------------------------------------------
(****************************** Properties ********************************)

TypeOK ==
  /\ RuntimeTypeOK
  /\ run \in [Runs -> RunState]
  /\ current \in [Works -> Runs \cup {NoCall}]
  /\ late \subseteq Runs
  /\ started \in [Calls -> {"none", "pending", "published"}]
  /\ completed \in [Calls -> Verdicts \cup {"none"}]
  /\ log \in [Calls -> Verdicts \cup {"none", "pending"}]
  /\ adopted \subseteq Calls /\ sent \subseteq Calls

\* What went out was durably reserved before, and over all runs, crashes and lost
\* replies an operation never spends more than its budget (reserve_attempt); and
\* the gate that all of them share holds.
WithinLimits ==
  /\ AdmissionBounds
  /\ \A c \in sent : started[c] # "none"
  /\ \A o \in Operations : Reserved({c \in sent : OpOf(c) = o}) <= MaxTotal

\* Once a run has called the LLM, no later run of the same work does: a repeated
\* extraction, explanation or draft degrades instead of paying twice, because the
\* operation id outlives the attempt and reserve_attempt gives each number once
\* (CR-011: recovery must not call the provider again).  This is not so of jobs that
\* embed, whose operation is of one attempt: a retried build or evaluation pays again.
OneRunCalls ==
  \A c, d \in sent :
    c[1][1] = d[1][1] /\ c[1][1] \notin Embeddings => c[1] = d[1]

\* The audit record keeps its promise: one verdict for each call, output used only
\* under the verdict "succeeded", and a log that repeats it.
Record == INSTANCE AiCallRecord WITH
  Calls <- Calls, Verdicts <- Verdicts, None <- "none",
  opened <- {c \in Calls : started[c] # "none"},
  verdict <- completed, adopted <- adopted, shown <- log
ImplementsCallRecord == Record!Spec

\* Every reserved call reaches a verdict in the log and keeps it, whatever happens to
\* the process that made it (project_once and reconcile_once of the maintenance loop).
CallsSettle ==
  <>[](\A c \in Calls : started[c] # "none" => log[c] \in Verdicts)
=============================================================================
