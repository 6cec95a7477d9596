----------------------- MODULE DocumentVersionsProofs -----------------------
(***************************************************************************)
(* Safety of the parse versions of one file, for any number of versions    *)
(* and dispatches: every candidate and its job end together, the copies of *)
(* a revalidation are there exactly as long as its result needs them, no   *)
(* correction is lost, and the versions and their jobs keep the promises   *)
(* of ParseVersionLifecycle and JobRowLifecycle.                           *)
(***************************************************************************)
EXTENDS DocumentVersions, TLAPS

Built(v) == status[v] \in {"succeeded", "review", "active", "superseded"}

DocTypes ==
  /\ kind \in [Versions -> {"parse", "correction", "revalidation"}]
  /\ parent \in [Versions -> Nat]
  /\ status \in [Versions -> {"absent", "queued", "running", "succeeded", "review", "failed",
                              "active", "superseded"}]
  /\ fixes \in [Versions -> SUBSET Versions]
  /\ copies \in [Versions -> {"none", "kept", "deleted"}]
  /\ job \in [Versions -> {"none", "queued", "running", "succeeded", "failed"}]
  /\ worker \in [Versions -> {"none", "working", "copied", "undoing", "withdrawing", "failing",
                              "done", "dead"}]

(***************************************************************************)
(* The inductive invariant.  One version is active, the one whose Markdown *)
(* is; a candidate was made from a version that is built, and contains its *)
(* corrections once it is built itself; and what an executor has in the    *)
(* store is told by where it stands.                                       *)
(***************************************************************************)
OneActive ==
  /\ markdown \in Versions
  /\ \A v \in Versions : status[v] = "active" <=> v = markdown

Family ==
  /\ status[1] \in {"active", "superseded"} /\ kind[1] = "parse"
  /\ \A v \in Candidates :
       /\ status[v] = "absent" => job[v] = "none"
       /\ status[v] # "absent" =>
            /\ job[v] = Outcome(status[v])
            /\ parent[v] \in Versions /\ status[parent[v]] \in {"active", "superseded"}
       /\ Built(v) => fixes[parent[v]] \subseteq fixes[v]

WorkMatches(v) ==
  /\ status[v] \in {"absent", "queued"} => worker[v] = "none"
  /\ worker[v] = "none" => copies[v] = "none" /\ ~Built(v)
  /\ kind[v] = "revalidation" =>
       /\ worker[v] = "working" => copies[v] = "none" /\ ~Built(v)
       /\ worker[v] = "copied" => copies[v] = "kept" /\ ~Built(v)
       /\ worker[v] = "withdrawing" => ~Built(v)
       /\ worker[v] = "failing" => copies[v] # "kept" /\ ~Built(v)
       /\ worker[v] \in {"undoing", "dead"} /\ Built(v) => v \in unheard
       /\ worker[v] = "done" /\ Built(v) /\ v \notin unheard => copies[v] = "kept"
       /\ worker[v] = "done" /\ ~Built(v) => copies[v] # "kept"

WorkersMatch == \A v \in Candidates : WorkMatches(v)

DocInv == DocTypes /\ OneActive /\ Family /\ WorkersMatch

USE DocumentAssumption

-----------------------------------------------------------------------------
(*************************** The active version ***************************)

LEMMA ActiveIsMarkdown ==
  ASSUME OneActive
  PROVE  Active = markdown /\ Active \in Versions /\ status[Active] = "active"
BY DEF OneActive, Active

LEMMA CandidateTypes ==
  /\ 1 \in Versions
  /\ \A v \in Candidates : v \in Versions /\ v # 1
  /\ \A v \in Versions : v # 1 => v \in Candidates
BY DEF Versions, Candidates

-----------------------------------------------------------------------------
(***************************** What a step does ***************************)

(***************************************************************************)
(* Every step does one of six things to the versions: it accepts, begins,  *)
(* builds, fails or activates one candidate, or leaves status, parent,     *)
(* fixes and the jobs' states as they are.                                 *)
(***************************************************************************)
RowsKept == UNCHANGED <<kind, parent, status, fixes, markdown, job>>

NewCandidate(v) ==
  /\ status[v] = "absent"
  /\ Turns(v, "queued") /\ job' = [job EXCEPT ![v] = "queued"]
  /\ parent' = [parent EXCEPT ![v] = Active]
  /\ \E k \in {"correction", "revalidation"} : kind' = [kind EXCEPT ![v] = k]
  /\ UNCHANGED <<fixes, markdown, worker, copies, unheard>>

BegunCandidate(v) ==
  /\ job[v] = "queued"
  /\ Turns(v, "running") /\ job' = [job EXCEPT ![v] = "running"]
  /\ Goes(v, "working")
  /\ UNCHANGED <<kind, parent, fixes, markdown, copies, unheard>>

BuiltCandidate(v) ==
  /\ job[v] = "running"
  /\ Turns(v, "succeeded") \/ Turns(v, "review")
  /\ job' = [job EXCEPT ![v] = "succeeded"]
  /\ \E own \in SUBSET {v} : fixes' = [fixes EXCEPT ![v] = fixes[parent[v]] \cup own]
  /\ UNCHANGED <<kind, parent, markdown, copies>>
  /\ \/ kind[v] = "correction" /\ Goes(v, "done") /\ unheard' = unheard
     \/ worker[v] = "copied" /\ Goes(v, "done") /\ unheard' = unheard
     \/ worker[v] = "copied" /\ Goes(v, "undoing") /\ unheard' = unheard \cup {v}

FailedCandidate(v) ==
  /\ status[v] \in {"queued", "running"}
  /\ Turns(v, "failed") /\ job' = [job EXCEPT ![v] = "failed"]
  /\ UNCHANGED <<kind, parent, fixes, markdown, copies, unheard>>
  /\ worker' = worker \/ (worker[v] = "failing" /\ Goes(v, "done"))

ActivatedCandidate(v) ==
  /\ status[v] = "succeeded" /\ parent[v] = Active
  /\ Swaps(v)
  /\ UNCHANGED <<kind, parent, fixes, job, worker, copies, unheard>>

\* An executor goes on, or dies, without a word to the database.
WorkerMoves(v) ==
  /\ RowsKept
  /\ \/ /\ worker[v] = "working" /\ kind[v] = "correction"
        /\ Goes(v, "failing") /\ UNCHANGED <<copies, unheard>>
     \/ /\ worker[v] = "working" /\ kind[v] = "revalidation"
        /\ \/ /\ copies' = [copies EXCEPT ![v] = "kept"]
              /\ Goes(v, "copied") \/ Goes(v, "withdrawing")
           \/ Goes(v, "failing") /\ UNCHANGED copies
        /\ UNCHANGED unheard
     \/ /\ worker[v] = "copied"
        /\ Goes(v, "undoing") \/ Goes(v, "withdrawing")
        /\ UNCHANGED <<copies, unheard>>
     \/ /\ worker[v] \in {"undoing", "withdrawing"}
        /\ copies' = [copies EXCEPT ![v] = "deleted"]
        /\ Goes(v, IF worker[v] = "undoing" THEN "done" ELSE "failing")
        /\ UNCHANGED unheard
     \/ worker[v] = "failing" /\ Goes(v, "done") /\ UNCHANGED <<copies, unheard>>
     \/ Busy(v) /\ Goes(v, "dead") /\ UNCHANGED <<copies, unheard>>

NothingMoves == RowsKept /\ UNCHANGED work

LEMMA FailEventDoes ==
  ASSUME DocInv, NEW v, FailEvent(v) \/ (status[v] = "queued" /\ DeadLetter(v)),
         UNCHANGED <<kind, parent, fixes, markdown, work>>
  PROVE  NothingMoves \/ \E u \in Candidates : FailedCandidate(u)
<1>1. CASE UNCHANGED <<job, status>>
  BY <1>1 DEF NothingMoves, RowsKept
<1>2. CASE status[v] = "queued" /\ DeadLetter(v)
  <2>1. CASE v \in Versions
    <3>1. v # 1
      BY <1>2 DEF DocInv, Family
    <3>2. v \in Candidates
      BY <2>1, <3>1, CandidateTypes
    <3>3. FailedCandidate(v)
      BY <1>2 DEF DeadLetter, FailedCandidate, work
    <3>4. QED
      BY <3>2, <3>3
  <2>2. CASE v \notin Versions
    <3>1. job' = job /\ status' = status
      BY <1>2, <2>2 DEF DeadLetter, Turns, DocInv, DocTypes
    <3>2. QED
      BY <3>1 DEF NothingMoves, RowsKept
  <2>3. QED
    BY <2>1, <2>2
<1>3. QED
  BY <1>1, <1>2 DEF FailEvent, RetryLater, Refused

LEMMA StepDoes ==
  ASSUME DocInv, [Next]_vars
  PROVE  \/ NothingMoves
         \/ \E v \in Candidates :
              \/ NewCandidate(v) \/ BegunCandidate(v) \/ BuiltCandidate(v)
              \/ FailedCandidate(v) \/ ActivatedCandidate(v) \/ WorkerMoves(v)
<1> DEFINE Goal == \/ NothingMoves
                   \/ \E v \in Candidates :
                        \/ NewCandidate(v) \/ BegunCandidate(v) \/ BuiltCandidate(v)
                        \/ FailedCandidate(v) \/ ActivatedCandidate(v) \/ WorkerMoves(v)
<1>1. DocTypes /\ OneActive /\ Family /\ WorkersMatch
  BY DEF DocInv
<1>2. CASE UNCHANGED vars
  BY <1>2 DEF vars, versions, jobs, NothingMoves, RowsKept
<1>3. CASE Send \/ Confirm \/ Reap
  <2>1. CASE UNCHANGED <<job, status>>
    BY <1>3, <2>1 DEF Send, Confirm, Reap, NothingMoves, RowsKept, jobs, versions
  <2>2. CASE ~UNCHANGED <<job, status>>
    <3>1. UNCHANGED <<kind, parent, fixes, markdown, work>>
      BY <1>3 DEF Send, Confirm, Reap
    <3>2. PICK v : FailEvent(v) \/ (status[v] = "queued" /\ DeadLetter(v))
      BY <1>3, <2>2 DEF Send, Confirm, Reap
    <3>3. QED
      BY <3>1, <3>2, FailEventDoes
  <2>3. QED
    BY <2>1, <2>2
<1>4. CASE DispatcherDies \/ EventExpires \/ \E v \in Candidates : ClaimEvent(v)
  BY <1>4 DEF DispatcherDies, EventExpires, ClaimEvent, NothingMoves, RowsKept, jobs, versions
<1>5. ASSUME NEW v \in Candidates, Users(v)
      PROVE  Goal
  <2>1. CASE CorrectBlock(v) \/ RequestRevalidation(v)
    <3>1. NewCandidate(v)
      BY <2>1 DEF CorrectBlock, RequestRevalidation, Accepts, Fresh, NewCandidate, work
    <3>2. QED
      BY <3>1
  <2>2. CASE Activate(v)
    <3>1. ActivatedCandidate(v)
      BY <2>2 DEF Activate, ActivatedCandidate, jobs, work
    <3>2. QED
      BY <3>1
  <2>3. QED
    BY <1>5, <2>1, <2>2 DEF Users
<1>6. ASSUME NEW v \in Candidates, Deliver(v)
      PROVE  Goal
  <2>1. CASE job[v] = "queued" /\ event[v] # "dead"
    <3>1. BegunCandidate(v)
      BY <1>6, <2>1 DEF Deliver, BegunCandidate
    <3>2. QED
      BY <3>1
  <2>2. CASE ~(job[v] = "queued" /\ event[v] # "dead")
    BY <1>6, <2>2 DEF Deliver, NothingMoves, RowsKept, jobs, work
  <2>3. QED
    BY <2>1, <2>2
<1>7. ASSUME NEW v \in Candidates, Rebuild(v)
      PROVE  Goal
  <2>1. CASE assets
    <3>1. WorkerMoves(v)
      BY <1>7, <2>1 DEF Rebuild, WorkerMoves, RowsKept, jobs
    <3>2. QED
      BY <3>1
  <2>2. CASE ~assets
    <3>1. BuiltCandidate(v)
      BY <1>7, <2>2 DEF Rebuild, BuiltCandidate, Holds, JobEnds
    <3>2. QED
      BY <3>1
  <2>3. QED
    BY <2>1, <2>2
<1>8. ASSUME NEW v \in Candidates, Copy(v) \/ Undo(v) \/ WorkerDies(v)
      PROVE  Goal
  <2>1. WorkerMoves(v)
    BY <1>8 DEF Copy, Undo, WorkerDies, WorkerMoves, RowsKept, versions, jobs
  <2>2. QED
    BY <2>1
<1>9. ASSUME NEW v \in Candidates, Store(v)
      PROVE  Goal
  <2>1. CASE Publishes(v)
    <3>1. fixes' = [fixes EXCEPT ![v] = fixes[parent[v]] \cup {}]
      BY <2>1 DEF Publishes
    <3>2. BuiltCandidate(v) \/ WorkerMoves(v)
      BY <1>9, <2>1, <3>1
         DEF Store, Publishes, BuiltCandidate, WorkerMoves, RowsKept, Holds, JobEnds, jobs
    <3>3. QED
      BY <3>2
  <2>2. CASE ~Publishes(v)
    <3>1. WorkerMoves(v)
      BY <1>9, <2>2 DEF Store, WorkerMoves, RowsKept, jobs
    <3>2. QED
      BY <3>1
  <2>3. QED
    BY <2>1, <2>2
<1>10. ASSUME NEW v \in Candidates, MarkFailed(v)
      PROVE  Goal
  <2>1. CASE Holds(v) /\ status[v] = "running"
    <3>1. FailedCandidate(v)
      BY <1>10, <2>1 DEF MarkFailed, FailedCandidate, JobEnds
    <3>2. QED
      BY <3>1
  <2>2. CASE ~(Holds(v) /\ status[v] = "running")
    <3>1. WorkerMoves(v)
      BY <1>10, <2>2 DEF MarkFailed, WorkerMoves, RowsKept, jobs
    <3>2. QED
      BY <3>1
  <2>3. QED
    BY <2>1, <2>2
<1>11. ASSUME NEW v \in Candidates, LeaseExpires(v)
      PROVE  Goal
  BY <1>11 DEF LeaseExpires, NothingMoves, RowsKept, versions, work
<1>12. ASSUME NEW v \in Candidates, RecoverLost(v)
      PROVE  Goal
  <2>1. FailedCandidate(v)
    BY <1>12 DEF RecoverLost, FailedCandidate, JobEnds, work
  <2>2. QED
    BY <2>1
<1>13. QED
  BY <1>2, <1>3, <1>4, <1>5, <1>6, <1>7, <1>8, <1>9, <1>10, <1>11, <1>12
     DEF Next, Dispatch, Executor

-----------------------------------------------------------------------------
(******************** The invariant, kind of step by kind *****************)

LEMMA Outcomes ==
  /\ Outcome("queued") = "queued" /\ Outcome("running") = "running"
  /\ Outcome("failed") = "failed"
  /\ \A s \in {"succeeded", "review", "active", "superseded"} : Outcome(s) = "succeeded"
BY DEF Outcome

\* The job tells the state of its candidate.
LEMMA JobTells ==
  ASSUME DocTypes, Family, NEW v \in Candidates
  PROVE  /\ job[v] = "queued" => status[v] = "queued"
         /\ job[v] = "running" => status[v] = "running"
<1>1. status[v] \in {"absent", "queued", "running", "succeeded", "review", "failed", "active",
                    "superseded"}
  BY CandidateTypes DEF DocTypes
<1>2. QED
  BY <1>1, Outcomes DEF Family

\* A candidate that a step does not touch keeps what is true of it.
LEMMA OthersMatch ==
  ASSUME WorkersMatch, NEW u \in Candidates,
         worker'[u] = worker[u], copies'[u] = copies[u], kind'[u] = kind[u],
         u \in unheard <=> u \in unheard',
         Built(u)' <=> Built(u),
         status'[u] \in {"absent", "queued"} => status[u] \in {"absent", "queued"}
  PROVE  WorkMatches(u)'
<1>1. WorkMatches(u)
  BY DEF WorkersMatch
<1>2. QED
  BY <1>1 DEF WorkMatches

LEMMA NothingMovesStep ==
  ASSUME DocInv, NothingMoves
  PROVE  DocInv'
BY DEF DocInv, NothingMoves, RowsKept, work, DocTypes, OneActive, Family, WorkersMatch,
       WorkMatches, Built

LEMMA NewStep ==
  ASSUME DocInv, NEW v \in Candidates, NewCandidate(v)
  PROVE  DocInv'
<1>1. DocTypes /\ OneActive /\ Family /\ WorkersMatch /\ v \in Versions /\ v # 1
  BY CandidateTypes DEF DocInv
<1>2. Active \in Versions /\ status[Active] = "active" /\ Active # v /\ Active \in Nat
  BY <1>1, ActiveIsMarkdown DEF NewCandidate, Versions
<1>3. DocTypes'
  BY <1>1, <1>2 DEF DocTypes, NewCandidate, Turns
<1>4. /\ status'[v] = "queued" /\ job'[v] = "queued" /\ parent'[v] = Active
      /\ \A u \in Versions \ {v} : /\ status'[u] = status[u] /\ job'[u] = job[u]
                                   /\ parent'[u] = parent[u] /\ kind'[u] = kind[u]
      /\ UNCHANGED <<fixes, markdown, worker, copies, unheard>>
  BY <1>1 DEF DocTypes, NewCandidate, Turns
<1>5. OneActive'
  BY <1>1, <1>4 DEF OneActive, NewCandidate
<1>6. ASSUME NEW u \in Candidates, u # v
      PROVE  /\ status'[u] = "absent" => job'[u] = "none"
             /\ status'[u] # "absent" =>
                  /\ job'[u] = Outcome(status'[u])
                  /\ parent'[u] \in Versions
                  /\ status'[parent'[u]] \in {"active", "superseded"}
             /\ Built(u)' => fixes'[parent'[u]] \subseteq fixes'[u]
  <2>1. u \in Versions
    BY CandidateTypes
  <2>2. status[u] # "absent" => parent[u] # v
    BY <1>1, <1>6 DEF Family, NewCandidate
  <2>3. QED
    BY <1>1, <1>4, <1>6, <2>1, <2>2 DEF Family, Built
<1>7. Family'
  <2>1. status'[1] \in {"active", "superseded"} /\ kind'[1] = "parse"
    BY <1>1, <1>4, CandidateTypes DEF Family
  <2>2. ~Built(v)'
    BY <1>4 DEF Built
  <2>3. job'[v] = Outcome(status'[v])
    BY <1>4, Outcomes
  <2>4. parent'[v] \in Versions /\ status'[parent'[v]] = "active"
    BY <1>2, <1>4
  <2>5. QED
    BY <1>4, <1>6, <2>1, <2>2, <2>3, <2>4 DEF Family
<1>8. WorkersMatch'
  <2>1. ASSUME NEW u \in Candidates, u # v
        PROVE  WorkMatches(u)'
    <3>1. u \in Versions
      BY CandidateTypes
    <3>2. Built(u)' <=> Built(u)
      BY <1>4, <2>1, <3>1 DEF Built
    <3>3. QED
      BY <1>1, <1>4, <2>1, <3>1, <3>2, OthersMatch
  <2>2. WorkMatches(v)'
    <3>1. worker[v] = "none" /\ copies[v] = "none"
      BY <1>1 DEF WorkersMatch, WorkMatches, NewCandidate
    <3>2. QED
      BY <1>4, <3>1 DEF WorkMatches, Built
  <2>3. QED
    BY <2>1, <2>2 DEF WorkersMatch
<1>9. QED
  BY <1>3, <1>5, <1>7, <1>8 DEF DocInv

\* A job that begins, or fails, changes the state of one candidate that is not
\* built, and nothing of its family.
LEMMA UnbuiltStep ==
  ASSUME DocTypes, OneActive, Family, NEW v \in Candidates,
         status[v] \in {"queued", "running"},
         NEW s \in {"running", "failed"}, Turns(v, s), job' = [job EXCEPT ![v] = s],
         UNCHANGED <<kind, parent, fixes, markdown, copies, unheard>>
  PROVE  /\ OneActive' /\ Family'
         /\ status'[v] = s /\ \A u \in Versions \ {v} : status'[u] = status[u]
         /\ \A u \in Candidates : Built(u)' <=> Built(u)
<1>1. v \in Versions /\ v # 1
  BY CandidateTypes
<1>2. /\ status'[v] = s /\ job'[v] = s
      /\ \A u \in Versions \ {v} : status'[u] = status[u] /\ job'[u] = job[u]
  BY <1>1 DEF DocTypes, Turns
<1>3. OneActive'
  BY <1>1, <1>2 DEF OneActive
<1>4. \A u \in Candidates : Built(u)' <=> Built(u)
  BY <1>1, <1>2, CandidateTypes DEF Built
<1>5. ASSUME NEW u \in Candidates, status'[u] # "absent"
      PROVE  /\ job'[u] = Outcome(status'[u])
             /\ parent'[u] \in Versions
             /\ status'[parent'[u]] \in {"active", "superseded"}
  <2>1. u \in Versions
    BY CandidateTypes
  <2>2. status[u] # "absent"
    BY <1>2, <1>5, <2>1
  <2>3. parent[u] \in Versions /\ status[parent[u]] \in {"active", "superseded"}
    BY <2>2 DEF Family
  <2>4. parent[u] # v
    BY <2>3
  <2>5. job'[u] = Outcome(status'[u])
    BY <1>2, <2>1, <2>2, Outcomes DEF Family
  <2>6. QED
    BY <1>2, <2>3, <2>4, <2>5
<1>6. \A u \in Candidates : status'[u] = "absent" => job'[u] = "none"
  BY <1>2, CandidateTypes DEF Family
<1>7. \A u \in Candidates : Built(u)' => fixes'[parent'[u]] \subseteq fixes'[u]
  BY <1>4 DEF Family
<1>8. status'[1] \in {"active", "superseded"} /\ kind'[1] = "parse"
  BY <1>1, <1>2, CandidateTypes DEF Family
<1>9. QED
  BY <1>2, <1>3, <1>4, <1>5, <1>6, <1>7, <1>8 DEF Family

LEMMA BegunStep ==
  ASSUME DocInv, NEW v \in Candidates, BegunCandidate(v)
  PROVE  DocInv'
<1>1. DocTypes /\ OneActive /\ Family /\ WorkersMatch /\ v \in Versions /\ v # 1
  BY CandidateTypes DEF DocInv
<1>2. status[v] = "queued"
  BY <1>1, JobTells DEF BegunCandidate
<1>3. DocTypes'
  BY <1>1 DEF DocTypes, BegunCandidate, Turns, Goes
<1>4. /\ OneActive' /\ Family' /\ status'[v] = "running"
      /\ \A u \in Versions \ {v} : status'[u] = status[u]
      /\ \A u \in Candidates : Built(u)' <=> Built(u)
  BY <1>1, <1>2, UnbuiltStep DEF BegunCandidate
<1>5. /\ worker'[v] = "working" /\ \A u \in Versions \ {v} : worker'[u] = worker[u]
      /\ copies' = copies /\ kind' = kind /\ unheard' = unheard
  BY <1>1 DEF BegunCandidate, Goes, DocTypes
<1>6. WorkMatches(v)'
  <2>1. copies[v] = "none"
    BY <1>1, <1>2 DEF WorkersMatch, WorkMatches
  <2>2. QED
    BY <1>4, <1>5, <2>1 DEF WorkMatches, Built
<1>7. \A u \in Candidates \ {v} : WorkMatches(u)'
  BY <1>1, <1>4, <1>5, OthersMatch, CandidateTypes
<1>8. QED
  BY <1>3, <1>4, <1>6, <1>7 DEF DocInv, WorkersMatch

LEMMA FailedStep ==
  ASSUME DocInv, NEW v \in Candidates, FailedCandidate(v)
  PROVE  DocInv'
<1>1. DocTypes /\ OneActive /\ Family /\ WorkersMatch /\ v \in Versions /\ v # 1
  BY CandidateTypes DEF DocInv
<1>2. DocTypes'
  BY <1>1 DEF DocTypes, FailedCandidate, Turns, Goes
<1>3. /\ OneActive' /\ Family' /\ status'[v] = "failed"
      /\ \A u \in Versions \ {v} : status'[u] = status[u]
      /\ \A u \in Candidates : Built(u)' <=> Built(u)
  BY <1>1, UnbuiltStep DEF FailedCandidate
<1>4. /\ worker'[v] = worker[v] \/ (worker[v] = "failing" /\ worker'[v] = "done")
      /\ \A u \in Versions \ {v} : worker'[u] = worker[u]
      /\ copies' = copies /\ kind' = kind /\ unheard' = unheard
  BY <1>1 DEF FailedCandidate, Goes, DocTypes
<1>5. WorkMatches(v)'
  <2>1. WorkMatches(v)
    BY <1>1 DEF WorkersMatch
  <2>2. ~Built(v) /\ ~Built(v)'
    BY <1>3 DEF FailedCandidate, Built
  <2>3. QED
    BY <1>3, <1>4, <2>1, <2>2 DEF WorkMatches
<1>6. \A u \in Candidates \ {v} : WorkMatches(u)'
  BY <1>1, <1>3, <1>4, OthersMatch, CandidateTypes
<1>7. QED
  BY <1>2, <1>3, <1>5, <1>6 DEF DocInv, WorkersMatch

LEMMA BuiltStep ==
  ASSUME DocInv, NEW v \in Candidates, BuiltCandidate(v)
  PROVE  DocInv'
<1>1. DocTypes /\ OneActive /\ Family /\ WorkersMatch /\ v \in Versions /\ v # 1
  BY CandidateTypes DEF DocInv
<1>2. status[v] = "running" /\ parent[v] \in Versions /\ parent[v] # v
  <2>1. status[v] = "running"
    BY <1>1, JobTells DEF BuiltCandidate
  <2>2. QED
    BY <1>1, <2>1 DEF Family
<1>3. PICK own \in SUBSET {v} : fixes' = [fixes EXCEPT ![v] = fixes[parent[v]] \cup own]
  BY DEF BuiltCandidate
<1>4. DocTypes'
  <2>1. fixes' \in [Versions -> SUBSET Versions]
    BY <1>1, <1>2, <1>3 DEF DocTypes
  <2>2. QED
    BY <1>1, <2>1 DEF DocTypes, BuiltCandidate, Turns, Goes
<1>5. /\ status'[v] \in {"succeeded", "review"} /\ job'[v] = "succeeded"
      /\ fixes'[v] = fixes[parent[v]] \cup own
      /\ \A u \in Versions \ {v} : /\ status'[u] = status[u] /\ job'[u] = job[u]
                                   /\ fixes'[u] = fixes[u] /\ worker'[u] = worker[u]
                                   /\ u \in unheard <=> u \in unheard'
      /\ UNCHANGED <<kind, parent, markdown, copies>>
  BY <1>1, <1>3 DEF DocTypes, BuiltCandidate, Turns, Goes
<1>6. OneActive'
  BY <1>1, <1>2, <1>5 DEF OneActive
<1>7. Family'
  <2>1. ASSUME NEW u \in Candidates, u # v, status'[u] # "absent"
        PROVE  /\ job'[u] = Outcome(status'[u])
               /\ parent'[u] \in Versions
               /\ status'[parent'[u]] \in {"active", "superseded"}
               /\ Built(u)' => fixes'[parent'[u]] \subseteq fixes'[u]
    <3>1. u \in Versions /\ status[u] # "absent"
      BY <1>5, <2>1, CandidateTypes
    <3>2. /\ job[u] = Outcome(status[u])
          /\ parent[u] \in Versions /\ status[parent[u]] \in {"active", "superseded"}
      BY <1>1, <3>1 DEF Family
    <3>3. parent[u] # v
      BY <1>2, <3>2
    <3>4. Built(u)' => fixes[parent[u]] \subseteq fixes[u]
      BY <1>1, <1>5, <2>1, <3>1 DEF Family, Built
    <3>5. QED
      BY <1>5, <2>1, <3>1, <3>2, <3>3, <3>4
  <2>2. /\ job'[v] = Outcome(status'[v])
        /\ status'[parent'[v]] \in {"active", "superseded"}
        /\ fixes'[parent'[v]] \subseteq fixes'[v]
    <3>1. job'[v] = Outcome(status'[v])
      BY <1>5, Outcomes
    <3>2. status[parent[v]] \in {"active", "superseded"}
      BY <1>1, <1>2 DEF Family
    <3>3. QED
      BY <1>2, <1>5, <3>1, <3>2
  <2>3. status'[1] \in {"active", "superseded"} /\ kind'[1] = "parse"
    BY <1>1, <1>5, CandidateTypes DEF Family
  <2>4. \A u \in Candidates : status'[u] = "absent" => job'[u] = "none"
    BY <1>1, <1>5, CandidateTypes DEF Family
  <2>5. \A u \in Candidates : Built(u)' => status'[u] # "absent"
    BY DEF Built
  <2>6. QED
    BY <1>2, <1>5, <2>1, <2>2, <2>3, <2>4, <2>5 DEF Family
<1>8. WorkMatches(v)'
  <2>1. WorkMatches(v)
    BY <1>1 DEF WorkersMatch
  <2>2. Built(v)' /\ status'[v] \notin {"absent", "queued"}
    BY <1>5 DEF Built
  <2>3. \/ kind[v] = "correction" /\ worker'[v] = "done"
        \/ worker[v] = "copied" /\ worker'[v] = "done"
        \/ worker[v] = "copied" /\ worker'[v] = "undoing" /\ v \in unheard'
    BY <1>1 DEF BuiltCandidate, Goes, DocTypes
  <2>4. QED
    BY <1>5, <2>1, <2>2, <2>3 DEF WorkMatches
<1>9. \A u \in Candidates \ {v} : WorkMatches(u)'
  <2>1. \A u \in Candidates \ {v} : Built(u)' <=> Built(u)
    BY <1>5, CandidateTypes DEF Built
  <2>2. QED
    BY <1>1, <1>5, <2>1, OthersMatch, CandidateTypes
<1>10. QED
  BY <1>4, <1>6, <1>7, <1>8, <1>9 DEF DocInv, WorkersMatch

LEMMA ActivatedStep ==
  ASSUME DocInv, NEW v \in Candidates, ActivatedCandidate(v)
  PROVE  DocInv'
<1>1. DocTypes /\ OneActive /\ Family /\ WorkersMatch /\ v \in Versions /\ v # 1
  BY CandidateTypes DEF DocInv
<1>2. Active = markdown /\ Active \in Versions /\ status[Active] = "active" /\ Active # v
  BY <1>1, ActiveIsMarkdown DEF ActivatedCandidate
<1>3. DocTypes'
  BY <1>1 DEF DocTypes, ActivatedCandidate, Swaps
<1>4. /\ status'[v] = "active" /\ status'[Active] = "superseded" /\ markdown' = v
      /\ \A u \in Versions \ {v, Active} : status'[u] = status[u]
      /\ UNCHANGED <<kind, parent, fixes, job, worker, copies, unheard>>
  BY <1>1, <1>2 DEF DocTypes, ActivatedCandidate, Swaps
<1>5. OneActive'
  BY <1>1, <1>2, <1>4 DEF OneActive
<1>6. \A u \in Versions : /\ Built(u)' <=> Built(u)
                          /\ status[u] \in {"active", "superseded"} =>
                               status'[u] \in {"active", "superseded"}
                          /\ status'[u] \in {"absent", "queued"} => status'[u] = status[u]
                          /\ Outcome(status'[u]) = Outcome(status[u])
  <2>1. status[v] = "succeeded"
    BY DEF ActivatedCandidate
  <2>2. QED
    BY <1>2, <1>4, <2>1, Outcomes DEF Built
<1>7. Family'
  BY <1>1, <1>4, <1>6, CandidateTypes DEF Family, Built
<1>8. WorkersMatch'
  BY <1>1, <1>4, <1>6, OthersMatch, CandidateTypes DEF WorkersMatch
<1>9. QED
  BY <1>3, <1>5, <1>7, <1>8 DEF DocInv

LEMMA WorkerStep ==
  ASSUME DocInv, NEW v \in Candidates, WorkerMoves(v)
  PROVE  DocInv'
<1>1. DocTypes /\ OneActive /\ Family /\ WorkersMatch /\ v \in Versions
  BY CandidateTypes DEF DocInv
<1>2. RowsKept
  BY DEF WorkerMoves
<1>3. OneActive' /\ Family'
  BY <1>1, <1>2 DEF OneActive, Family, RowsKept, Built
<1>4. DocTypes'
  BY <1>1, <1>2 DEF DocTypes, RowsKept, WorkerMoves, Goes
<1>5. \A u \in Candidates \ {v} : WorkMatches(u)'
  <2>1. /\ unheard' = unheard /\ kind' = kind /\ status' = status
        /\ \A u \in Versions \ {v} : worker'[u] = worker[u] /\ copies'[u] = copies[u]
    BY <1>1, <1>2 DEF DocTypes, RowsKept, WorkerMoves, Goes
  <2>2. \A u \in Candidates : Built(u)' <=> Built(u)
    BY <2>1 DEF Built
  <2>3. QED
    BY <1>1, <2>1, <2>2, OthersMatch, CandidateTypes
<1>6. WorkMatches(v)'
  <2>1. WorkMatches(v) /\ (Built(v)' <=> Built(v)) /\ status' = status /\ kind' = kind
    BY <1>1, <1>2 DEF WorkersMatch, RowsKept, Built
  <2>2. worker \in [Versions -> {"none", "working", "copied", "undoing", "withdrawing",
                                 "failing", "done", "dead"}]
        /\ copies \in [Versions -> {"none", "kept", "deleted"}]
    BY <1>1 DEF DocTypes
  <2>3. worker'[v] # "none" /\ worker[v] # "none"
    BY <1>1, <2>2 DEF WorkerMoves, Goes, Busy
  <2>4. CASE kind[v] # "revalidation"
    BY <2>1, <2>3, <2>4 DEF WorkMatches
  <2>5. CASE kind[v] = "revalidation" /\ worker[v] = "working"
    <3>1. \/ worker'[v] = "copied" /\ copies'[v] = "kept"
          \/ worker'[v] = "withdrawing"
          \/ worker'[v] \in {"failing", "dead"} /\ copies'[v] = "none"
      BY <1>1, <2>1, <2>2, <2>5 DEF WorkerMoves, Goes, WorkMatches
    <3>2. QED
      BY <2>1, <2>3, <2>5, <3>1 DEF WorkMatches
  <2>6. CASE kind[v] = "revalidation" /\ worker[v] = "copied"
    <3>1. worker'[v] \in {"undoing", "withdrawing", "dead"}
      BY <1>1, <2>2, <2>6 DEF WorkerMoves, Goes
    <3>2. QED
      BY <2>1, <2>3, <2>6, <3>1 DEF WorkMatches
  <2>7. CASE kind[v] = "revalidation" /\ worker[v] = "undoing"
    <3>1. /\ unheard' = unheard
          /\ worker'[v] = "dead" \/ (worker'[v] = "done" /\ copies'[v] = "deleted")
      BY <1>1, <2>2, <2>7 DEF WorkerMoves, Goes
    <3>2. QED
      BY <2>1, <2>3, <2>7, <3>1 DEF WorkMatches
  <2>8. CASE kind[v] = "revalidation" /\ worker[v] = "withdrawing"
    <3>1. worker'[v] = "dead" \/ (worker'[v] = "failing" /\ copies'[v] = "deleted")
      BY <1>1, <2>2, <2>8 DEF WorkerMoves, Goes
    <3>2. QED
      BY <2>1, <2>3, <2>8, <3>1 DEF WorkMatches
  <2>9. CASE kind[v] = "revalidation" /\ worker[v] = "failing"
    <3>1. worker'[v] \in {"done", "dead"} /\ copies' = copies
      BY <1>1, <2>2, <2>9 DEF WorkerMoves, Goes
    <3>2. QED
      BY <2>1, <2>3, <2>9, <3>1 DEF WorkMatches
  <2>10. QED
    BY <2>4, <2>5, <2>6, <2>7, <2>8, <2>9 DEF WorkerMoves, Busy
<1>7. QED
  BY <1>3, <1>4, <1>5, <1>6 DEF DocInv, WorkersMatch

-----------------------------------------------------------------------------
(***************************** The theorems *******************************)

LEMMA DocStarts == Init => DocInv
<1> SUFFICES ASSUME Init
             PROVE  DocInv
  OBVIOUS
<1>1. DocTypes
  BY DEF Init, DocTypes
<1>2. OneActive /\ Family
  BY CandidateTypes DEF Init, OneActive, Family, Built
<1>3. WorkersMatch
  BY CandidateTypes DEF Init, WorkersMatch, WorkMatches, Built
<1>4. QED
  BY <1>1, <1>2, <1>3 DEF DocInv

LEMMA DocStep == DocInv /\ [Next]_vars => DocInv'
BY StepDoes, NothingMovesStep, NewStep, BegunStep, BuiltStep, FailedStep, ActivatedStep,
   WorkerStep

LEMMA DocCorrect == Spec => []DocInv
BY DocStarts, DocStep, PTL DEF Spec

\* Whatever executor, dead letter or recovery ends a candidate ends its job
\* too; and a compensation never deletes the copies of a published result, nor
\* does a failure leave copies behind, lost replies and crashes excepted.
THEOREM CopiesFollowResult == Spec => []CopiesMatchResult
<1>1. DocInv => CopiesMatchResult
  <2> SUFFICES ASSUME DocInv
               PROVE  CopiesMatchResult
    OBVIOUS
  <2>1. DocTypes /\ Family /\ WorkersMatch
    BY DEF DocInv
  <2>2. ResultAgreesWithJob
    BY <2>1 DEF ResultAgreesWithJob, Family
  <2>3. ASSUME NEW v \in Versions, kind[v] = "revalidation"
        PROVE  /\ status[v] \in {"succeeded", "review", "active", "superseded"} /\ v \notin unheard
                    => copies[v] = "kept"
               /\ status[v] = "failed" /\ worker[v] = "done" => copies[v] # "kept"
    <3>1. v \in Candidates
      BY <2>1, <2>3, CandidateTypes DEF Family
    <3>2. WorkMatches(v)
      BY <2>1, <3>1 DEF WorkersMatch
    <3>3. worker[v] \in {"none", "working", "copied", "undoing", "withdrawing", "failing",
                         "done", "dead"}
      BY <2>1 DEF DocTypes
    <3>4. QED
      BY <2>3, <3>2, <3>3 DEF WorkMatches, Built
  <2>4. QED
    BY <2>2, <2>3 DEF CopiesMatchResult
<1>2. QED
  BY <1>1, DocCorrect, PTL

\* activate_parse loses no correction: whatever was made from whatever, the
\* next active version contains those of the one before.
THEOREM CorrectionsKept == Spec => CorrectionsAccumulate
<1>1. ASSUME DocInv, DocInv', [Next]_vars
      PROVE  fixes[Active] \subseteq (fixes[Active])'
  <2>1. /\ DocTypes /\ OneActive /\ Family /\ OneActive'
        /\ Active = markdown /\ Active \in Versions /\ status[Active] = "active"
    BY <1>1, ActiveIsMarkdown DEF DocInv
  <2>2. Active' = markdown'
    <3>1. OneActive' => (Active = markdown)'
      BY ActiveIsMarkdown, PTL
    <3>2. QED
      BY <2>1, <3>1
  <2>3. ASSUME NEW v \in Candidates, ActivatedCandidate(v)
        PROVE  fixes[markdown] \subseteq fixes'[markdown']
    BY <2>1, <2>3 DEF ActivatedCandidate, Swaps, Family, Built
  <2>4. ASSUME NEW v \in Candidates, BuiltCandidate(v)
        PROVE  fixes[markdown] \subseteq fixes'[markdown']
    <3>1. v # markdown
      BY <1>1, <2>1, <2>4, JobTells DEF BuiltCandidate
    <3>2. QED
      BY <2>1, <2>4, <3>1 DEF BuiltCandidate, DocTypes
  <2>5. fixes[markdown] \subseteq fixes'[markdown']
    BY <1>1, <2>3, <2>4, StepDoes
       DEF NothingMoves, RowsKept, NewCandidate, BegunCandidate, FailedCandidate, WorkerMoves
  <2>6. QED
    BY <2>1, <2>2, <2>5
<1>2. DocInv /\ DocInv' /\ [Next]_vars => [fixes[Active] \subseteq (fixes[Active])']_vars
  BY <1>1
<1>3. QED
  BY <1>2, DocCorrect, PTL DEF Spec, CorrectionsAccumulate

\* A candidate is built once, from its parent, and replaces only that one.
THEOREM RefinesParseLifecycle == Spec => ImplementsParseLifecycle
<1>1. Init => Lifecycle!Init
  BY CandidateTypes DEF Init, Lifecycle!Init
<1>2. DocInv /\ [Next]_vars => [Lifecycle!Next]_(Lifecycle!lvars)
  <2> SUFFICES ASSUME DocInv, [Next]_vars
               PROVE  Lifecycle!Next \/ UNCHANGED Lifecycle!lvars
    OBVIOUS
  <2>1. /\ DocTypes /\ Family
        /\ Active \in Versions /\ status[Active] = "active"
    BY ActiveIsMarkdown DEF DocInv
  <2>2. ASSUME NEW v \in Candidates,
               \/ NewCandidate(v) \/ BegunCandidate(v) \/ BuiltCandidate(v)
               \/ FailedCandidate(v) \/ ActivatedCandidate(v)
        PROVE  Lifecycle!Next
    <3>1. v \in Versions
      BY CandidateTypes
    <3>2. CASE NewCandidate(v)
      <4>1. Lifecycle!Created(v)
        BY <2>1, <3>2 DEF NewCandidate, Turns, Lifecycle!Created, Lifecycle!Moves
      <4>2. QED
        BY <3>1, <4>1 DEF Lifecycle!Next
    <3>3. CASE BegunCandidate(v)
      <4>1. Lifecycle!Begun(v)
        BY <2>1, <3>3, JobTells DEF BegunCandidate, Turns, Lifecycle!Begun, Lifecycle!Moves
      <4>2. QED
        BY <3>1, <4>1 DEF Lifecycle!Next
    <3>4. CASE BuiltCandidate(v)
      <4>1. Lifecycle!Built(v)
        BY <2>1, <3>4, JobTells DEF BuiltCandidate, Turns, Lifecycle!Built, Lifecycle!Moves
      <4>2. QED
        BY <3>1, <4>1 DEF Lifecycle!Next
    <3>5. CASE FailedCandidate(v)
      <4>1. Lifecycle!Failed(v)
        BY <2>1, <3>5 DEF FailedCandidate, Turns, Lifecycle!Failed, Lifecycle!Moves
      <4>2. QED
        BY <3>1, <4>1 DEF Lifecycle!Next
    <3>6. CASE ActivatedCandidate(v)
      <4>1. Lifecycle!Activated(v)
        BY <2>1, <3>6 DEF ActivatedCandidate, Swaps, Lifecycle!Activated
      <4>2. QED
        BY <3>1, <4>1 DEF Lifecycle!Next
    <3>7. QED
      BY <2>2, <3>2, <3>3, <3>4, <3>5, <3>6
  <2>3. ASSUME NothingMoves \/ \E v \in Candidates : WorkerMoves(v)
        PROVE  UNCHANGED Lifecycle!lvars
    BY <2>3 DEF NothingMoves, WorkerMoves, RowsKept, Lifecycle!lvars
  <2>4. QED
    BY <2>2, <2>3, StepDoes
<1>3. QED
  BY <1>1, <1>2, DocCorrect, PTL DEF Spec, ImplementsParseLifecycle, Lifecycle!Spec

-----------------------------------------------------------------------------
(***************************************************************************)
(* The jobs, as their trigger sees them.  A job has a lease while it runs, *)
(* and runs only after an executor has taken it up; what a step does to    *)
(* one job is to insert, begin, end or lose it, or to let its lease run    *)
(* out.                                                                    *)
(***************************************************************************)
JobsFit ==
  /\ lease \in [Versions -> {"none", "live", "expired"}]
  /\ \A v \in Candidates :
       /\ job[v] = "running" <=> lease[v] # "none"
       /\ job[v] = "running" => worker[v] # "none"

TakenUp(v) == worker[v] # "none"

JobInserted(v) ==
  job[v] = "none" /\ job'[v] = "queued" /\ lease'[v] = lease[v] /\ worker'[v] = worker[v]
JobBegun(v) ==
  job[v] = "queued" /\ job'[v] = "running" /\ lease'[v] = "live" /\ worker'[v] = "working"
JobUndeliverable(v) ==
  job[v] = "queued" /\ job'[v] = "failed" /\ lease'[v] = lease[v] /\ worker'[v] = worker[v]
JobEnded(v) ==
  /\ job[v] = "running" /\ job'[v] \in {"succeeded", "failed"}
  /\ lease[v] = "live" \/ (lease[v] = "expired" /\ job'[v] = "failed")
  /\ lease'[v] = "none" /\ TakenUp(v)' = TakenUp(v)
LeaseRunsOut(v) ==
  Holds(v) /\ job'[v] = job[v] /\ lease'[v] = "expired" /\ worker'[v] = worker[v]
JobKept(v) ==
  job'[v] = job[v] /\ lease'[v] = lease[v] /\ TakenUp(v)' = TakenUp(v)

JobStep(v) ==
  \/ JobKept(v) \/ JobInserted(v) \/ JobBegun(v) \/ JobUndeliverable(v)
  \/ JobEnded(v) \/ LeaseRunsOut(v)

LEMMA JobWritten ==
  ASSUME DocInv, JobsFit, [Next]_vars, NEW v \in Candidates
  PROVE  JobStep(v)
<1>1. /\ DocTypes /\ Family /\ WorkersMatch /\ v \in Versions
      /\ lease \in [Versions -> {"none", "live", "expired"}]
  BY CandidateTypes DEF DocInv, JobsFit
<1>2. CASE UNCHANGED <<jobs, worker>>
  BY <1>2 DEF jobs, JobStep, JobKept, TakenUp
<1>3. CASE Send \/ Confirm \/ Reap
  <2>1. UNCHANGED <<lease, worker>>
    BY <1>3 DEF Send, Confirm, Reap, work
  <2>2. CASE UNCHANGED job
    BY <1>2, <2>1, <2>2 DEF jobs
  <2>3. ASSUME NEW u, status[u] = "queued", DeadLetter(u) PROVE JobStep(v)
    <3>1. CASE u = v
      <4>1. job[v] = "queued" /\ job'[v] = "failed"
        BY <1>1, <2>3, <3>1, Outcomes DEF DeadLetter, DocTypes, Family
      <4> QED BY <2>1, <4>1 DEF JobStep, JobUndeliverable
    <3>2. CASE u # v
      BY <1>1, <2>1, <2>3, <3>2 DEF DeadLetter, DocTypes, JobStep, JobKept, TakenUp
    <3> QED BY <3>1, <3>2
  <2> QED
    BY <1>3, <2>2, <2>3 DEF Send, Confirm, Reap, FailEvent, RetryLater, Refused
<1>4. CASE DispatcherDies \/ EventExpires \/ \E u \in Candidates : ClaimEvent(u)
  BY <1>2, <1>4 DEF DispatcherDies, EventExpires, ClaimEvent, work
<1>5. ASSUME NEW u \in Candidates, u # v,
             \/ Users(u) \/ Deliver(u) \/ Executor(u)
             \/ WorkerDies(u) \/ LeaseExpires(u) \/ RecoverLost(u)
      PROVE  JobStep(v)
  <2>1. job'[v] = job[v] /\ lease'[v] = lease[v] /\ worker'[v] = worker[v]
    <3>1. CASE Users(u)
      BY <1>1, <1>5, <3>1
         DEF Users, CorrectBlock, RequestRevalidation, Accepts, Activate, jobs, work, DocTypes
    <3>2. CASE Deliver(u)
      BY <1>1, <1>5, <3>2 DEF Deliver, Goes, jobs, DocTypes
    <3>3. CASE Executor(u)
      BY <1>1, <1>5, <3>3
         DEF Executor, Rebuild, Copy, Store, Undo, MarkFailed, Publishes, JobEnds, Goes, jobs,
             DocTypes
    <3>4. CASE WorkerDies(u) \/ LeaseExpires(u) \/ RecoverLost(u)
      BY <1>1, <1>5, <3>4
         DEF WorkerDies, LeaseExpires, RecoverLost, JobEnds, Goes, jobs, work, DocTypes
    <3> QED BY <1>5, <3>1, <3>2, <3>3, <3>4
  <2> QED BY <2>1 DEF JobStep, JobKept, TakenUp
<1>6. CASE Users(v)
  <2>1. CASE Activate(v)
    BY <1>2, <2>1 DEF Activate, work
  <2>2. CASE CorrectBlock(v) \/ RequestRevalidation(v)
    <3>1. job[v] = "none"
      BY <1>1, <2>2 DEF CorrectBlock, RequestRevalidation, Accepts, Fresh, Family
    <3>2. job'[v] = "queued" /\ lease' = lease /\ worker' = worker
      BY <1>1, <2>2 DEF CorrectBlock, RequestRevalidation, Accepts, work, DocTypes
    <3> QED BY <3>1, <3>2 DEF JobStep, JobInserted
  <2> QED BY <1>6, <2>1, <2>2 DEF Users
<1>7. CASE Deliver(v)
  <2>1. CASE job[v] = "queued" /\ event[v] # "dead"
    BY <1>1, <1>7, <2>1 DEF Deliver, Goes, DocTypes, JobStep, JobBegun
  <2>2. CASE ~(job[v] = "queued" /\ event[v] # "dead")
    BY <1>2, <1>7, <2>2 DEF Deliver
  <2> QED BY <2>1, <2>2
<1>8. CASE Executor(v) \/ WorkerDies(v)
  <2>1. TakenUp(v) /\ TakenUp(v)'
    BY <1>1, <1>8
       DEF Executor, Rebuild, Copy, Store, Undo, MarkFailed, WorkerDies, Busy, Goes, TakenUp,
           DocTypes
  <2>2. CASE UNCHANGED jobs
    BY <2>1, <2>2 DEF jobs, JobStep, JobKept
  <2>3. CASE ~UNCHANGED jobs
    <3>1. Holds(v) /\ (JobEnds(v, "succeeded") \/ JobEnds(v, "failed"))
      BY <1>8, <2>3 DEF Executor, Rebuild, Copy, Store, Undo, MarkFailed, Publishes, WorkerDies
    <3>2. JobEnded(v)
      BY <1>1, <2>1, <3>1 DEF Holds, JobEnds, JobEnded, DocTypes
    <3> QED BY <3>2 DEF JobStep
  <2> QED BY <2>2, <2>3
<1>9. CASE LeaseExpires(v)
  BY <1>1, <1>9 DEF LeaseExpires, work, JobStep, LeaseRunsOut
<1>10. CASE RecoverLost(v)
  BY <1>1, <1>10 DEF RecoverLost, JobEnds, work, JobStep, JobEnded, TakenUp, DocTypes
<1>11. CASE UNCHANGED vars
  BY <1>2, <1>11 DEF vars, work
<1> QED
  BY <1>3, <1>4, <1>5, <1>6, <1>7, <1>8, <1>9, <1>10, <1>11 DEF Next, Dispatch

LEMMA JobsStayFit ==
  ASSUME DocInv, JobsFit, [Next]_vars
  PROVE  JobsFit'
<1>1. lease' \in [Versions -> {"none", "live", "expired"}]
  <2>1. lease \in [Versions -> {"none", "live", "expired"}]
    BY DEF JobsFit
  <2> QED
    BY <2>1 DEF Next, Dispatch, Executor, Users, Send, Confirm, Reap, DispatcherDies, EventExpires,
       ClaimEvent, CorrectBlock, RequestRevalidation, Accepts, Activate, Deliver, Rebuild, Copy,
       Store, Publishes, Undo, MarkFailed, WorkerDies, LeaseExpires, RecoverLost, JobEnds,
       vars, jobs
<1>2. ASSUME NEW v \in Candidates
      PROVE  /\ job'[v] = "running" <=> lease'[v] # "none"
             /\ job'[v] = "running" => worker'[v] # "none"
  <2>1. /\ job[v] = "running" <=> lease[v] # "none"
        /\ job[v] = "running" => worker[v] # "none"
    BY DEF JobsFit
  <2> QED BY <2>1, JobWritten DEF JobStep, JobKept, JobInserted, JobBegun, JobUndeliverable,
       JobEnded, LeaseRunsOut, Holds, TakenUp
<1> QED BY <1>1, <1>2 DEF JobsFit

\* The trigger allows each of these steps.
LEMMA JobStepAllowed ==
  ASSUME DocInv, JobsFit, NEW v \in Candidates, JobStep(v)
  PROVE  JobRow(v)!Next \/ JobOf(v)' = JobOf(v)
<1>1. /\ job[v] = "running" <=> lease[v] # "none"
      /\ job[v] = "running" => worker[v] # "none"
      /\ lease[v] \in {"none", "live", "expired"}
      /\ job[v] \in {"none", "queued"} => worker[v] = "none"
  <2>1. job[v] \in {"none", "queued"} => status[v] \in {"absent", "queued"}
    BY JobTells, Outcomes, CandidateTypes DEF DocInv, DocTypes, Family
  <2> QED BY <2>1, CandidateTypes DEF JobsFit, DocInv, WorkersMatch, WorkMatches
<1> DEFINE old == JobOf(v)
           new == JobOf(v)'
<1>2. /\ old.status = (IF job[v] = "none" THEN "absent" ELSE job[v]) /\ old.lease = lease[v]
      /\ old.attempt = (IF worker[v] = "none" THEN 0 ELSE 1)
      /\ new.status = (IF job'[v] = "none" THEN "absent" ELSE job'[v]) /\ new.lease = lease'[v]
      /\ new.attempt = (IF worker'[v] = "none" THEN 0 ELSE 1)
  BY DEF JobOf
<1>3. CASE JobKept(v)
  BY <1>3 DEF JobKept, TakenUp, JobOf
<1> HIDE DEF old, new
<1>4. CASE JobInserted(v)
  BY <1>1, <1>2, <1>4 DEF JobInserted, old, new, JobRow!Inserted, JobRow!Next
<1>5. CASE JobBegun(v)
  BY <1>1, <1>2, <1>5
     DEF JobBegun, old, new, JobRow!Claimed, JobRow!Moves, JobRow!NextAttempt, JobRow!Next
<1>6. CASE JobUndeliverable(v)
  BY <1>1, <1>2, <1>6
     DEF JobUndeliverable, old, new, JobRow!DispatchFailed, JobRow!Moves, JobRow!SameAttempt,
         JobRow!Next
<1>7. CASE JobEnded(v)
  BY <1>1, <1>2, <1>7
     DEF JobEnded, TakenUp, old, new, JobRow!Finished, JobRow!Moves, JobRow!SameAttempt, JobRow!Next
<1>8. CASE LeaseRunsOut(v)
  <2>1. PICK s, a, r : /\ s = (IF job[v] = "none" THEN "absent" ELSE job[v])
                       /\ a = (IF worker[v] = "none" THEN 0 ELSE 1)
                       /\ r = FALSE
    OBVIOUS
  <2>2. /\ JobOf(v) = [status |-> s, lease |-> "live", attempt |-> a, retry |-> r]
        /\ JobOf(v)' = [status |-> s, lease |-> "expired", attempt |-> a, retry |-> r]
    BY <1>8, <2>1 DEF LeaseRunsOut, Holds, JobOf
  <2>3. [JobOf(v) EXCEPT !.lease = "expired"]
          = [status |-> s, lease |-> "expired", attempt |-> a, retry |-> r]
    BY ONLY <2>2
  <2> QED BY <2>2, <2>3 DEF JobRow!LeaseEnds, JobRow!Next
<1> QED BY <1>3, <1>4, <1>5, <1>6, <1>7, <1>8 DEF JobStep

\* API, dispatcher, executors and recovery write the job of a candidate only as
\* its trigger accepts (enforce_async_jobs_state_v1).
THEOREM RefinesCandidateJobs == Spec => ImplementsJobRows
<1>1. ASSUME Init PROVE JobsFit /\ \A v \in Candidates : JobRow(v)!Init
  <2>1. /\ lease = [v \in Versions |-> "none"]
        /\ \A v \in Candidates : job[v] = "none" /\ lease[v] = "none" /\ worker[v] = "none"
    BY <1>1, CandidateTypes DEF Init
  <2>2. ASSUME NEW v \in Candidates PROVE JobRow(v)!Init
    BY <2>1 DEF JobOf, JobRow!Init
  <2> QED BY <2>1, <2>2 DEF JobsFit
<1>2. DocInv /\ JobsFit /\ [Next]_vars =>
        JobsFit' /\ [\A v \in Candidates : [JobRow(v)!Next]_(JobOf(v))]_<<jobs, worker>>
  BY JobsStayFit, JobWritten, JobStepAllowed
<1>3. QED
  BY <1>1, <1>2, DocCorrect, PTL DEF Spec, ImplementsJobRows
=============================================================================
