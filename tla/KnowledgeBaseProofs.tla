------------------------ MODULE KnowledgeBaseProofs ------------------------
(***************************************************************************)
(* Part 1, about KnowledgeBase, for any policies, users, index versions    *)
(* and questions: what is answered is backed at the moment of the commit,  *)
(* four eyes watch over every policy, and every write is one that the      *)
(* triggers of migrations 019 and 026 accept.  Part 2, about IndexBuild:   *)
(* the build of one index, for any workers, batches, vectors and attempts. *)
(***************************************************************************)
EXTENDS KnowledgeBase, IndexBuild, TLAPS

(***************************************************************************)
(* The inductive invariant.  An index is active only with a passed         *)
(* evaluation, and it is never evaluated again after that; a question      *)
(* remembers as relevant only what it found, and from an index that        *)
(* exists.                                                                 *)
(***************************************************************************)
KnowledgeTypes ==
  /\ policy \in [Policies -> {"draft", "submitted", "business_approved", "published", "revoked"}]
  /\ evidence \in [Policies -> Policy!Evidence]
  /\ index \in [Indexes -> IndexRecord] /\ dataset \in DatasetRecord
  /\ run \in [Indexes -> {"none", "running", "passed", "failed"}]
  /\ query \in [Queries -> QueryRecord] /\ answer \in [Queries -> AnswerRecord]

IndexesAreEvaluated ==
  /\ \A i \in Indexes :
       /\ index[i].status \in {"active", "superseded"} => run[i] = "passed"
       /\ index[i].status \in {"ready", "active", "superseded"} => index[i].filled
       /\ run[i] # "none" => index[i].status \in {"ready", "active", "superseded"}
       /\ index[i].status = "absent" => ~index[i].filled
  /\ \A i, k \in Active : i = k

RelevantIsFound == \A q \in Queries : query[q].relevant \subseteq query[q].hits

KnowledgeInv == KnowledgeTypes /\ IndexesAreEvaluated /\ RelevantIsFound /\ FourEyes

USE KnowledgeBaseAssumption

-----------------------------------------------------------------------------
(****************************** Policies **********************************)

LEMMA NoEvidenceType == Policy!NoEvidence \in Policy!Evidence
BY DEF Policy!NoEvidence, Policy!Evidence

LEMMA PolicyStep ==
  ASSUME KnowledgeTypes, FourEyes, NEW p \in Policies, NEW u \in Users,
         Submit(p, u) \/ Approve(p, u) \/ Publish(p, u) \/ RequestRevocation(p, u) \/ Revoke(p, u)
  PROVE  /\ KnowledgeTypes' /\ FourEyes'
         /\ UNCHANGED <<index, dataset, run, query, answer>>
<1>1. /\ policy \in [Policies -> {"draft", "submitted", "business_approved", "published", "revoked"}]
      /\ evidence \in [Policies -> Policy!Evidence]
      /\ evidence[p] \in Policy!Evidence
  BY DEF KnowledgeTypes
<1>2. UNCHANGED <<index, dataset, run, query, answer>>
  BY DEF Submit, Approve, Publish, RequestRevocation, Revoke, PolicyOnly
<1>3. /\ policy' \in [Policies -> {"draft", "submitted", "business_approved", "published", "revoked"}]
      /\ evidence' \in [Policies -> Policy!Evidence]
  BY <1>1 DEF Submit, Approve, Publish, RequestRevocation, Revoke, Becomes, Policy!Evidence
<1>4. \A r \in Policies \ {p} : policy'[r] = policy[r] /\ evidence'[r] = evidence[r]
  BY <1>1 DEF Submit, Approve, Publish, RequestRevocation, Revoke, Becomes
<1>5. /\ Live(p)' \/ policy'[p] = "revoked" => evidence'[p].submitter # evidence'[p].approver
      /\ policy'[p] \in {"published", "revoked"} => evidence'[p].publisher # evidence'[p].approver
      /\ policy'[p] = "revoked" => evidence'[p].revoker # evidence'[p].requester
  <2>1. CASE Submit(p, u)
    BY <1>1, <2>1 DEF Submit, Becomes, Live, Policy!Evidence
  <2>2. CASE Approve(p, u)
    BY <1>1, <2>2 DEF Approve, Becomes, Live, Policy!Evidence
  <2>3. CASE Publish(p, u)
    BY <1>1, <2>3 DEF Publish, Becomes, Live, FourEyes, Policy!Evidence
  <2>4. CASE RequestRevocation(p, u)
    BY <1>1, <2>4 DEF RequestRevocation, Live, FourEyes, Policy!Evidence
  <2>5. CASE Revoke(p, u)
    BY <1>1, <2>5 DEF Revoke, Becomes, Live, FourEyes, Policy!Evidence
  <2>6. QED
    BY <2>1, <2>2, <2>3, <2>4, <2>5
<1>6. FourEyes'
  BY <1>4, <1>5 DEF FourEyes, Live
<1>7. QED
  BY <1>2, <1>3, <1>6 DEF KnowledgeTypes

-----------------------------------------------------------------------------
(************************* Indexes and evaluations ************************)

LEMMA IndexStep ==
  ASSUME KnowledgeTypes, IndexesAreEvaluated, NEW i \in Indexes,
         Build(i) \/ BuildFills(i) \/ BuildEnds(i) \/ Activate(i)
  PROVE  /\ KnowledgeTypes' /\ IndexesAreEvaluated'
         /\ UNCHANGED <<policy, evidence, dataset, run, query, answer>>
<1>1. /\ index \in [Indexes -> IndexRecord] /\ index[i] \in IndexRecord
      /\ run \in [Indexes -> {"none", "running", "passed", "failed"}]
  BY DEF KnowledgeTypes
<1>2. UNCHANGED <<policy, evidence, dataset, run, query, answer>>
  BY DEF Build, BuildFills, BuildEnds, Activate, IndexOnly
<1>3. CASE Activate(i)
  <2>1. \A k \in Indexes :
          /\ index'[k] \in IndexRecord /\ index'[k].filled = index[k].filled
          /\ k = i => index'[k].status = "active"
          /\ k # i /\ index[k].status = "active" => index'[k].status = "superseded"
          /\ k # i /\ index[k].status # "active" => index'[k].status = index[k].status
    BY <1>1, <1>3 DEF Activate, Active, IndexRecord
  <2>2. index' \in [Indexes -> IndexRecord]
    BY <1>3, <2>1 DEF Activate
  <2>3. \A k \in Active' : k = i
    BY <2>1 DEF Active
  <2>4. index[i].status = "ready" /\ run[i] = "passed" /\ run' = run
    BY <1>2, <1>3 DEF Activate
  <2>5. IndexesAreEvaluated'
    BY <2>1, <2>3, <2>4 DEF IndexesAreEvaluated
  <2>6. QED
    BY <1>2, <2>2, <2>5 DEF KnowledgeTypes
<1>4. CASE Build(i) \/ BuildFills(i) \/ BuildEnds(i)
  <2>1. Frozen \in SUBSET Policies
    BY DEF Frozen
  <2>2. index' \in [Indexes -> IndexRecord]
    <3>1. [status |-> "building", members |-> Frozen, filled |-> FALSE] \in IndexRecord
      BY <2>1 DEF IndexRecord
    <3>2. [index[i] EXCEPT !.filled = TRUE] \in IndexRecord
      BY <1>1 DEF IndexRecord
    <3>3. \A status \in {"ready", "failed"} : [index[i] EXCEPT !.status = status] \in IndexRecord
      BY <1>1 DEF IndexRecord
    <3>4. QED
      BY <1>1, <1>4, <3>1, <3>2, <3>3 DEF Build, BuildFills, BuildEnds
  <2>3. \A k \in Indexes \ {i} : index'[k] = index[k]
    BY <1>1, <1>4 DEF Build, BuildFills, BuildEnds
  <2>4. /\ index[i].status \in {"absent", "building"}
        /\ index'[i].status \in {"building", "ready", "failed"}
        /\ index'[i].status = "ready" => index'[i].filled
    BY <1>1, <1>4 DEF Build, BuildFills, BuildEnds, IndexRecord
  <2>5. \A k \in Active' : k \in Active
    BY <2>3, <2>4 DEF Active
  <2>6. IndexesAreEvaluated'
    BY <1>2, <2>3, <2>4, <2>5 DEF IndexesAreEvaluated
  <2>7. QED
    BY <1>2, <2>2, <2>6 DEF KnowledgeTypes
<1>5. QED
  BY <1>2, <1>3, <1>4

LEMMA EvaluationStep ==
  ASSUME KnowledgeTypes, IndexesAreEvaluated, NEW i \in Indexes,
         Evaluate(i) \/ EvaluationEnds(i)
  PROVE  /\ KnowledgeTypes' /\ IndexesAreEvaluated'
         /\ UNCHANGED <<policy, evidence, index, dataset, query, answer>>
<1>1. run \in [Indexes -> {"none", "running", "passed", "failed"}]
  BY DEF KnowledgeTypes
<1>2. UNCHANGED <<policy, evidence, index, dataset, query, answer>>
  BY DEF Evaluate, EvaluationEnds, RunOnly
<1>3. /\ run' \in [Indexes -> {"none", "running", "passed", "failed"}]
      /\ \A k \in Indexes \ {i} : run'[k] = run[k]
      /\ run[i] # "passed"
      /\ index[i].status \in {"ready", "active", "superseded"}
  BY <1>1 DEF Evaluate, EvaluationEnds, IndexesAreEvaluated
<1>4. index[i].status = "ready"
  BY <1>3 DEF IndexesAreEvaluated
<1>5. Active' = Active
  BY <1>2 DEF Active
<1>6. IndexesAreEvaluated'
  BY <1>2, <1>3, <1>4, <1>5 DEF IndexesAreEvaluated
<1>7. QED
  BY <1>2, <1>3, <1>6 DEF KnowledgeTypes

LEMMA DatasetStep ==
  ASSUME KnowledgeTypes, NEW u \in Users, TransitionDataset(u)
  PROVE  KnowledgeTypes' /\ UNCHANGED <<policy, evidence, index, run, query, answer>>
BY DEF KnowledgeTypes, TransitionDataset, DatasetRecord

-----------------------------------------------------------------------------
(****************************** Questions *********************************)

LEMMA ActiveIndexType ==
  /\ ActiveIndex \in Indexes \cup {NoIndex}
  /\ ActiveIndex # NoIndex => ActiveIndex \in Indexes /\ index[ActiveIndex].status = "active"
BY DEF ActiveIndex, Active

LEMMA QuestionStep ==
  ASSUME KnowledgeTypes, RelevantIsFound, NEW q \in Queries,
         Prepare(q) \/ Preflight(q) \/ Generate(q) \/ Commit(q)
  PROVE  /\ KnowledgeTypes' /\ RelevantIsFound'
         /\ UNCHANGED <<policy, evidence, index, dataset, run>>
<1>1. /\ query \in [Queries -> QueryRecord] /\ query[q] \in QueryRecord
      /\ answer \in [Queries -> AnswerRecord]
      /\ index \in [Indexes -> IndexRecord]
  BY DEF KnowledgeTypes
<1>2. UNCHANGED <<policy, evidence, index, dataset, run>>
  BY DEF Prepare, Preflight, Generate, Commit, Asks, Commits, QueryOnly
<1>3. ASSUME NEW record \in QueryRecord, record.relevant \subseteq record.hits, Asks(q, record)
      PROVE  /\ query' \in [Queries -> QueryRecord] /\ RelevantIsFound'
             /\ answer' = answer
  BY <1>1, <1>3 DEF Asks, RelevantIsFound
<1>4. ASSUME NEW status \in {"answered", "refused"}, NEW cites \in SUBSET Policies,
             Commits(q, status, cites)
      PROVE  /\ query' \in [Queries -> QueryRecord] /\ RelevantIsFound'
             /\ answer' \in [Queries -> AnswerRecord]
  <2>1. [status |-> status, index |-> ActiveIndex, cites |-> cites] \in AnswerRecord
    BY ActiveIndexType DEF AnswerRecord
  <2>2. [query[q] EXCEPT !.pc = "done"] \in QueryRecord
    BY <1>1 DEF QueryRecord
  <2>3. /\ [query[q] EXCEPT !.pc = "done"].relevant = query[q].relevant
        /\ [query[q] EXCEPT !.pc = "done"].hits = query[q].hits
    BY <1>1 DEF QueryRecord
  <2>4. QED
    BY <1>1, <1>4, <2>1, <2>2, <2>3 DEF Commits, RelevantIsFound
<1>5. CASE Prepare(q)
  <2>1. ASSUME ActiveIndex # NoIndex, NEW hits \in SUBSET Allowed(ActiveIndex),
               NEW relevant \in SUBSET hits,
               Asks(q, [NewQuery EXCEPT !.pc = "prepared", !.index = ActiveIndex,
                                        !.hits = hits, !.relevant = relevant])
        PROVE  /\ query' \in [Queries -> QueryRecord] /\ RelevantIsFound'
               /\ answer' = answer
    <3> DEFINE record == [NewQuery EXCEPT !.pc = "prepared", !.index = ActiveIndex,
                                          !.hits = hits, !.relevant = relevant]
    <3>1. Allowed(ActiveIndex) \subseteq Policies
      BY <1>1, <2>1, ActiveIndexType DEF Allowed, IndexRecord
    <3>2. record \in QueryRecord /\ record.relevant \subseteq record.hits
      BY <3>1, ActiveIndexType DEF NewQuery, QueryRecord
    <3>3. QED
      BY <1>3, <2>1, <3>2
  <2>2. ASSUME Asks(q, [NewQuery EXCEPT !.pc = "prepared"])
        PROVE  /\ query' \in [Queries -> QueryRecord] /\ RelevantIsFound'
               /\ answer' = answer
    <3>1. /\ [NewQuery EXCEPT !.pc = "prepared"] \in QueryRecord
          /\ [NewQuery EXCEPT !.pc = "prepared"].relevant = {}
      BY DEF NewQuery, QueryRecord
    <3>2. QED
      BY <1>3, <2>2, <3>1
  <2>3. QED
    BY <1>1, <1>2, <1>5, <2>1, <2>2 DEF Prepare, KnowledgeTypes
<1>6. CASE Preflight(q)
  <2>1. /\ [query[q] EXCEPT !.pc = "asking"] \in QueryRecord
        /\ [query[q] EXCEPT !.pc = "asking"].relevant = query[q].relevant
        /\ [query[q] EXCEPT !.pc = "asking"].hits = query[q].hits
    BY <1>1 DEF QueryRecord
  <2>2. QED
    BY <1>2, <1>3, <1>6, <2>1 DEF Preflight, RelevantIsFound, KnowledgeTypes
<1>7. CASE Generate(q)
  <2>1. ASSUME NEW draft \in SUBSET Policies
        PROVE  /\ [query[q] EXCEPT !.pc = "drafted", !.draft = draft] \in QueryRecord
               /\ [query[q] EXCEPT !.pc = "drafted", !.draft = draft].relevant = query[q].relevant
               /\ [query[q] EXCEPT !.pc = "drafted", !.draft = draft].hits = query[q].hits
    BY <1>1 DEF QueryRecord
  <2>2. QED
    BY <1>2, <1>3, <1>7, <2>1 DEF Generate, RelevantIsFound, KnowledgeTypes
<1>8. CASE Commit(q)
  <2>1. query[q].draft \in SUBSET Policies /\ query[q].relevant \in SUBSET Policies
    BY <1>1 DEF QueryRecord
  <2>2. QED
    BY <1>2, <1>4, <1>8, <2>1 DEF Commit, KnowledgeTypes
<1>9. QED
  BY <1>2, <1>5, <1>6, <1>7, <1>8

-----------------------------------------------------------------------------
(***************************** The invariant ******************************)

LEMMA KnowledgeStep == KnowledgeInv /\ [Next]_vars => KnowledgeInv'
<1> SUFFICES ASSUME KnowledgeInv, [Next]_vars
             PROVE  KnowledgeInv'
  OBVIOUS
<1>1. KnowledgeTypes /\ IndexesAreEvaluated /\ RelevantIsFound /\ FourEyes
  BY DEF KnowledgeInv
<1>2. CASE UNCHANGED vars
  BY <1>1, <1>2
     DEF vars, KnowledgeInv, KnowledgeTypes, IndexesAreEvaluated, RelevantIsFound, FourEyes,
         Live, Active
<1>3. CASE ManagePolicies
  <2>1. /\ KnowledgeTypes' /\ FourEyes'
        /\ UNCHANGED <<index, dataset, run, query, answer>>
    BY <1>1, <1>3, PolicyStep DEF ManagePolicies
  <2>2. QED
    BY <1>1, <2>1 DEF KnowledgeInv, IndexesAreEvaluated, RelevantIsFound, Active
<1>4. CASE ManageIndexes
  <2>1. KnowledgeTypes' /\ UNCHANGED <<policy, evidence, query, answer>>
    BY <1>1, <1>4, IndexStep, EvaluationStep, DatasetStep DEF ManageIndexes
  <2>2. IndexesAreEvaluated'
    <3>1. ASSUME NEW u \in Users, TransitionDataset(u)
          PROVE  IndexesAreEvaluated'
      BY <1>1, <3>1, DatasetStep DEF IndexesAreEvaluated, Active
    <3>2. QED
      BY <1>1, <1>4, <3>1, IndexStep, EvaluationStep DEF ManageIndexes
  <2>3. QED
    BY <1>1, <2>1, <2>2 DEF KnowledgeInv, RelevantIsFound, FourEyes, Live
<1>5. CASE Ask
  <2>1. /\ KnowledgeTypes' /\ RelevantIsFound'
        /\ UNCHANGED <<policy, evidence, index, dataset, run>>
    BY <1>1, <1>5, QuestionStep DEF Ask
  <2>2. QED
    BY <1>1, <2>1 DEF KnowledgeInv, IndexesAreEvaluated, FourEyes, Live, Active
<1>6. QED
  BY <1>2, <1>3, <1>4, <1>5 DEF Next

LEMMA KnowledgeStarts == Init => KnowledgeInv
<1> SUFFICES ASSUME Init
             PROVE  KnowledgeInv
  OBVIOUS
<1>1. KnowledgeTypes
  <2>1. NewQuery \in QueryRecord /\ NoAnswer \in AnswerRecord
    BY DEF NewQuery, QueryRecord, NoAnswer, AnswerRecord
  <2>2. [status |-> "absent", members |-> {}, filled |-> FALSE] \in IndexRecord
    BY DEF IndexRecord
  <2>3. [status |-> "draft", submitter |-> Nobody] \in DatasetRecord
    BY DEF DatasetRecord
  <2>4. QED
    BY <2>1, <2>2, <2>3, NoEvidenceType DEF Init, KnowledgeTypes
<1>2. IndexesAreEvaluated
  BY DEF Init, IndexesAreEvaluated, Active
<1>3. RelevantIsFound
  BY DEF Init, RelevantIsFound, NewQuery
<1>4. FourEyes
  BY DEF Init, FourEyes, Live
<1>5. QED
  BY <1>1, <1>2, <1>3, <1>4 DEF KnowledgeInv

LEMMA KnowledgeCorrect == Spec => []KnowledgeInv
BY KnowledgeStarts, KnowledgeStep, PTL DEF Spec

-----------------------------------------------------------------------------
(***************************** The theorems *******************************)

\* Whoever submits, approves, publishes and revokes, in whatever order, no
\* policy reaches the users, or leaves them, by one person's hand.
THEOREM PoliciesHaveFourEyes == Spec => []FourEyes
<1>1. KnowledgeInv => FourEyes
  BY DEF KnowledgeInv
<1>2. QED
  BY <1>1, KnowledgeCorrect, PTL

\* The resolution in the last transaction of a query is enough: whatever was
\* revoked, activated or evaluated since the preparation, the answer committed
\* cites policies that are published and in the active, evaluated index.
THEOREM AnswersBacked == Spec => AnswersAreBacked
<1> DEFINE Backed ==
      \A q \in Queries : answer'[q] # answer[q] /\ answer'[q].status = "answered" =>
        /\ answer'[q].cites # {}
        /\ \E i \in Indexes :
             /\ i = answer'[q].index /\ index[i].status = "active" /\ run[i] = "passed"
             /\ \A p \in answer'[q].cites : p \in index[i].members /\ policy[p] = "published"
<1>1. ASSUME KnowledgeInv, [Next]_vars, NEW q \in Queries,
             answer'[q] # answer[q], answer'[q].status = "answered"
      PROVE  /\ answer'[q].cites # {}
             /\ \E i \in Indexes :
                  /\ i = answer'[q].index /\ index[i].status = "active" /\ run[i] = "passed"
                  /\ \A p \in answer'[q].cites :
                       p \in index[i].members /\ policy[p] = "published"
  <2>1. KnowledgeTypes /\ IndexesAreEvaluated /\ RelevantIsFound /\ FourEyes
    BY <1>1 DEF KnowledgeInv
  <2>2. ~ManagePolicies /\ ~ManageIndexes /\ ~UNCHANGED vars
    BY <1>1, <2>1, PolicyStep, IndexStep, EvaluationStep, DatasetStep
       DEF ManagePolicies, ManageIndexes, vars
  <2>3. PICK r \in Queries : Prepare(r) \/ Preflight(r) \/ Generate(r) \/ Commit(r)
    BY <1>1, <2>2 DEF Next, Ask
  <2>4. answer \in [Queries -> AnswerRecord]
    BY <2>1 DEF KnowledgeTypes
  <2>5. Commit(r)
    BY <1>1, <2>3 DEF Prepare, Preflight, Generate, Asks
  <2>6. PICK cites \in SUBSET query[r].relevant :
          Resolves(r) /\ cites # {} /\ Commits(r, "answered", cites)
    <3>1. ASSUME Commits(r, "refused", {})
          PROVE  FALSE
      BY <1>1, <2>4, <3>1 DEF Commits
    <3>2. QED
      BY <2>5, <3>1 DEF Commit, Resolves
  <2>7. q = r /\ answer'[q].index = ActiveIndex /\ answer'[q].cites = cites
    BY <1>1, <2>4, <2>6 DEF Commits
  <2>8. /\ ActiveIndex \in Indexes /\ index[ActiveIndex].status = "active"
        /\ run[ActiveIndex] = "passed"
    BY <2>1, <2>6, ActiveIndexType DEF Resolves, IndexesAreEvaluated
  <2>9. cites \subseteq Allowed(ActiveIndex)
    BY <2>1, <2>6 DEF Resolves, RelevantIsFound
  <2>10. QED
    BY <2>6, <2>7, <2>8, <2>9 DEF Allowed
<1>2. KnowledgeInv /\ KnowledgeInv' /\ [Next]_vars => [Backed]_vars
  BY <1>1
<1>3. QED
  BY <1>2, KnowledgeCorrect, PTL DEF Spec, AnswersAreBacked

\* Every transaction of policy_management is one that the triggers of
\* migration 026 accept.
THEOREM RefinesPolicyLifecycle == Spec => ImplementsPolicyLifecycle
<1>1. Init => Policy!Init
  BY DEF Init, Policy!Init
<1>2. KnowledgeInv /\ [Next]_vars => [Policy!Next]_(Policy!lvars)
  <2> SUFFICES ASSUME KnowledgeInv, [Next]_vars
               PROVE  Policy!Next \/ UNCHANGED Policy!lvars
    OBVIOUS
  <2>1. KnowledgeTypes /\ IndexesAreEvaluated /\ RelevantIsFound
    BY DEF KnowledgeInv
  <2>2. ASSUME NEW p \in Policies, NEW u \in Users,
               \/ Submit(p, u) \/ Approve(p, u) \/ Publish(p, u)
               \/ RequestRevocation(p, u) \/ Revoke(p, u)
        PROVE  Policy!Next
    <3>1. \/ Policy!Submitted(p, u) \/ Policy!Approved(p, u) \/ Policy!Published(p, u)
          \/ Policy!RevocationRequested(p, u) \/ Policy!Revoked(p, u)
      BY <2>2
         DEF Submit, Approve, Publish, RequestRevocation, Revoke, Becomes, Policy!Moves,
             Policy!Submitted, Policy!Approved, Policy!Published, Policy!RevocationRequested,
             Policy!Revoked
    <3>2. QED
      BY <3>1 DEF Policy!Next
  <2>3. CASE ManageIndexes
    BY <2>1, <2>3, IndexStep, EvaluationStep, DatasetStep DEF ManageIndexes, Policy!lvars
  <2>4. CASE Ask
    BY <2>1, <2>4, QuestionStep DEF Ask, Policy!lvars
  <2>5. QED
    BY <2>2, <2>3, <2>4 DEF Next, ManagePolicies, vars, Policy!lvars
<1>3. QED
  BY <1>1, <1>2, KnowledgeCorrect, PTL DEF Spec, ImplementsPolicyLifecycle, Policy!Spec

\* The requests of index management, and the last transactions of its jobs, only
\* write what the trigger of migration 019 accepts: an index that once passed its
\* evaluation is never evaluated again, and activation leaves one active index.
THEOREM IndexesFollowTrigger == Spec => ImplementsIndexLifecycles
<1>1. Init => IndexLife!Init
  BY DEF Init, IndexLife!Init
<1>2. KnowledgeInv /\ [Next]_vars => [IndexLife!Next]_(IndexLife!lvars)
  <2> SUFFICES ASSUME KnowledgeInv, [Next]_vars
               PROVE  IndexLife!Next \/ UNCHANGED IndexLife!lvars
    OBVIOUS
  <2>1. KnowledgeTypes /\ IndexesAreEvaluated /\ RelevantIsFound
    BY DEF KnowledgeInv
  <2>2. /\ index \in [Indexes -> IndexRecord]
        /\ run \in [Indexes -> {"none", "running", "passed", "failed"}]
    BY <2>1 DEF KnowledgeTypes
  <2>3. ASSUME NEW i \in Indexes, Build(i)
        PROVE  IndexLife!Built(i)
    BY <2>1, <2>2, <2>3
       DEF Build, IndexOnly, IndexRecord, IndexesAreEvaluated, IndexLife!Built, IndexLife!Moves
  <2>4. ASSUME NEW i \in Indexes, BuildFills(i)
        PROVE  IndexLife!Filled(i)
    BY <2>2, <2>4 DEF BuildFills, IndexOnly, IndexRecord, IndexLife!Filled
  <2>5. ASSUME NEW i \in Indexes, BuildEnds(i)
        PROVE  IndexLife!Ready(i) \/ IndexLife!Failed(i)
    <3>1. PICK status \in {"ready", "failed"} :
            /\ index[i].status = "building" /\ (status = "ready" => index[i].filled)
            /\ index' = [index EXCEPT ![i].status = status]
            /\ run' = run
      BY <2>5 DEF BuildEnds, IndexOnly
    <3>2. \A k \in Indexes :
            /\ index'[k].filled = index[k].filled
            /\ index'[k].status = IF k = i THEN status ELSE index[k].status
      BY <2>2, <3>1 DEF IndexRecord
    <3>3. QED
      BY <3>1, <3>2 DEF IndexLife!Ready, IndexLife!Failed, IndexLife!Moves
  <2>6. ASSUME NEW i \in Indexes, Activate(i)
        PROVE  IndexLife!Activated(i)
    BY <2>1, <2>2, <2>6
       DEF Activate, IndexOnly, IndexRecord, IndexesAreEvaluated, Active, IndexLife!Activated
  <2>7. ASSUME NEW i \in Indexes, Evaluate(i)
        PROVE  UNCHANGED IndexLife!lvars
    BY <2>2, <2>7 DEF Evaluate, RunOnly, IndexLife!lvars
  <2>8. ASSUME NEW i \in Indexes, EvaluationEnds(i)
        PROVE  IndexLife!Passed(i) \/ UNCHANGED IndexLife!lvars
    BY <2>1, <2>2, <2>8
       DEF EvaluationEnds, RunOnly, IndexesAreEvaluated, IndexLife!Passed, IndexLife!lvars
  <2>9. CASE ManageIndexes
    <3>1. CASE \E i \in Indexes :
                 Build(i) \/ BuildFills(i) \/ BuildEnds(i) \/ Activate(i) \/ Evaluate(i)
                 \/ EvaluationEnds(i)
      BY <2>3, <2>4, <2>5, <2>6, <2>7, <2>8, <3>1 DEF IndexLife!Next
    <3>2. CASE \E u \in Users : TransitionDataset(u)
      BY <3>2 DEF TransitionDataset, IndexLife!lvars
    <3>3. QED
      BY <2>9, <3>1, <3>2 DEF ManageIndexes
  <2>10. CASE ManagePolicies
    BY <2>10
       DEF ManagePolicies, Submit, Approve, Publish, RequestRevocation, Revoke, PolicyOnly,
           IndexLife!lvars
  <2>11. CASE Ask
    BY <2>11
       DEF Ask, Prepare, Preflight, Generate, Commit, Asks, Commits, QueryOnly, IndexLife!lvars
  <2>12. QED
    BY <2>9, <2>10, <2>11 DEF Next, vars, IndexLife!lvars
<1>3. QED
  BY <1>1, <1>2, KnowledgeCorrect, PTL DEF Spec, ImplementsIndexLifecycles, IndexLife!Spec

-----------------------------------------------------------------------------
(***************************************************************************)
(* Part 2: the build of one index, for any workers, batches, vectors and   *)
(* attempt limits.  The index agrees with its job, what was recorded       *)
(* stays, only a complete index gets ready, and every write is one that    *)
(* the trigger of migration 019 accepts.                                   *)
(***************************************************************************)

(***************************************************************************)
(* The inductive invariant: beside types and agreement, a queued job has   *)
(* an attempt left, and an executor has seen every batch before its own    *)
(* recorded; what is recorded is never taken back, so this stays true of   *)
(* an executor that has lost its job.                                      *)
(***************************************************************************)
QueuedHasAttempt == bjob.status = "queued" => bjob.attempt < BuildAttempts

AllRecorded == \A b \in Batches : recorded[b] # NoVector

Progress(p) ==
  /\ bexec[p].pc \in {"upserting", "materializing"} => bexec[p].vector \in Vectors
  /\ bexec[p].pc \in {"claimed", "embedding", "upserting", "materializing"} =>
       \A b \in Batches : b < bexec[p].batch => recorded[b] # NoVector
  /\ bexec[p].pc \in {"retrieving", "comparing", "finishing"} => AllRecorded

BuildProgress ==
  /\ \A p \in Procs : Progress(p)
  /\ version = "ready" => AllRecorded

BuildInv == BuildTypeOK /\ IndexAgreesWithJob /\ QueuedHasAttempt /\ BuildProgress

USE IndexBuildAssumption

-----------------------------------------------------------------------------
(***************************** The job's row ******************************)

LEMMA BuildJobTypes ==
  ASSUME NEW job \in JobRecord(BuildAttempts)
  PROVE  /\ NewJob \in JobRecord(BuildAttempts)
         /\ job.attempt < BuildAttempts => Started(job) \in JobRecord(BuildAttempts)
         /\ \A status \in {"succeeded", "failed"}, retry \in BOOLEAN :
              Over(job, status, retry) \in JobRecord(BuildAttempts)
         /\ Requeued(job) \in JobRecord(BuildAttempts)
         /\ Expired(job) \in JobRecord(BuildAttempts)
<1> USE DEF JobRecord
<1>1. NewJob \in JobRecord(BuildAttempts)
  <2>1. 0 \in 0..BuildAttempts
    OBVIOUS
  <2>2. QED
    BY <2>1 DEF NewJob, NoJob
<1>2. ASSUME job.attempt < BuildAttempts
      PROVE  Started(job) \in JobRecord(BuildAttempts)
  <2>1. job.attempt + 1 \in 0..BuildAttempts
    BY <1>2
  <2>2. QED
    BY <2>1 DEF Started
<1>3. QED
  BY <1>1, <1>2 DEF Over, Requeued, Expired

LEMMA BuildJobFields ==
  ASSUME NEW job \in JobRecord(BuildAttempts)
  PROVE  /\ NewJob.status = "queued" /\ NewJob.attempt = 0
         /\ Started(job).status = "running"
         /\ Started(job).retry = job.retry
         /\ Over(job, "succeeded", FALSE).status = "succeeded"
         /\ Over(job, "failed", FALSE).status = "failed" /\ ~Over(job, "failed", FALSE).retry
         /\ \A retry \in BOOLEAN : /\ Over(job, "failed", retry).status = "failed"
                                  /\ Over(job, "failed", retry).retry = retry
         /\ Requeued(job).status = "queued" /\ Requeued(job).attempt = job.attempt
         /\ Expired(job).status = job.status /\ Expired(job).attempt = job.attempt
         /\ Expired(job).retry = job.retry
BY DEF JobRecord, NoJob, NewJob, Started, Over, Requeued, Expired

-----------------------------------------------------------------------------
(**************************** The executors *******************************)

LEMMA BIdleType == BIdle \in BuildExec
<1>1. /\ 1 \in Batches /\ 0 \in 0..BuildAttempts
      /\ Unseen \in Hashes
  BY DEF Batches, Unseen, Hashes
<1>2. QED
  BY <1>1 DEF BIdle, BuildExec

\* An executor that takes the job starts at the first batch.
LEMMA StartType ==
  ASSUME BuildTypeOK, bjob.attempt < BuildAttempts, NEW p \in Procs, BStarts(p)
  PROVE  /\ bexec' \in [Procs -> BuildExec]
         /\ \A q \in Procs \ {p} : bexec'[q] = bexec[q]
         /\ bexec'[p].pc = "claimed" /\ bexec'[p].batch = 1
<1>1. bjob.attempt + 1 \in 0..BuildAttempts
  BY DEF BuildTypeOK, JobRecord
<1>2. [BIdle EXCEPT !.pc = "claimed", !.attempt = bjob.attempt + 1] \in BuildExec
  BY <1>1, BIdleType DEF BuildExec
<1>3. [BIdle EXCEPT !.pc = "claimed", !.attempt = bjob.attempt + 1].batch = 1
  BY DEF BIdle
<1>4. [BIdle EXCEPT !.pc = "claimed", !.attempt = bjob.attempt + 1].pc = "claimed"
  BY DEF BIdle
<1>5. QED
  BY <1>2, <1>3, <1>4 DEF BStarts, BuildTypeOK

\* A step of one executor leaves the others alone and keeps the types.
LEMMA ExecutorTypes ==
  ASSUME BuildTypeOK, NEW p \in Procs, BuildExecutorNext(p)
  PROVE  /\ bexec' \in [Procs -> BuildExec]
         /\ \A q \in Procs \ {p} : bexec'[q] = bexec[q]
<1>1. bexec \in [Procs -> BuildExec] /\ bexec[p] \in BuildExec
  BY DEF BuildTypeOK
<1>2. ASSUME BStops(p)
      PROVE  /\ bexec' \in [Procs -> BuildExec]
             /\ \A q \in Procs \ {p} : bexec'[q] = bexec[q]
  BY <1>1, <1>2, BIdleType DEF BStops
<1>3. ASSUME NEW pc \in {"embedding", "materializing", "finishing"}, BGoes(p, pc)
      PROVE  /\ bexec' \in [Procs -> BuildExec]
             /\ \A q \in Procs \ {p} : bexec'[q] = bexec[q]
  <2>1. [bexec[p] EXCEPT !.pc = pc] \in BuildExec
    BY <1>1 DEF BuildExec
  <2>2. QED
    BY <1>1, <1>3, <2>1 DEF BGoes
<1>4. ASSUME NEW try \in BOOLEAN, BFails(p, try)
      PROVE  /\ bexec' \in [Procs -> BuildExec]
             /\ \A q \in Procs \ {p} : bexec'[q] = bexec[q]
  <2>1. [bexec[p] EXCEPT !.pc = "failing", !.retry = try] \in BuildExec
    BY <1>1 DEF BuildExec
  <2>2. QED
    BY <1>1, <1>4, <2>1 DEF BFails
<1>5. CASE StartBuild(p)
  BY <1>3, <1>4, <1>5 DEF StartBuild
<1>6. CASE Embed(p)
  <2>1. ASSUME NEW v \in Vectors,
               bexec' = [bexec EXCEPT ![p].pc = "upserting", ![p].vector = v]
        PROVE  /\ bexec' \in [Procs -> BuildExec]
               /\ \A q \in Procs \ {p} : bexec'[q] = bexec[q]
    <3>1. [bexec[p] EXCEPT !.pc = "upserting", !.vector = v] \in BuildExec
      BY <1>1 DEF BuildExec
    <3>2. QED
      BY <1>1, <2>1, <3>1
  <2>2. QED
    BY <1>4, <1>6, <2>1 DEF Embed
<1>7. CASE Upsert(p)
  BY <1>3, <1>4, <1>7 DEF Upsert
<1>8. CASE Materialize(p)
  <2>1. ASSUME NextBatch(p)
        PROVE  /\ bexec' \in [Procs -> BuildExec]
               /\ \A q \in Procs \ {p} : bexec'[q] = bexec[q]
    <3>1. bexec[p].batch \in Batches
      BY <1>1 DEF BuildExec
    <3>2. CASE bexec[p].batch = MaxBatches
      <4>1. [bexec[p] EXCEPT !.pc = "retrieving", !.vector = NoVector] \in BuildExec
        BY <1>1 DEF BuildExec
      <4>2. bexec' = [bexec EXCEPT ![p] = [bexec[p] EXCEPT !.pc = "retrieving",
                                                         !.vector = NoVector]]
        BY <1>1, <2>1, <3>2 DEF NextBatch, BuildExec
      <4>3. QED
        BY <1>1, <4>1, <4>2
    <3>3. CASE bexec[p].batch # MaxBatches
      <4>1. bexec[p].batch + 1 \in Batches
        BY <3>1, <3>3 DEF Batches
      <4>2. [bexec[p] EXCEPT !.pc = "embedding", !.batch = bexec[p].batch + 1,
                             !.vector = NoVector] \in BuildExec
        BY <1>1, <4>1 DEF BuildExec
      <4>3. bexec' = [bexec EXCEPT ![p] =
                        [bexec[p] EXCEPT !.pc = "embedding", !.batch = bexec[p].batch + 1,
                                         !.vector = NoVector]]
        BY <1>1, <2>1, <3>3 DEF NextBatch
      <4>4. QED
        BY <1>1, <4>2, <4>3
    <3>4. QED
      BY <3>2, <3>3
  <2>2. QED
    BY <1>4, <1>8, <2>1 DEF Materialize
<1>9. CASE Retrieve(p)
  <2>1. ASSUME bexec' = [bexec EXCEPT ![p].pc = "comparing", ![p].seen = stored]
        PROVE  /\ bexec' \in [Procs -> BuildExec]
               /\ \A q \in Procs \ {p} : bexec'[q] = bexec[q]
    <3>1. [bexec[p] EXCEPT !.pc = "comparing", !.seen = stored] \in BuildExec
      BY <1>1 DEF BuildExec, BuildTypeOK
    <3>2. QED
      BY <1>1, <2>1, <3>1
  <2>2. QED
    BY <1>4, <1>9, <2>1 DEF Retrieve
<1>10. CASE Compare(p)
  BY <1>3, <1>4, <1>10 DEF Compare
<1>11. CASE FinishBuild(p) \/ FailBuild(p) \/ DropBuild(p)
  BY <1>2, <1>11 DEF FinishBuild, FailBuild, DropBuild
<1>12. QED
  BY <1>5, <1>6, <1>7, <1>8, <1>9, <1>10, <1>11 DEF BuildExecutorNext

-----------------------------------------------------------------------------
(******************* The index, its items and its job *********************)

LEMMA BuildTypeStep ==
  ASSUME BuildTypeOK, IndexAgreesWithJob, QueuedHasAttempt, [BuildNext]_bvars
  PROVE  BuildTypeOK'
<1>1. /\ version \in {"absent", "building", "ready", "failed"}
      /\ recorded \in Hashes /\ stored \in Hashes
      /\ withdrawn \in BOOLEAN /\ bmessage \in BOOLEAN
      /\ bjob \in JobRecord(BuildAttempts)
      /\ bexec \in [Procs -> BuildExec]
  BY DEF BuildTypeOK
<1>2. CASE UNCHANGED bvars
  BY <1>1, <1>2 DEF bvars, BuildTypeOK
<1>3. CASE BuildIndex
  BY <1>1, <1>3, BuildJobTypes DEF BuildIndex, BuildTypeOK
<1>4. ASSUME NEW w \in Workers, ClaimBuild(w)
      PROVE  BuildTypeOK'
  <2>1. bjob.attempt < BuildAttempts
    BY <1>4 DEF ClaimBuild, QueuedHasAttempt
  <2>2. w \in Procs
    BY DEF Procs
  <2>3. bexec' \in [Procs -> BuildExec]
    BY <1>4, <2>1, <2>2, StartType DEF ClaimBuild
  <2>4. QED
    BY <1>1, <1>4, <2>1, <2>3, BuildJobTypes DEF ClaimBuild, BuildTypeOK
<1>5. CASE BuildDispatchDies \/ BuildLeaseExpires
  BY <1>1, <1>5, BuildJobTypes
     DEF BuildDispatchDies, BuildLeaseExpires, BuildTypeOK
<1>6. CASE RequeueBuild \/ GiveUpBuild
  BY <1>1, <1>6, BuildJobTypes DEF RequeueBuild, GiveUpBuild, BuildTypeOK
<1>7. CASE TakeOverBuild
  <2>1. Maintenance \in Procs
    BY DEF Procs
  <2>2. bexec' \in [Procs -> BuildExec]
    BY <1>7, <2>1, StartType DEF TakeOverBuild
  <2>3. QED
    BY <1>1, <1>7, <2>2, BuildJobTypes DEF TakeOverBuild, BuildTypeOK
<1>8. CASE WithdrawMember
  BY <1>1, <1>8 DEF WithdrawMember, BuildTypeOK
<1>9. ASSUME NEW p \in Procs, BuildExecutorNext(p)
      PROVE  BuildTypeOK'
  <2>1. bexec' \in [Procs -> BuildExec]
    BY <1>9, ExecutorTypes
  <2>2. bexec[p] \in BuildExec
    BY <1>1
  <2>3. stored' \in Hashes
    <3>1. ASSUME Upsert(p) PROVE stored' \in Hashes
      BY <1>1, <2>2, <3>1 DEF Upsert, Hashes, BuildExec
    <3>2. QED
      BY <1>1, <1>9, <3>1
         DEF BuildExecutorNext, StartBuild, Embed, Materialize, Retrieve, Compare,
             FinishBuild, FailBuild, DropBuild
  <2>4. recorded' \in Hashes
    <3>1. ASSUME Materialize(p) PROVE recorded' \in Hashes
      BY <1>1, <2>2, <3>1 DEF Materialize, Records, Hashes, BuildExec
    <3>2. QED
      BY <1>1, <1>9, <3>1
         DEF BuildExecutorNext, StartBuild, Embed, Upsert, Retrieve, Compare,
             FinishBuild, FailBuild, DropBuild
  <2>5. bjob' \in JobRecord(BuildAttempts) /\ version' \in {"absent", "building", "ready", "failed"}
    <3>1. ASSUME FailBuild(p)
          PROVE  /\ bjob' \in JobRecord(BuildAttempts)
                 /\ version' \in {"absent", "building", "ready", "failed"}
      <4> DEFINE again == bexec[p].retry /\ bexec[p].attempt < BuildAttempts
      <4>1. again \in BOOLEAN
        BY <2>2 DEF BuildExec
      <4>2. /\ version' = IF ~again /\ version = "building" THEN "failed" ELSE version
            /\ bjob' = Over(bjob, "failed", again)
        BY <3>1 DEF FailBuild
      <4> HIDE DEF again
      <4>3. QED
        BY <1>1, <4>1, <4>2, BuildJobTypes
    <3>2. QED
      BY <1>1, <1>9, <3>1, BuildJobTypes
         DEF BuildExecutorNext, StartBuild, Embed, Upsert, Materialize, Retrieve, Compare,
             FinishBuild, DropBuild
  <2>6. withdrawn' = withdrawn /\ bmessage' = bmessage
    BY <1>9
       DEF BuildExecutorNext, StartBuild, Embed, Upsert, Materialize, Retrieve, Compare,
           FinishBuild, FailBuild, DropBuild
  <2>7. QED
    BY <1>1, <2>1, <2>3, <2>4, <2>5, <2>6 DEF BuildTypeOK
<1>10. QED
  BY <1>2, <1>3, <1>4, <1>5, <1>6, <1>7, <1>8, <1>9 DEF BuildNext, BuildDelivery, BuildMaintenance

LEMMA BuildAgreesStep ==
  ASSUME BuildTypeOK, IndexAgreesWithJob, QueuedHasAttempt, [BuildNext]_bvars
  PROVE  IndexAgreesWithJob' /\ QueuedHasAttempt'
<1>1. /\ bjob \in JobRecord(BuildAttempts)
      /\ bexec \in [Procs -> BuildExec]
      /\ version \in {"absent", "building", "ready", "failed"}
  BY DEF BuildTypeOK
<1> DEFINE Both == IndexAgreesWithJob' /\ QueuedHasAttempt'
<1> USE DEF IndexAgreesWithJob, QueuedHasAttempt
<1>2. CASE UNCHANGED <<version, bjob>>
  BY <1>2
<1>3. CASE BuildIndex
  <2>1. version' = "building" /\ bjob'.status = "queued" /\ bjob'.attempt = 0
    BY <1>1, <1>3, BuildJobFields DEF BuildIndex
  <2>2. QED
    BY <2>1
<1>4. ASSUME NEW w \in Workers, ClaimBuild(w)
      PROVE  Both
  <2>1. version' = "building" /\ bjob'.status = "running"
    BY <1>1, <1>4, BuildJobFields DEF ClaimBuild
  <2>2. QED
    BY <2>1
<1>5. CASE BuildDispatchDies
  <2>1. version' = "building" /\ bjob'.status = "failed" /\ ~bjob'.retry
    BY <1>1, <1>5, BuildJobFields DEF BuildDispatchDies
  <2>2. QED
    BY <2>1
<1>6. CASE BuildLeaseExpires
  <2>1. /\ version' = version /\ bjob.status = "running" /\ bjob'.status = bjob.status
        /\ bjob'.attempt = bjob.attempt
    BY <1>1, <1>6, BuildJobFields DEF BuildLeaseExpires
  <2>2. QED
    BY <2>1
<1>7. CASE RequeueBuild \/ TakeOverBuild
  <2>1. CASE RequeueBuild
    <3>1. /\ version' = "building" /\ bjob'.status = "queued"
          /\ bjob'.attempt = bjob.attempt /\ bjob.attempt < BuildAttempts
      BY <1>1, <2>1, BuildJobFields DEF RequeueBuild
    <3>2. QED
      BY <3>1
  <2>2. CASE TakeOverBuild
    <3>1. version' = "building" /\ bjob'.status = "running"
      BY <1>1, <2>2, BuildJobFields DEF TakeOverBuild
    <3>2. QED
      BY <3>1
  <2>3. QED
    BY <1>7, <2>1, <2>2
<1>8. CASE GiveUpBuild
  <2>1. version' = "failed" /\ bjob'.status = "failed" /\ ~bjob'.retry
    BY <1>1, <1>8, BuildJobFields DEF GiveUpBuild
  <2>2. QED
    BY <2>1
<1>9. ASSUME NEW p \in Procs, FinishBuild(p)
      PROVE  Both
  BY <1>1, <1>9, BuildJobFields DEF FinishBuild
<1>10. ASSUME NEW p \in Procs, FailBuild(p)
      PROVE  Both
  <2> DEFINE again == bexec[p].retry /\ bexec[p].attempt < BuildAttempts
  <2>1. again \in BOOLEAN
    BY <1>1 DEF BuildExec
  <2>2. /\ version' = IF ~again /\ version = "building" THEN "failed" ELSE version
        /\ bjob' = Over(bjob, "failed", again)
    BY <1>10 DEF FailBuild
  <2>3. version = "building"
    BY <1>10 DEF FailBuild, BHolds, HoldsLease
  <2> HIDE DEF again
  <2>4. CASE again = TRUE
    <3>1. version' = "building" /\ bjob' = Over(bjob, "failed", TRUE)
      BY <2>2, <2>3, <2>4
    <3>2. bjob'.status = "failed"
      BY <1>1, <3>1, BuildJobFields
    <3>3. QED
      BY <3>1, <3>2
  <2>5. CASE again = FALSE
    <3>1. version' = "failed" /\ bjob' = Over(bjob, "failed", FALSE)
      BY <2>2, <2>3, <2>5
    <3>2. bjob'.status = "failed" /\ ~bjob'.retry
      BY <1>1, <3>1, BuildJobFields
    <3>3. QED
      BY <3>1, <3>2
  <2>6. QED
    BY <2>1, <2>4, <2>5
<1>11. QED
  BY <1>2, <1>3, <1>4, <1>5, <1>6, <1>7, <1>8, <1>9, <1>10
     DEF BuildNext, BuildDelivery, BuildMaintenance, BuildExecutorNext, bvars,
         WithdrawMember, StartBuild, Embed, Upsert, Materialize,
         Retrieve, Compare, DropBuild

-----------------------------------------------------------------------------
(*************************** What is recorded *****************************)

\* What an item has stays, whoever writes.
LEMMA RecordedStays ==
  ASSUME BuildTypeOK, BuildProgress, [BuildNext]_bvars
  PROVE  \A b \in Batches : recorded[b] # NoVector => recorded'[b] = recorded[b]
<1>1. recorded \in Hashes /\ bexec \in [Procs -> BuildExec]
  BY DEF BuildTypeOK
<1>2. ASSUME NEW p \in Procs, Materialize(p)
      PROVE  \A b \in Batches : recorded[b] # NoVector => recorded'[b] = recorded[b]
  BY <1>1, <1>2 DEF Materialize, Agrees, Records, Hashes, BuildExec
<1>3. QED
  BY <1>2
     DEF BuildNext, BuildDelivery, BuildMaintenance, BuildExecutorNext, bvars, BuildIndex,
         ClaimBuild, BuildDispatchDies, RequeueBuild, TakeOverBuild,
         GiveUpBuild, BuildLeaseExpires, WithdrawMember, StartBuild, Embed, Upsert, Retrieve,
         Compare, FinishBuild, FailBuild, DropBuild

\* An executor that did not move keeps its progress.
LEMMA ProgressKept ==
  ASSUME BuildTypeOK, BuildProgress, [BuildNext]_bvars,
         NEW q \in Procs, bexec'[q] = bexec[q]
  PROVE  Progress(q)'
<1>1. recorded \in Hashes
  BY DEF BuildTypeOK
<1>2. \A b \in Batches : recorded[b] # NoVector => recorded'[b] # NoVector
  BY RecordedStays
<1>3. Progress(q)
  BY DEF BuildProgress
<1>4. QED
  BY <1>2, <1>3 DEF Progress, AllRecorded

LEMMA ExecutorProgress ==
  ASSUME BuildTypeOK, BuildProgress, NEW p \in Procs, BuildExecutorNext(p)
  PROVE  Progress(p)'
<1>1. /\ bexec \in [Procs -> BuildExec] /\ bexec[p] \in BuildExec
      /\ recorded \in Hashes
  BY DEF BuildTypeOK
<1>2. [BuildNext]_bvars
  BY DEF BuildNext
<1>3. \A b \in Batches : recorded[b] # NoVector => recorded'[b] # NoVector
  BY <1>2, RecordedStays
<1>4. Progress(p)
  BY DEF BuildProgress
<1>5. ASSUME bexec'[p].pc \in {"idle", "failing"}
      PROVE  Progress(p)'
  BY <1>5 DEF Progress
<1>6. ASSUME BStops(p)
      PROVE  Progress(p)'
  BY <1>1, <1>5, <1>6 DEF BStops, BIdle
<1>7. ASSUME NEW try \in BOOLEAN, BFails(p, try)
      PROVE  Progress(p)'
  BY <1>1, <1>5, <1>7 DEF BFails, BuildExec
<1>8. CASE StartBuild(p)
  <2>1. ASSUME BGoes(p, "embedding")
        PROVE  Progress(p)'
    <3>1. bexec'[p].pc = "embedding" /\ bexec'[p].batch = bexec[p].batch
      BY <1>1, <2>1 DEF BGoes, BuildExec
    <3>2. QED
      BY <1>3, <1>4, <1>8, <3>1 DEF Progress, StartBuild
  <2>2. QED
    BY <1>7, <1>8, <2>1 DEF StartBuild
<1>9. CASE Embed(p)
  <2>1. ASSUME NEW v \in Vectors,
               bexec' = [bexec EXCEPT ![p].pc = "upserting", ![p].vector = v]
        PROVE  Progress(p)'
    <3>1. /\ bexec'[p].pc = "upserting" /\ bexec'[p].batch = bexec[p].batch
          /\ bexec'[p].vector = v
      BY <1>1, <2>1 DEF BuildExec
    <3>2. QED
      BY <1>3, <1>4, <1>9, <3>1 DEF Progress, Embed
  <2>2. QED
    BY <1>7, <1>9, <2>1 DEF Embed
<1>10. CASE Upsert(p)
  <2>1. ASSUME BGoes(p, "materializing")
        PROVE  Progress(p)'
    <3>1. /\ bexec'[p].pc = "materializing" /\ bexec'[p].batch = bexec[p].batch
          /\ bexec'[p].vector = bexec[p].vector
      BY <1>1, <2>1 DEF BGoes, BuildExec
    <3>2. QED
      BY <1>3, <1>4, <1>10, <3>1 DEF Progress, Upsert
  <2>2. QED
    BY <1>7, <1>10, <2>1 DEF Upsert
<1>11. CASE Materialize(p)
  <2>1. CASE Records(p) /\ NextBatch(p)
    <3>1. bexec[p].batch \in Batches /\ bexec[p].vector \in Vectors
      BY <1>1, <1>4, <1>11 DEF Progress, Materialize, BuildExec
    <3>2. recorded'[bexec[p].batch] # NoVector
      BY <1>1, <2>1, <3>1 DEF Records, Hashes
    <3>3. \A b \in Batches : b < bexec[p].batch => recorded'[b] # NoVector
      BY <1>3, <1>4, <1>11 DEF Progress, Materialize
    <3>4. \A b \in Batches : b <= bexec[p].batch => recorded'[b] # NoVector
      BY <3>1, <3>2, <3>3 DEF Batches
    <3>5. CASE bexec[p].batch = MaxBatches
      <4>1. bexec'[p].pc = "retrieving"
        BY <1>1, <2>1, <3>5 DEF NextBatch, BuildExec
      <4>2. AllRecorded'
        BY <3>4, <3>5 DEF AllRecorded, Batches
      <4>3. QED
        BY <4>1, <4>2 DEF Progress
    <3>6. CASE bexec[p].batch # MaxBatches
      <4>1. bexec'[p].pc = "embedding" /\ bexec'[p].batch = bexec[p].batch + 1
        BY <1>1, <2>1, <3>6 DEF NextBatch, BuildExec
      <4>2. \A b \in Batches : b < bexec[p].batch + 1 => b <= bexec[p].batch
        BY <3>1 DEF Batches
      <4>3. QED
        BY <3>4, <4>1, <4>2 DEF Progress
    <3>7. QED
      BY <3>5, <3>6
  <2>2. QED
    BY <1>7, <1>11, <2>1 DEF Materialize
<1>12. CASE Retrieve(p)
  <2>1. ASSUME bexec' = [bexec EXCEPT ![p].pc = "comparing", ![p].seen = stored]
        PROVE  Progress(p)'
    <3>1. bexec'[p].pc = "comparing"
      BY <1>1, <2>1 DEF BuildExec
    <3>2. QED
      BY <1>3, <1>4, <1>12, <3>1 DEF Progress, Retrieve, AllRecorded
  <2>2. QED
    BY <1>7, <1>12, <2>1 DEF Retrieve
<1>13. CASE Compare(p)
  <2>1. ASSUME BGoes(p, "finishing")
        PROVE  Progress(p)'
    <3>1. bexec'[p].pc = "finishing"
      BY <1>1, <2>1 DEF BGoes, BuildExec
    <3>2. QED
      BY <1>3, <1>4, <1>13, <3>1 DEF Progress, Compare, AllRecorded
  <2>2. QED
    BY <1>7, <1>13, <2>1 DEF Compare
<1>14. CASE FinishBuild(p) \/ FailBuild(p) \/ DropBuild(p)
  BY <1>6, <1>14 DEF FinishBuild, FailBuild, DropBuild
<1>15. QED
  BY <1>8, <1>9, <1>10, <1>11, <1>12, <1>13, <1>14 DEF BuildExecutorNext

-----------------------------------------------------------------------------
(***************************** The theorems *******************************)

LEMMA BuildStep == BuildInv /\ [BuildNext]_bvars => BuildInv'
<1> SUFFICES ASSUME BuildInv, [BuildNext]_bvars
             PROVE  BuildInv'
  OBVIOUS
<1>1. BuildTypeOK /\ IndexAgreesWithJob /\ QueuedHasAttempt /\ BuildProgress
  BY DEF BuildInv
<1>2. BuildTypeOK' /\ IndexAgreesWithJob' /\ QueuedHasAttempt'
  BY <1>1, BuildTypeStep, BuildAgreesStep
<1>3. \A b \in Batches : recorded[b] # NoVector => recorded'[b] # NoVector
  BY <1>1, RecordedStays
<1>4. ASSUME NEW p \in Procs
      PROVE  Progress(p)'
  <2>1. CASE bexec'[p] = bexec[p]
    BY <1>1, <2>1, ProgressKept
  <2>2. ASSUME bexec'[p] # bexec[p]
        PROVE  Progress(p)'
    <3>1. CASE BuildExecutorNext(p)
      BY <1>1, <3>1, ExecutorProgress
    <3>2. ASSUME NEW q \in Procs, BuildExecutorNext(q), q # p
          PROVE  FALSE
      BY <1>1, <2>2, <3>2, ExecutorTypes
    <3>3. ASSUME bjob.attempt < BuildAttempts, NEW q \in Procs, BStarts(q)
          PROVE  Progress(p)'
      <4>1. q = p
        BY <1>1, <2>2, <3>3, StartType
      <4>2. bexec'[p].pc = "claimed" /\ bexec'[p].batch = 1
        BY <1>1, <3>3, <4>1, StartType
      <4>3. QED
        BY <4>2 DEF Progress, Batches
    <3>4. ASSUME NEW w \in Workers, ClaimBuild(w)
          PROVE  Progress(p)'
      BY <1>1, <3>3, <3>4 DEF ClaimBuild, QueuedHasAttempt, Procs
    <3>5. CASE TakeOverBuild
      BY <3>3, <3>5 DEF TakeOverBuild, Procs
    <3>6. QED
      BY <2>2, <3>1, <3>2, <3>4, <3>5
         DEF BuildNext, BuildDelivery, BuildMaintenance, bvars, BuildIndex,
             BuildDispatchDies, RequeueBuild, GiveUpBuild, BuildLeaseExpires, WithdrawMember
  <2>3. QED
    BY <2>1, <2>2
<1>5. version' = "ready" => AllRecorded'
  <2>1. ASSUME NEW p \in Procs, FinishBuild(p)
        PROVE  AllRecorded'
    <3>1. AllRecorded
      BY <1>1, <2>1 DEF FinishBuild, BuildProgress, Progress
    <3>2. QED
      BY <1>3, <3>1 DEF AllRecorded
  <2>2. CASE version = "ready"
    BY <1>1, <1>3, <2>2 DEF BuildProgress, AllRecorded
  <2>3. version' = "ready" => version = "ready" \/ \E p \in Procs : FinishBuild(p)
    BY DEF BuildNext, BuildDelivery, BuildMaintenance, BuildExecutorNext, bvars, BuildIndex,
           ClaimBuild, BuildDispatchDies, RequeueBuild, TakeOverBuild,
           GiveUpBuild, BuildLeaseExpires, WithdrawMember, StartBuild, Embed, Upsert,
           Materialize, Retrieve, Compare, FailBuild, DropBuild
  <2>4. QED
    BY <2>1, <2>2, <2>3
<1>6. QED
  BY <1>2, <1>4, <1>5 DEF BuildInv, BuildProgress

LEMMA BuildStarts == BuildInit => BuildInv
<1> SUFFICES ASSUME BuildInit
             PROVE  BuildInv
  OBVIOUS
<1>1. NoJob \in JobRecord(BuildAttempts) /\ NoJob.status = "absent"
  <2>1. 0 \in 0..BuildAttempts
    OBVIOUS
  <2>2. QED
    BY <2>1 DEF NoJob, JobRecord
<1>2. Unseen \in Hashes
  BY DEF Unseen, Hashes
<1>3. BuildTypeOK
  BY <1>1, <1>2, BIdleType DEF BuildInit, BuildTypeOK
<1>4. \A p \in Procs : Progress(p)
  BY DEF BuildInit, Progress, BIdle
<1>5. QED
  BY <1>1, <1>3, <1>4
     DEF BuildInit, BuildInv, BuildProgress, IndexAgreesWithJob, QueuedHasAttempt

LEMMA BuildCorrect == BuildSpec => []BuildInv
BY BuildStarts, BuildStep, PTL DEF BuildSpec

\* Index and job agree after every transaction of requests, handlers and
\* maintenance: recover_expired_knowledge_job never meets a lost job it must
\* refuse.
THEOREM IndexFollowsJob == BuildSpec => []IndexAgreesWithJob
<1>1. BuildInv => IndexAgreesWithJob
  BY DEF BuildInv
<1>2. QED
  BY <1>1, BuildCorrect, PTL

\* However many attempts embed and upsert, in parallel or late, what
\* materialize_item recorded of an item is never replaced, and
\* mark_index_ready finds every item recorded.
THEOREM RecordsKept == BuildSpec => RecordsAreFinal
<1>1. BuildInv /\ BuildInv' /\ [BuildNext]_bvars =>
        [\A b \in Batches :
           /\ recorded[b] # NoVector => recorded'[b] = recorded[b]
           /\ version' = "ready" => recorded'[b] # NoVector]_bvars
  <2> SUFFICES ASSUME BuildInv, BuildInv', [BuildNext]_bvars, NEW b \in Batches
               PROVE  /\ recorded[b] # NoVector => recorded'[b] = recorded[b]
                      /\ version' = "ready" => recorded'[b] # NoVector
    OBVIOUS
  <2>1. recorded[b] # NoVector => recorded'[b] = recorded[b]
    BY RecordedStays DEF BuildInv
  <2>2. version' = "ready" => recorded'[b] # NoVector
    BY DEF BuildInv, BuildProgress, AllRecorded
  <2>3. QED
    BY <2>1, <2>2
<1>2. QED
  BY <1>1, BuildCorrect, PTL DEF BuildSpec, RecordsAreFinal

-----------------------------------------------------------------------------
(***************************** Refinement *********************************)

LEMMA IndexMoves ==
  ASSUME BuildTypeOK, IndexAgreesWithJob, [BuildNext]_bvars, version' # version
  PROVE  /\ recorded' = recorded
         /\ \/ version = "absent" /\ version' = "building"
            \/ version = "building" /\ version' \in {"ready", "failed"}
<1>1. ASSUME NEW p \in Procs, FinishBuild(p) \/ FailBuild(p)
      PROVE  recorded' = recorded /\ version = "building" /\ version' \in {"ready", "failed"}
  <2>1. BHolds(p) => version = "building"
    BY DEF BHolds, HoldsLease, IndexAgreesWithJob
  <2>2. QED
    BY <1>1, <2>1 DEF FinishBuild, FailBuild
<1>2. QED
  BY <1>1
     DEF BuildNext, BuildDelivery, BuildMaintenance, BuildExecutorNext, bvars, BuildIndex,
         ClaimBuild, BuildDispatchDies, RequeueBuild, TakeOverBuild,
         GiveUpBuild, BuildLeaseExpires, WithdrawMember, StartBuild, Embed, Upsert,
         Materialize, Retrieve, Compare, DropBuild

LEMMA ItemsMove ==
  ASSUME [BuildNext]_bvars, recorded' # recorded
  PROVE  version = "building" /\ version' = version
BY DEF BuildNext, BuildDelivery, BuildMaintenance, BuildExecutorNext, bvars, BuildIndex,
       ClaimBuild, BuildDispatchDies, RequeueBuild, TakeOverBuild,
       GiveUpBuild, BuildLeaseExpires, WithdrawMember, StartBuild, Embed, Upsert,
       Materialize, Retrieve, Compare, FinishBuild, FailBuild, DropBuild

\* Every transaction of build_index, the handler and the recoveries on the
\* index and its items is one that the trigger of migration 019 accepts.
THEOREM RefinesIndexLifecycle == BuildSpec => ImplementsIndexLifecycle
<1> DEFINE one == {"this"}
           st == [i \in one |-> version]
           full == {i \in one : \A b \in Batches : recorded[b] # NoVector}
<1>1. BuildInit => Lifecycle!Init
  <2>1. 1 \in Batches
    BY DEF Batches
  <2>2. BuildInit => full = {}
    BY <2>1 DEF BuildInit, Unseen
  <2>3. QED
    BY <2>2 DEF BuildInit, Lifecycle!Init
<1>2. BuildInv /\ BuildInv' /\ [BuildNext]_bvars => [Lifecycle!Next]_(Lifecycle!lvars)
  <2> SUFFICES ASSUME BuildInv, BuildInv', [BuildNext]_bvars
               PROVE  Lifecycle!Next \/ UNCHANGED Lifecycle!lvars
    OBVIOUS
  <2>1. /\ BuildTypeOK /\ IndexAgreesWithJob /\ BuildProgress /\ BuildProgress'
        /\ full \subseteq one /\ full' \subseteq one
    BY DEF BuildInv
  <2>2. full \subseteq full'
    BY <2>1, RecordedStays
  <2>3. CASE version' = version /\ full' = full
    BY <2>3 DEF Lifecycle!lvars
  <2>4. CASE version' = version /\ full' # full
    <3>1. version = "building"
      BY <2>4, ItemsMove
    <3>2. full' = full \cup {"this"}
      BY <2>1, <2>2, <2>4
    <3>3. Lifecycle!Filled("this")
      BY <2>4, <3>1, <3>2 DEF Lifecycle!Filled
    <3>4. QED
      BY <3>3 DEF Lifecycle!Next
  <2>5. CASE version' # version
    <3>1. /\ full' = full
          /\ \/ version = "absent" /\ version' = "building"
             \/ version = "building" /\ version' \in {"ready", "failed"}
      BY <2>1, <2>5, IndexMoves
    <3>2. version' = "ready" => "this" \in full
      BY <2>1, <3>1 DEF BuildProgress, AllRecorded
    <3>3. st' = [st EXCEPT !["this"] = version'] /\ st["this"] = version
      OBVIOUS
    <3>4. \/ Lifecycle!Built("this")
          \/ Lifecycle!Ready("this")
          \/ Lifecycle!Failed("this")
      BY <3>1, <3>2, <3>3
         DEF Lifecycle!Built, Lifecycle!Ready, Lifecycle!Failed, Lifecycle!Moves
    <3>5. QED
      BY <3>4 DEF Lifecycle!Next
  <2>6. QED
    BY <2>3, <2>4, <2>5
<1>3. QED
  BY <1>1, <1>2, BuildCorrect, PTL DEF BuildSpec, ImplementsIndexLifecycle, Lifecycle!Spec

-----------------------------------------------------------------------------
(****************************** The job's row *****************************)

\* What builders and maintenance write to the job, and what is true of the row
\* they write to: the job exists once the index does, and an attempt that runs
\* has a number and a lease, and so has had one what is to be tried again.
BuildJobWrites ==
  \/ bjob' = bjob
  \/ bjob.status = "absent" /\ bjob' = NewJob
  \/ /\ bjob.status = "queued" \/ Lost(bjob)
     /\ bjob.attempt < BuildAttempts /\ bjob' = Started(bjob)
  \/ bjob.status = "queued" /\ bjob' = Over(bjob, "failed", FALSE)
  \/ /\ Lost(bjob) /\ bjob.attempt = BuildAttempts
     /\ bjob' = Over(bjob, "failed", FALSE)
  \/ /\ bjob.status = "running" /\ bjob.lease = "live"
     /\ \/ bjob' = Expired(bjob)
        \/ bjob' = Over(bjob, "succeeded", FALSE)
        \/ \E retry \in BOOLEAN : bjob' = Over(bjob, "failed", retry)
  \/ /\ bjob.status = "failed" /\ bjob.retry /\ bjob.attempt < BuildAttempts
     /\ bjob' = Requeued(bjob)

BuildJobFits ==
  /\ version = "absent" => bjob.status = "absent"
  /\ bjob.status = "running" \/ bjob.retry => bjob.attempt > 0
  /\ bjob.status = "running" => bjob.lease # "none"

LEMMA BuildJobWritten ==
  ASSUME BuildInv, BuildJobFits, BuildNext
  PROVE  BuildJobWrites /\ (version' = "absent" => bjob' = bjob)
<1> USE DEF BuildJobWrites
<1>1. /\ bjob \in JobRecord(BuildAttempts) /\ QueuedHasAttempt /\ IndexAgreesWithJob
      /\ version = "absent" => bjob.status = "absent"
  BY DEF BuildInv, BuildTypeOK, BuildJobFits
<1>2. CASE BuildIndex
  BY <1>1, <1>2 DEF BuildIndex
<1>3. CASE BuildDelivery \/ BuildLeaseExpires
  BY <1>1, <1>3 DEF BuildDelivery, BuildDispatchDies, ClaimBuild, BuildLeaseExpires,
     QueuedHasAttempt
<1>4. CASE BuildMaintenance
  BY <1>1, <1>4 DEF BuildMaintenance, RequeueBuild, TakeOverBuild, GiveUpBuild
<1>5. CASE WithdrawMember
  BY <1>5 DEF WithdrawMember
<1>6. ASSUME NEW p \in Procs, BuildExecutorNext(p)
      PROVE  BuildJobWrites /\ (version' = "absent" => bjob' = bjob)
  <2>1. CASE FinishBuild(p)
    BY <2>1 DEF FinishBuild, BHolds, HoldsLease
  <2>2. CASE FailBuild(p)
    <3>1. /\ \E retry \in BOOLEAN : bjob' = Over(bjob, "failed", retry)
          /\ version' \in {"failed", version}
      BY <2>2 DEF FailBuild
    <3>2. bjob.status = "running" /\ bjob.lease = "live"
      BY <2>2 DEF FailBuild, BHolds, HoldsLease
    <3>3. QED
      BY <1>1, <3>1, <3>2
  <2>3. QED
    BY <1>6, <2>1, <2>2
       DEF BuildExecutorNext, StartBuild, Embed, Upsert, Materialize, Retrieve, Compare,
           DropBuild
<1>7. QED
  BY <1>2, <1>3, <1>4, <1>5, <1>6 DEF BuildNext

\* What BuildJobWrites says is what the trigger accepts of such a row.
LEMMA BuildRowAllowed ==
  ASSUME bjob \in JobRecord(BuildAttempts), BuildJobFits, BuildJobWrites
  PROVE  BuildRow!Next \/ bjob' = bjob
<1> USE DEF JobRecord, BuildJobFits, BuildRow!Moves, BuildRow!SameAttempt, BuildRow!NextAttempt
<1>1. CASE bjob.status = "absent" /\ bjob' = NewJob
  BY <1>1 DEF NewJob, NoJob, BuildRow!Inserted, BuildRow!Next
<1>2. CASE /\ bjob.status = "queued" \/ Lost(bjob)
           /\ bjob.attempt < BuildAttempts /\ bjob' = Started(bjob)
  BY <1>2 DEF Started, Lost, BuildRow!Claimed, BuildRow!TakenOver, BuildRow!Next
<1>3. CASE bjob.status = "queued" /\ bjob' = Over(bjob, "failed", FALSE)
  BY <1>3 DEF Over, BuildRow!DispatchFailed, BuildRow!Next
<1>4. CASE /\ Lost(bjob) /\ bjob.attempt = BuildAttempts
           /\ bjob' = Over(bjob, "failed", FALSE)
  BY <1>4 DEF Over, Lost, BuildRow!Finished, BuildRow!Next
<1>5. CASE bjob.status = "running" /\ bjob' = Expired(bjob)
  BY <1>5 DEF Expired, BuildRow!LeaseEnds, BuildRow!Next
<1>6. ASSUME NEW status \in {"succeeded", "failed"}, NEW retry \in BOOLEAN,
             bjob.status = "running", bjob.lease = "live",
             bjob' = Over(bjob, status, retry)
      PROVE  BuildRow!Next
  BY <1>6 DEF Over, BuildRow!Finished, BuildRow!Next
<1>7. CASE /\ bjob.status = "failed" /\ bjob.retry /\ bjob.attempt < BuildAttempts
           /\ bjob' = Requeued(bjob)
  BY <1>7 DEF Requeued, BuildRow!Retried, BuildRow!Next
<1>8. QED
  BY <1>1, <1>2, <1>3, <1>4, <1>5, <1>6, <1>7 DEF BuildJobWrites

LEMMA BuildJobStaysFit ==
  ASSUME bjob \in JobRecord(BuildAttempts), BuildJobFits, BuildJobWrites,
         version' = "absent" => version = "absent" /\ bjob' = bjob
  PROVE  BuildJobFits'
<1> USE DEF JobRecord, BuildJobFits
<1>1. CASE bjob.status = "absent" /\ bjob' = NewJob
  BY <1>1 DEF NewJob, NoJob
<1>2. CASE bjob' = Started(bjob)
  <2>1. bjob'.status = "running" /\ bjob'.attempt = bjob.attempt + 1 /\ bjob'.lease = "live"
    BY <1>2 DEF Started
  <2>2. bjob.attempt + 1 > 0
    OBVIOUS
  <2>3. version' = "absent" => bjob.status = "absent" /\ bjob' = bjob
    OBVIOUS
  <2>4. QED
    BY <2>1, <2>2, <2>3
<1>3. ASSUME NEW status \in {"succeeded", "failed"}, NEW retry \in BOOLEAN,
             bjob' = Over(bjob, status, retry), retry => bjob.attempt > 0
      PROVE  BuildJobFits'
  BY <1>3 DEF Over
<1>4. CASE bjob' = Requeued(bjob) \/ bjob' = Expired(bjob)
  BY <1>4 DEF Requeued, Expired
<1>5. QED
  BY <1>1, <1>2, <1>3, <1>4 DEF BuildJobWrites

\* The job knowledge_index_build obeys its trigger, through retries, takeovers and
\* late builders (enforce_async_jobs_state_v1).
THEOREM RefinesBuildRow == BuildSpec => ImplementsBuildRow
<1>1. BuildInit => BuildJobFits /\ BuildRow!Init
  BY DEF BuildInit, BuildJobFits, NoJob, BuildRow!Init
<1>2. ASSUME BuildInv, BuildJobFits, [BuildNext]_bvars
      PROVE  BuildJobFits' /\ [BuildRow!Next]_bjob
  <2>1. CASE UNCHANGED bvars
    BY <1>2, <2>1 DEF bvars, BuildJobFits
  <2>2. CASE BuildNext
    <3>1. bjob \in JobRecord(BuildAttempts)
      BY <1>2 DEF BuildInv, BuildTypeOK
    <3>2. BuildJobWrites /\ (version' = "absent" => bjob' = bjob)
      BY <1>2, <2>2, BuildJobWritten
    <3>3. version' = "absent" => version = "absent"
      BY <2>2 DEF BuildNext, BuildDelivery, BuildMaintenance, BuildExecutorNext,
         BuildIndex, ClaimBuild, BuildDispatchDies, RequeueBuild, TakeOverBuild,
         GiveUpBuild, BuildLeaseExpires, WithdrawMember, StartBuild, Embed, Upsert,
         Materialize, Retrieve, Compare, FinishBuild, FailBuild, DropBuild
    <3>4. QED
      BY <1>2, <3>1, <3>2, <3>3, BuildJobStaysFit, BuildRowAllowed DEF BuildJobFits
  <2>3. QED
    BY <1>2, <2>1, <2>2
<1>3. QED
  BY <1>1, <1>2, BuildCorrect, PTL DEF BuildSpec, ImplementsBuildRow, BuildRow!Spec
=============================================================================
