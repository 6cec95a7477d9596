--------------------------- MODULE KnowledgeBase ---------------------------
(***************************************************************************)
(* One knowledge base: its policies (services/policy_management.py), the   *)
(* index versions over their chunks and the formal evaluations             *)
(* (services/knowledge_index_management.py), and the questions people ask  *)
(* (services/rag_query.py).  A management request is one transaction under *)
(* the locks of organization and knowledge base; a question is prepared,   *)
(* answered by the model and committed in separate steps, between which    *)
(* policies are revoked and other indexes activated.                       *)
(* The jobs behind an index and an evaluation are in IndexBuild; here only *)
(* their last transaction is a step.  A policy has one chunk set, all      *)
(* policies are in force, and everybody has the roles they ask for.        *)
(***************************************************************************)
EXTENDS Naturals, FiniteSets

CONSTANTS
  Policies,    \* the policy documents of the knowledge base
  Users,       \* people with the roles of reviewers and administrators
  Nobody,      \* a person column that is NULL
  Indexes,     \* identities of document_index_versions rows (bound)
  Queries,     \* identities of qa_queries rows (bound)
  NoIndex,     \* index_version_id is NULL
  MaxMembers   \* the 10 000 members an index may have, in policies

ASSUME KnowledgeBaseAssumption ==
  /\ Nobody \notin Users
  /\ NoIndex \notin Indexes
  /\ MaxMembers \in Nat

VARIABLES
  policy,      \* status of each policy
  evidence,    \* the persons behind each policy
  index,       \* status and frozen members of each index version
  dataset,     \* the formal_release evaluation dataset
  run,         \* the latest formal evaluation of each index
  query,       \* the questions in progress
  answer       \* the qa_queries row of each question

vars == <<policy, evidence, index, dataset, run, query, answer>>

Policy ==
  INSTANCE PolicyLifecycle WITH
    Policies <- Policies, Users <- Users, Nobody <- Nobody,
    status <- policy, evidence <- evidence

IndexRecord ==
  [status : {"absent", "building", "ready", "active", "superseded", "failed"},
   members : SUBSET Policies, filled : BOOLEAN]
DatasetRecord ==
  [status : {"draft", "submitted", "approved"}, submitter : Users \cup {Nobody}]
QueryRecord ==
  [pc : {"new", "prepared", "asking", "drafted", "done"}, index : Indexes \cup {NoIndex},
   hits : SUBSET Policies, relevant : SUBSET Policies, draft : SUBSET Policies]
AnswerRecord ==
  [status : {"none", "answered", "refused"}, index : Indexes \cup {NoIndex},
   cites : SUBSET Policies]

NewQuery == [pc |-> "new", index |-> NoIndex, hits |-> {}, relevant |-> {}, draft |-> {}]
NoAnswer == [status |-> "none", index |-> NoIndex, cites |-> {}]

Live(p)   == policy[p] \in {"business_approved", "published"}
Active    == {i \in Indexes : index[i].status = "active"}
ActiveIndex == IF Active = {} THEN NoIndex ELSE CHOOSE i \in Active : TRUE

-----------------------------------------------------------------------------
(****************************** Policies **********************************)

PolicyOnly == UNCHANGED <<index, dataset, run, query, answer>>
Becomes(p, status) == policy' = [policy EXCEPT ![p] = status]

Submit(p, u) ==
  /\ policy[p] = "draft"
  /\ Becomes(p, "submitted")
  /\ evidence' = [evidence EXCEPT ![p].submitter = u]
  /\ PolicyOnly

\* approve, which also generates and activates the chunk set.
Approve(p, u) ==
  /\ policy[p] = "submitted" /\ u # evidence[p].submitter
  /\ Becomes(p, "business_approved")
  /\ evidence' = [evidence EXCEPT ![p].approver = u]
  /\ PolicyOnly

\* The active index, with its passed formal evaluation, has the policy.
Serves(p) == \E i \in Active : p \in index[i].members /\ run[i] = "passed"
Publish(p, u) ==
  /\ policy[p] = "business_approved" /\ u # evidence[p].approver
  /\ Serves(p)
  /\ Becomes(p, "published")
  /\ evidence' = [evidence EXCEPT ![p].publisher = u]
  /\ PolicyOnly

RequestRevocation(p, u) ==
  /\ policy[p] = "published" /\ evidence[p].requester = Nobody
  /\ evidence' = [evidence EXCEPT ![p].requester = u]
  /\ UNCHANGED policy /\ PolicyOnly

\* Faulty variant: the one who asks for the revocation may execute it.
RevokeAlone(p, u) ==
  /\ policy[p] = "published" /\ evidence[p].requester # Nobody
  /\ Becomes(p, "revoked")
  /\ evidence' = [evidence EXCEPT ![p].revoker = u]
  /\ PolicyOnly

Revoke(p, u) ==
  /\ policy[p] = "published" /\ evidence[p].requester \notin {Nobody, u}
  /\ Becomes(p, "revoked")
  /\ evidence' = [evidence EXCEPT ![p].revoker = u]
  /\ PolicyOnly

-----------------------------------------------------------------------------
(************************* Indexes and evaluations ************************)

IndexOnly == UNCHANGED <<policy, evidence, dataset, run, query, answer>>

\* frozen_index_members.
Frozen == {p \in Policies : Live(p)}

\* build_index.  uq_index_input_identity ignores the status: what a failed
\* version was built of cannot be built again.
Build(i) ==
  /\ index[i].status = "absent"
  /\ Frozen # {} /\ Cardinality(Frozen) <= MaxMembers
  /\ \A k \in Indexes : index[k].status # "absent" => index[k].members # Frozen
  /\ index' = [index EXCEPT ![i] = [status |-> "building", members |-> Frozen, filled |-> FALSE]]
  /\ IndexOnly

\* The job has recorded the last item; the trigger on the items refuses one
\* whose policy is not live.
BuildFills(i) ==
  /\ index[i].status = "building" /\ ~index[i].filled
  /\ \A p \in index[i].members : Live(p)
  /\ index' = [index EXCEPT ![i].filled = TRUE]
  /\ IndexOnly

\* The last transaction of the job.
BuildEnds(i) ==
  /\ index[i].status = "building"
  /\ \E status \in {"ready", "failed"} :
       /\ status = "ready" => index[i].filled
       /\ index' = [index EXCEPT ![i].status = status]
  /\ IndexOnly

Activate(i) ==
  /\ index[i].status = "ready" /\ run[i] = "passed"
  /\ index' = [k \in Indexes |->
       IF k = i THEN [index[k] EXCEPT !.status = "active"]
       ELSE IF k \in Active THEN [index[k] EXCEPT !.status = "superseded"]
       ELSE index[k]]
  /\ IndexOnly

TransitionDataset(u) ==
  /\ \/ /\ dataset.status = "draft"
        /\ dataset' = [status |-> "submitted", submitter |-> u]
     \/ /\ dataset.status = "submitted" /\ u # dataset.submitter
        /\ dataset' = [dataset EXCEPT !.status = "approved"]
  /\ UNCHANGED <<policy, evidence, index, run, query, answer>>

RunOnly == UNCHANGED <<policy, evidence, index, dataset, query, answer>>

\* create_evaluation_run; an index is evaluated again after a failure (bound).
Evaluate(i) ==
  /\ index[i].status \in {"ready", "active"} /\ dataset.status = "approved"
  /\ run[i] \in {"none", "failed"}
  /\ run' = [run EXCEPT ![i] = "running"]
  /\ RunOnly

\* The last transaction of the evaluation job.
EvaluationEnds(i) ==
  /\ run[i] = "running"
  /\ \E verdict \in {"passed", "failed"} : run' = [run EXCEPT ![i] = verdict]
  /\ RunOnly

-----------------------------------------------------------------------------
(****************************** Questions *********************************)

QueryOnly == UNCHANGED <<policy, evidence, index, dataset, run>>
Asks(q, record) == query' = [query EXCEPT ![q] = record] /\ UNCHANGED answer /\ QueryOnly

\* active_point_ids.
Allowed(i) == {p \in index[i].members : policy[p] = "published"}

\* _prepare: the points Qdrant finds among the allowed ones.  What is relevant
\* among them is a function of question and contents.
Prepare(q) ==
  /\ query[q].pc = "new"
  /\ \/ /\ ActiveIndex # NoIndex
        /\ \E hits \in SUBSET Allowed(ActiveIndex) : \E relevant \in SUBSET hits :
             Asks(q, [NewQuery EXCEPT !.pc = "prepared", !.index = ActiveIndex,
                                      !.hits = hits, !.relevant = relevant])
     \/ ActiveIndex = NoIndex /\ Asks(q, [NewQuery EXCEPT !.pc = "prepared"])

\* _resolve answers: same index still active, final_authorized_hits finds all.
Resolves(q) ==
  /\ query[q].index # NoIndex /\ query[q].index = ActiveIndex
  /\ query[q].hits \subseteq Allowed(ActiveIndex)
  /\ query[q].relevant # {}

\* The resolution before the model is called, if it is called at all.
Preflight(q) ==
  /\ query[q].pc = "prepared" /\ Resolves(q)
  /\ Asks(q, [query[q] EXCEPT !.pc = "asking"])

\* The model cites what it likes, or fails and leaves no citation.
Generate(q) ==
  /\ query[q].pc = "asking"
  /\ \E draft \in SUBSET Policies :
       Asks(q, [query[q] EXCEPT !.pc = "drafted", !.draft = draft])

Commits(q, status, cites) ==
  /\ query' = [query EXCEPT ![q].pc = "done"]
  /\ answer' = [answer EXCEPT ![q] =
       [status |-> status, index |-> ActiveIndex, cites |-> cites]]
  /\ QueryOnly

\* Faulty variant: the draft is adopted on the strength of the preflight.
CommitUnchecked(q) ==
  \/ /\ query[q].pc = "drafted"
     /\ IF query[q].draft # {} /\ query[q].draft \subseteq query[q].relevant
          THEN Commits(q, "answered", query[q].draft) ELSE Commits(q, "refused", {})
  \/ /\ query[q].pc = "prepared"
     /\ IF Resolves(q) THEN Commits(q, "answered", query[q].relevant)
                       ELSE Commits(q, "refused", {})

\* The last transaction: everything is resolved again.  A deterministic answer
\* cites all that is relevant, the model some of it.
Commit(q) ==
  \/ /\ query[q].pc = "drafted"
     /\ IF Resolves(q) /\ query[q].draft # {} /\ query[q].draft \subseteq query[q].relevant
          THEN Commits(q, "answered", query[q].draft) ELSE Commits(q, "refused", {})
  \/ /\ query[q].pc = "prepared"
     /\ IF Resolves(q) THEN Commits(q, "answered", query[q].relevant)
                       ELSE Commits(q, "refused", {})

-----------------------------------------------------------------------------
Init ==
  /\ policy = [p \in Policies |-> "draft"]
  /\ evidence = [p \in Policies |-> Policy!NoEvidence]
  /\ index = [i \in Indexes |-> [status |-> "absent", members |-> {}, filled |-> FALSE]]
  /\ dataset = [status |-> "draft", submitter |-> Nobody]
  /\ run = [i \in Indexes |-> "none"]
  /\ query = [q \in Queries |-> NewQuery]
  /\ answer = [q \in Queries |-> NoAnswer]

ManagePolicies ==
  \E p \in Policies, u \in Users :
    Submit(p, u) \/ Approve(p, u) \/ Publish(p, u) \/ RequestRevocation(p, u) \/ Revoke(p, u)
ManageIndexes ==
  \/ \E i \in Indexes :
       \/ Build(i) \/ BuildFills(i) \/ BuildEnds(i)
       \/ Activate(i) \/ Evaluate(i) \/ EvaluationEnds(i)
  \/ \E u \in Users : TransitionDataset(u)
Ask == \E q \in Queries : Prepare(q) \/ Preflight(q) \/ Generate(q) \/ Commit(q)

Next == ManagePolicies \/ ManageIndexes \/ Ask
Spec == Init /\ [][Next]_vars

-----------------------------------------------------------------------------
(***************************** Properties *********************************)

\* Every variable stays within the values its columns and records allow, and a
\* knowledge base never has two active indexes.
TypeOK ==
  /\ Cardinality(Active) <= 1
  /\ policy \in [Policies -> {"draft", "submitted", "business_approved", "published", "revoked"}]
  /\ evidence \in [Policies -> Policy!Evidence]
  /\ index \in [Indexes -> IndexRecord] /\ dataset \in DatasetRecord
  /\ run \in [Indexes -> {"none", "running", "passed", "failed"}]
  /\ query \in [Queries -> QueryRecord] /\ answer \in [Queries -> AnswerRecord]

\* CR-028: from its revocation on a policy is in no answer, not even of a
\* question that was prepared, or a draft that was written, before; and what
\* is answered comes from the active, formally evaluated index.
AnswersAreBacked ==
  [][\A q \in Queries : answer'[q] # answer[q] /\ answer'[q].status = "answered" =>
       /\ answer'[q].cites # {}
       /\ \E i \in Indexes :
            /\ i = answer'[q].index /\ index[i].status = "active" /\ run[i] = "passed"
            /\ \A p \in answer'[q].cites : p \in index[i].members /\ policy[p] = "published"]_vars

\* Nobody alone brings a policy before the users or takes it away, and no index
\* is trusted that one person vouches for: two persons submit and approve, the
\* one who publishes did not approve, the one who revokes did not ask for it.
FourEyes ==
  \A p \in Policies :
    /\ Live(p) \/ policy[p] = "revoked" => evidence[p].submitter # evidence[p].approver
    /\ policy[p] \in {"published", "revoked"} => evidence[p].publisher # evidence[p].approver
    /\ policy[p] = "revoked" => evidence[p].revoker # evidence[p].requester

\* Every write to a policy satisfies the triggers of migration 026.
ImplementsPolicyLifecycle == Policy!Spec

\* Every write to an index satisfies those of migration 019.
IndexLife ==
  INSTANCE IndexLifecycle WITH
    Indexes <- Indexes,
    status <- [i \in Indexes |-> index[i].status],
    complete <- {i \in Indexes : index[i].filled},
    passed <- {i \in Indexes : run[i] = "passed"}
ImplementsIndexLifecycles == IndexLife!Spec
=============================================================================
