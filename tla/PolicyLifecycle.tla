-------------------------- MODULE PolicyLifecycle --------------------------
(***************************************************************************)
(* What the database promises about policy documents whatever the service  *)
(* does: the triggers of migration 026 on policy_documents and on their    *)
(* append-only policy_approval_records.                                    *)
(***************************************************************************)
CONSTANTS Policies, Users, Nobody

VARIABLES
  status,     \* of each policy_documents row
  evidence    \* who stands behind it: columns of the row, and the actors of
              \* the records revoke_request and revoke

lvars == <<status, evidence>>

Evidence == [submitter : Users \cup {Nobody}, approver : Users \cup {Nobody},
             publisher : Users \cup {Nobody}, requester : Users \cup {Nobody},
             revoker : Users \cup {Nobody}]
NoEvidence == [submitter |-> Nobody, approver |-> Nobody, publisher |-> Nobody,
               requester |-> Nobody, revoker |-> Nobody]

\* Each step of a row names its person, and keeps the persons before it.
Moves(p, from, to) ==
  /\ status[p] = from
  /\ status' = [status EXCEPT ![p] = to]

Submitted(p, u) ==
  Moves(p, "draft", "submitted") /\ evidence' = [evidence EXCEPT ![p].submitter = u]
Approved(p, u) ==
  Moves(p, "submitted", "business_approved") /\ evidence' = [evidence EXCEPT ![p].approver = u]
Published(p, u) ==
  Moves(p, "business_approved", "published") /\ evidence' = [evidence EXCEPT ![p].publisher = u]
RevocationRequested(p, u) ==
  /\ status[p] = "published" /\ evidence[p].requester = Nobody
  /\ evidence' = [evidence EXCEPT ![p].requester = u]
  /\ UNCHANGED status
Revoked(p, u) ==
  /\ Moves(p, "published", "revoked")
  /\ evidence[p].requester \notin {Nobody, u}
  /\ evidence' = [evidence EXCEPT ![p].revoker = u]

Init ==
  /\ status = [p \in Policies |-> "draft"]
  /\ evidence = [p \in Policies |-> NoEvidence]
Next ==
  \E p \in Policies, u \in Users :
    Submitted(p, u) \/ Approved(p, u) \/ Published(p, u) \/ RevocationRequested(p, u)
      \/ Revoked(p, u)
Spec == Init /\ [][Next]_lvars
=============================================================================
