------------------------- MODULE BreakGlassLifecycle -------------------------
(***************************************************************************)
(* What the database promises about a temporary role whatever the service  *)
(* does: the triggers of migration 008 let a request move only along these *)
(* steps, and only together with the one user_roles row it is paired with. *)
(***************************************************************************)
CONSTANT Requests

VARIABLES
  status,     \* of each break_glass_requests row
  assignment  \* of the user_roles row paired with it

lvars == <<status, assignment>>

Statuses == {"absent", "pending", "approved", "rejected", "revoked", "expired"}

Moves(r, from, to) ==
  /\ status[r] = from
  /\ status' = [status EXCEPT ![r] = to]
Alone == UNCHANGED assignment

Request(r) == Moves(r, "absent", "pending") /\ Alone

Approved(r) ==
  /\ Moves(r, "pending", "approved")
  /\ assignment[r] = "none"
  /\ assignment' = [assignment EXCEPT ![r] = "given"]

Rejected(r) == Moves(r, "pending", "rejected") /\ Alone

Revoked(r) ==
  /\ Moves(r, "approved", "revoked")
  /\ assignment[r] = "given"
  /\ assignment' = [assignment EXCEPT ![r] = "revoked"]

\* Provided for by the trigger; no code of the repository takes this step.
Expired(r) == Moves(r, "approved", "expired") /\ Alone

Init ==
  /\ status = [r \in Requests |-> "absent"]
  /\ assignment = [r \in Requests |-> "none"]
Next ==
  \E r \in Requests : Request(r) \/ Approved(r) \/ Rejected(r) \/ Revoked(r) \/ Expired(r)
Spec == Init /\ [][Next]_lvars

\* The deferred trigger enforce_break_glass_role_consistency_v1: request and
\* assignment agree whenever a transaction commits.
Consistent ==
  \A r \in Requests :
    CASE status[r] \in {"absent", "pending", "rejected"} -> assignment[r] = "none"
      [] status[r] \in {"approved", "expired"}           -> assignment[r] = "given"
      [] status[r] = "revoked"                           -> assignment[r] = "revoked"
=============================================================================
