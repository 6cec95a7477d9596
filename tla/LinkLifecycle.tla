---------------------------- MODULE LinkLifecycle ----------------------------
(***************************************************************************)
(* What the database admits of the relations between contracts and         *)
(* invoices: the trigger enforce_contract_invoice_history_v1 and the two   *)
(* partial unique indexes of contract_invoices (migrations 015 and 009).   *)
(* A row is never deleted; what is cancelled stays so.                     *)
(***************************************************************************)
CONSTANTS
  Links,       \* the rows of contract_invoices
  Contracts,   \* the contracts they may name
  Invoices     \* the invoices they may name

VARIABLE link   \* [status, contract, invoice] of each row

Absent(l) == link[l].status = "absent"
Open(l)   == link[l].status \in {"candidate", "suggested", "confirmed_primary"}

\* The statuses that may follow a status.
Follows(status) ==
  CASE status = "candidate"         -> {"suggested", "cancelled"}
    [] status = "suggested"         -> {"confirmed_primary", "cancelled"}
    [] status = "confirmed_primary" -> {"cancelled"}
    [] OTHER                        -> {}

\* uq_contract_invoice_pair_active, uq_invoice_confirmed_primary_contract.
Indexes ==
  \A k, l \in Links : k # l /\ ~Absent(k) /\ link[k].invoice = link[l].invoice =>
    /\ ~(Open(k) /\ Open(l) /\ link[k].contract = link[l].contract)
    /\ ~(link[k].status = "confirmed_primary" /\ link[l].status = "confirmed_primary")

Inserted(l) ==
  /\ Absent(l)
  /\ link'[l].status \in {"candidate", "suggested"}
  /\ link'[l].contract \in Contracts /\ link'[l].invoice \in Invoices

Updated(l) ==
  /\ link'[l].status \in Follows(link[l].status)
  /\ link'[l].contract = link[l].contract /\ link'[l].invoice = link[l].invoice

Init == Indexes /\ \A l \in Links : Absent(l)

\* A transaction writes any number of rows.
Next ==
  /\ \A l \in Links : link'[l] = link[l] \/ Inserted(l) \/ Updated(l)
  /\ Indexes'

Spec == Init /\ [][Next]_link
=============================================================================
