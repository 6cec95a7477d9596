--------------------------- MODULE MCAuditedFacts ---------------------------
(***************************************************************************)
(* An instance of AuditedFacts for TLC: a contract of amount 1 in effect   *)
(* since date 1, with no expiry date; agreements take the amount away,     *)
(* raise it and end the contract before the invoice, or before its start.  *)
(***************************************************************************)
EXTENDS AuditedFacts

MCOriginal == [amount |-> 1, expiry |-> Null]
MCPayloads == {[amount |-> 0], [amount |-> 2, expiry |-> 1], [expiry |-> 0]}
Symmetry   ==
  Permutations(Agreements) \cup Permutations(Links) \cup Permutations(Invoices)
=============================================================================
