\* Two agreements of one contract, on one date or on two, before or on a baseline
\* date; one invoice, which two contracts compete for.
CONSTANTS
  Agreements = {a1, a2}
  Invoices = {i1}
  Contracts = {c1, c2}
  TheContract = c1
  Links = {l1, l2}
  Dates = {2, 3}
  Payloads <- MCPayloads
  Original <- MCOriginal
  Start = 1
  InvoiceDate = 2
  Null = null
SPECIFICATION AuditedSpec
INVARIANTS
  SnapshotsHold
  VerdictsHold
PROPERTIES
  ImplementsLinkLifecycle
SYMMETRY Symmetry
