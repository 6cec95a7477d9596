\* Two contracts or invoices, one number, two tax numbers, two suppliers.
CONSTANTS
  Sources = {s1, s2}
  Suppliers = {p1, p2}
  Numbers = {n}
  Taxes = {t1, t2}
  None = none
  MaxAttempts = 2
SPECIFICATION FairSpec
INVARIANTS
  TwinsAreSeen
  BoundToOwnTax
PROPERTIES
  DecidedAsRead
  ExtractionSettles
CHECK_DEADLOCK FALSE
