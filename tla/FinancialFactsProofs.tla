------------------------ MODULE FinancialFactsProofs ------------------------
(***************************************************************************)
(* Part 1, about FinancialFacts: duplicates, suppliers and repeated        *)
(* requests, for any sources, numbers, tax numbers, suppliers and attempts.*)
(* Part 2, about AuditedFacts: what an execution has frozen and the        *)
(* verdicts it drew stay true, and the relations of invoices to contracts  *)
(* are those the database admits, for any agreements, payloads, invoices,  *)
(* contracts and dates.                                                    *)
(***************************************************************************)
EXTENDS FinancialFacts, AuditedFacts, FiniteSetTheorems, TLAPS

USE FinancialAssumption

RowTypes == kind \in {"contract", "invoice"} /\ row \in [Sources -> Row]
SupplierTypes == supplier \in [Suppliers -> Supplier]

\* A source has a row once its extraction succeeded, and nothing before; the
\* message for a job finds it before its first attempt; a candidate knows its source.
RowsExtracted ==
  \A s \in Sources : IF job[s].status = "succeeded" THEN Exists(s) ELSE row[s] = NoRow
QueuedIsFresh ==
  \A s \in Sources : s \in asked => job[s].status = "queued" /\ job[s].attempt = 0
CandidatesHaveSource ==
  \A p \in Suppliers : supplier[p].status = "candidate" => supplier[p].source \in Sources

\* TwinsAreSeen, said of each pair of sources.
SameIdentity(s, t) ==
  /\ Exists(t) /\ row[s].number # None /\ row[t].number = row[s].number
  /\ kind = "invoice" => row[s].tax # None /\ row[t].tax = row[s].tax
PairsAreSeen ==
  \A s, t \in Sources :
    s # t /\ SameIdentity(s, t) =>
      kind = "invoice" /\ ~(row[s].duplicate = "unique" /\ row[t].duplicate = "unique")

\* BoundToOwnTax, without cardinalities.
OneActive ==
  \A p, q \in Suppliers :
    /\ supplier[p].status = "active" /\ supplier[q].status = "active"
    /\ supplier[p].tax = supplier[q].tax
    => p = q
BoundRows ==
  \A s \in Sources : row[s].supplier # None =>
    /\ row[s].decision = "confirmed"
    /\ row[s].supplier \in Suppliers
    /\ supplier[row[s].supplier].status = "active"
    /\ supplier[row[s].supplier].tax = row[s].tax

\* What the client has read is still the row, unless it is known to be stale; a
\* confirmation makes it so, for ever.
ClientKnows ==
  /\ client \in Client
  /\ client.pc \in {"read", "unsure"} => client.source \in Sources
  /\ client.pc \in {"read", "unsure"} /\ ~client.stale => row[client.source] = client.seen
  /\ client.effects # 0 => client.stale

\* The inductive invariant.
FactsInv ==
  /\ RowTypes /\ SupplierTypes /\ job \in [Sources -> Job]
  /\ RowsExtracted /\ QueuedIsFresh /\ CandidatesHaveSource
  /\ PairsAreSeen /\ OneActive /\ BoundRows
  /\ ClientKnows

-----------------------------------------------------------------------------
(**************************** The write of a row **************************)

\* What a row may be written as, beside the rows that there are.
Fits(s, r) ==
  /\ r.decision # "absent"
  /\ \A t \in Twins(s, r) :
       kind = "invoice" /\ ~(r.duplicate = "unique" /\ row[t].duplicate = "unique")

\* A row that fits leaves every pair of sources seen.
LEMMA PairsKept ==
  ASSUME RowTypes, PairsAreSeen, RowsExtracted, UNCHANGED kind,
         NEW s \in Sources, NEW r \in Row, Sets(s, r), Fits(s, r)
  PROVE  PairsAreSeen'
<1> SUFFICES ASSUME NEW u \in Sources, NEW t \in Sources, u # t, SameIdentity(u, t)'
             PROVE  /\ kind = "invoice"
                    /\ ~(row'[u].duplicate = "unique" /\ row'[t].duplicate = "unique")
  BY DEF PairsAreSeen
<1>1. \A v \in Sources : row'[v] = IF v = s THEN r ELSE row[v]
  BY DEF Sets, RowTypes
<1>2. \A v \in Sources : row[v].number # None => Exists(v)
  BY DEF RowsExtracted, NoRow, Exists
<1>3. CASE u = s
  <2>1. t \in Twins(s, r)
    BY <1>1, <1>3 DEF SameIdentity, Exists, Twins
  <2>2. QED
    BY <1>1, <1>3, <2>1 DEF Fits
<1>4. CASE t = s
  <2>1. u \in Twins(s, r)
    BY <1>1, <1>2, <1>4 DEF SameIdentity, Exists, Twins
  <2>2. QED
    BY <1>1, <1>4, <2>1 DEF Fits
<1>5. CASE u # s /\ t # s
  BY <1>1, <1>5 DEF SameIdentity, Exists, PairsAreSeen
<1>6. QED
  BY <1>3, <1>4, <1>5

\* A row whose identity and duplicate status stay fits.
LEMMA SameFactsFit ==
  ASSUME RowTypes, PairsAreSeen, NEW s \in Sources, NEW r \in Row,
         r.number = row[s].number, r.tax = row[s].tax, r.duplicate = row[s].duplicate,
         r.decision # "absent"
  PROVE  Fits(s, r)
BY DEF Fits, Twins, PairsAreSeen, SameIdentity

\* _derived_duplicate_status makes an invoice fit, and the check of its number a
\* contract.
LEMMA CheckedFits ==
  ASSUME NEW s \in Sources, NEW r \in Row, r.decision # "absent", kind \in {"contract", "invoice"},
         kind = "contract" => Twins(s, r) = {}
  PROVE  Checked(s, r) \in Row /\ Fits(s, Checked(s, r))
<1>1. Derived(s, r) \in {"not_checked", "unique", "suspected"}
  BY DEF Derived
<1>2. /\ Checked(s, r) \in Row
      /\ Checked(s, r).number = r.number /\ Checked(s, r).tax = r.tax
      /\ Checked(s, r).decision = r.decision /\ Checked(s, r).duplicate = Derived(s, r)
      /\ Checked(s, r).supplier = r.supplier
  BY <1>1 DEF Checked, Row
<1>3. Twins(s, Checked(s, r)) = Twins(s, r)
  BY <1>2 DEF Twins
<1>4. ASSUME NEW t \in Twins(s, r), kind = "invoice"
      PROVE  Derived(s, r) = "suspected"
  BY <1>4 DEF Derived, Twins
<1>5. QED
  BY <1>2, <1>3, <1>4 DEF Fits

\* Whoever writes a row, a client that has read it is stale from then on.
LEMMA ClientKept ==
  ASSUME RowTypes, ClientKnows, NEW s \in Sources, NEW r, Writes(s, r)
  PROVE  ClientKnows'
<1>1. /\ client' \in Client
      /\ client'.pc = client.pc /\ client'.source = client.source
      /\ client'.seen = client.seen /\ client'.effects = client.effects
      /\ client'.stale = (client.stale \/ s = client.source)
  BY DEF Writes, ClientKnows, Client
<1>2. \A v \in Sources \ {s} : row'[v] = row[v]
  BY DEF Writes, Sets, RowTypes
<1>3. QED
  BY <1>1, <1>2 DEF ClientKnows

\* What a write of a row must respect beside its pairs: the supplier that it
\* names is the active one of its tax number, and it is confirmed.
BindingFits(r) ==
  r.supplier # None =>
    /\ r.decision = "confirmed" /\ r.supplier \in Suppliers
    /\ supplier'[r.supplier].status = "active" /\ supplier'[r.supplier].tax = r.tax

LEMMA BindingsKept ==
  ASSUME RowTypes, BoundRows, NEW s \in Sources, NEW r \in Row, Sets(s, r), BindingFits(r),
         \A p \in Suppliers : supplier[p].status = "active" => supplier'[p] = supplier[p]
  PROVE  BoundRows'
<1>1. \A v \in Sources : row'[v] = IF v = s THEN r ELSE row[v]
  BY DEF Sets, RowTypes
<1>2. QED
  BY <1>1 DEF BoundRows, BindingFits

\* All that the write of an existing row keeps, when suppliers and jobs stay.
LEMMA WriteKeepsFacts ==
  ASSUME FactsInv, NEW s \in Sources, NEW r \in Row, Writes(s, r), Fits(s, r), BindingFits(r),
         Exists(s), UNCHANGED <<kind, supplier, runs>>
  PROVE  FactsInv'
<1> USE DEF FactsInv
<1>1. RowTypes' /\ SupplierTypes' /\ (job \in [Sources -> Job])'
  BY DEF Writes, Sets, RowTypes, SupplierTypes, runs
<1>2. RowsExtracted'
  <2>1. \A v \in Sources : row'[v] = IF v = s THEN r ELSE row[v]
    BY DEF Writes, Sets, RowTypes
  <2>2. job[s].status = "succeeded"
    BY DEF RowsExtracted, Exists, NoRow
  <2>3. QED
    BY <2>1, <2>2 DEF RowsExtracted, Exists, Fits, runs
<1>3. QueuedIsFresh' /\ CandidatesHaveSource' /\ OneActive'
  BY DEF QueuedIsFresh, CandidatesHaveSource, OneActive, runs
<1>4. PairsAreSeen'
  BY PairsKept DEF Writes
<1>5. BoundRows'
  BY BindingsKept DEF Writes
<1>6. ClientKnows'
  BY ClientKept
<1>7. QED
  BY <1>1, <1>2, <1>3, <1>4, <1>5, <1>6

-----------------------------------------------------------------------------
(****************************** Extraction ********************************)

\* The parts of the invariant that speak of facts only are kept with them.
LEMMA FactsAlone ==
  ASSUME FactsInv, UNCHANGED <<kind, row, supplier>>,
         (job \in [Sources -> Job])', RowsExtracted', QueuedIsFresh', ClientKnows'
  PROVE  FactsInv'
BY DEF FactsInv, RowTypes, SupplierTypes, CandidatesHaveSource, PairsAreSeen, SameIdentity,
       Exists, OneActive, BoundRows

\* A client that nobody writes for, beside rows that nobody writes, knows what it knew.
LEMMA ClientAlone == ASSUME ClientKnows, UNCHANGED <<row, client>> PROVE ClientKnows'
BY DEF ClientKnows

\* A job that does not succeed writes no row.
LEMMA JobStep ==
  ASSUME FactsInv, NEW s \in Sources,
         \/ ClaimExtraction(s) \/ FailExtraction(s) \/ RecoverExtraction(s) \/ LosesParse(s)
  PROVE  FactsInv'
<1> USE DEF FactsInv
<1>1. /\ UNCHANGED <<kind, row, supplier, client>>
      /\ (job \in [Sources -> Job])'
      /\ \A v \in Sources : job'[v].status = "succeeded" <=> job[v].status = "succeeded"
      /\ QueuedIsFresh'
  <2>1. CASE ClaimExtraction(s)
    BY <2>1 DEF ClaimExtraction, JobStarts, Job, QueuedIsFresh
  <2>2. CASE FailExtraction(s)
    BY <2>2 DEF FailExtraction, JobEnds, Job, QueuedIsFresh
  <2>3. CASE RecoverExtraction(s)
    BY <2>3 DEF RecoverExtraction, JobStarts, JobEnds, Job, QueuedIsFresh
  <2>4. CASE LosesParse(s)
    BY <2>4 DEF LosesParse, QueuedIsFresh
  <2>5. QED
    BY <2>1, <2>2, <2>3, <2>4
<1>2. RowsExtracted'
  BY <1>1 DEF RowsExtracted, Exists
<1>3. QED
  BY <1>1, <1>2, ClientAlone, FactsAlone

\* _execute_transaction: the first row of a source, without a supplier.
LEMMA PersistStep ==
  ASSUME FactsInv, NEW s \in Sources, Persist(s)
  PROVE  FactsInv'
<1> USE DEF FactsInv
<1>1. PICK n \in Numbers \cup {None}, t \in Taxes \cup {None} : Writes(s, Stored(s, n, t))
  BY DEF Persist
<1> DEFINE found == [NoRow EXCEPT !.decision = "unconfirmed", !.number = n, !.tax = t]
           r == Stored(s, n, t)
<1>2. /\ found \in Row /\ found.decision = "unconfirmed" /\ found.supplier = None
      /\ [found EXCEPT !.number = None] \in Row
      /\ Twins(s, [found EXCEPT !.number = None]) = {}
  BY DEF NoRow, Row, Twins
<1>3. r \in Row /\ Fits(s, r) /\ r.supplier = None
  <2>1. CASE kind = "contract" /\ Twins(s, found) # {}
    BY <1>2, <2>1 DEF Stored, Fits
  <2>2. CASE ~(kind = "contract" /\ Twins(s, found) # {})
    <3>1. r = Checked(s, found)
      BY <2>2 DEF Stored
    <3>2. Checked(s, found) \in Row /\ Fits(s, Checked(s, found))
      BY <1>2, <2>2, CheckedFits DEF RowTypes
    <3>3. Checked(s, found).supplier = None
      BY <1>2 DEF Checked, Row
    <3>4. QED
      BY <3>1, <3>2, <3>3
  <2>3. QED
    BY <2>1, <2>2
<1> HIDE DEF found, r
<1>4. Writes(s, r) /\ UNCHANGED <<kind, supplier>> /\ JobEnds(s, "succeeded")
  BY <1>1 DEF Persist, r
<1>5. RowTypes' /\ SupplierTypes' /\ (job \in [Sources -> Job])'
  BY <1>3, <1>4 DEF Writes, Sets, RowTypes, SupplierTypes, JobEnds, Job
<1>6. RowsExtracted'
  <2>1. \A v \in Sources : row'[v] = IF v = s THEN r ELSE row[v]
    BY <1>4 DEF Writes, Sets, RowTypes
  <2>2. \A v \in Sources :
          job'[v].status = IF v = s THEN "succeeded" ELSE job[v].status
    BY <1>4 DEF JobEnds, Job
  <2>3. QED
    BY <1>3, <2>1, <2>2 DEF RowsExtracted, Exists, Fits
<1>7. QueuedIsFresh' /\ CandidatesHaveSource' /\ OneActive'
  BY <1>4 DEF Persist, JobEnds, QueuedIsFresh, CandidatesHaveSource, OneActive
<1>8. PairsAreSeen'
  BY <1>3, <1>4, PairsKept DEF Writes
<1>9. BoundRows'
  BY <1>3, <1>4, BindingsKept DEF Writes, BindingFits
<1>10. ClientKnows'
  BY <1>4, ClientKept
<1>11. QED
  BY <1>5, <1>6, <1>7, <1>8, <1>9, <1>10

-----------------------------------------------------------------------------
(************************** Facts and decisions ***************************)

\* A correction checks the duplicates anew, and only meets unbound sources.
LEMMA ReplaceFactsStep ==
  ASSUME FactsInv, NEW s \in Sources, ReplaceFacts(s)
  PROVE  FactsInv'
<1> USE DEF FactsInv
<1>1. PICK n \in Numbers \cup {None}, t \in Taxes \cup {None} :
        /\ kind = "contract" => Twins(s, Corrected(s, n, t)) = {}
        /\ Writes(s, Checked(s, Corrected(s, n, t)))
  BY DEF ReplaceFacts
<1> DEFINE r == Corrected(s, n, t)
<1>2. r \in Row /\ r.decision = "unconfirmed" /\ r.supplier = row[s].supplier
  <2>1. row[s] \in Row
    BY DEF RowTypes
  <2>2. QED
    BY ONLY <2>1, n \in Numbers \cup {None}, t \in Taxes \cup {None} DEF Corrected, Row
<1>3. row[s].supplier = None /\ Exists(s)
  <2>1. Correctable(s)
    BY DEF ReplaceFacts
  <2>2. QED
    BY <2>1 DEF Correctable, BoundRows
<1> HIDE DEF r
<1>4. Checked(s, r) \in Row /\ Fits(s, Checked(s, r))
  BY <1>1, <1>2, CheckedFits DEF RowTypes, r
<1>5. BindingFits(Checked(s, r))
  BY <1>2, <1>3 DEF Checked, Row, BindingFits
<1>6. QED
  BY <1>1, <1>3, <1>4, <1>5, WriteKeepsFacts DEF ReplaceFacts, r

\* A decision leaves the identity alone, and only meets unbound sources.
LEMMA DecideStep ==
  ASSUME FactsInv, NEW s \in Sources, Decide(s)
  PROVE  FactsInv'
<1> USE DEF FactsInv
<1>1. PICK d \in {"confirmed", "rejected"} :
        Decidable(s, d) /\ Writes(s, [row[s] EXCEPT !.decision = d])
  BY DEF Decide
<1> DEFINE r == [row[s] EXCEPT !.decision = d]
<1>2. /\ r \in Row /\ r.decision = d /\ r.number = row[s].number /\ r.tax = row[s].tax
      /\ r.duplicate = row[s].duplicate /\ r.supplier = row[s].supplier
  BY DEF Row, RowTypes
<1>3. row[s].supplier = None /\ Exists(s)
  BY <1>1 DEF Decidable, BoundRows
<1> HIDE DEF r
<1>4. Fits(s, r) /\ BindingFits(r)
  BY <1>2, <1>3, SameFactsFit DEF BindingFits
<1>5. QED
  BY <1>1, <1>2, <1>3, <1>4, WriteKeepsFacts DEF Decide, r

\* A check derives the duplicate status from the rows of that moment.
LEMMA CheckDuplicateStep ==
  ASSUME FactsInv, NEW s \in Sources, CheckDuplicate(s)
  PROVE  FactsInv'
<1> USE DEF FactsInv
<1>1. /\ row[s] \in Row /\ Exists(s) /\ kind = "invoice" /\ Writes(s, Checked(s, row[s]))
      /\ UNCHANGED <<kind, supplier, runs>>
  BY DEF CheckDuplicate, RowTypes
<1>2. Checked(s, row[s]) \in Row /\ Fits(s, Checked(s, row[s]))
  BY <1>1, CheckedFits DEF Exists
<1>3. BindingFits(Checked(s, row[s]))
  BY <1>1 DEF Checked, Row, BindingFits, BoundRows
<1>4. QED
  BY <1>1, <1>2, <1>3, WriteKeepsFacts

\* A decided duplicate does not pass as unique.
LEMMA DecideDuplicateStep ==
  ASSUME FactsInv, NEW s \in Sources, DecideDuplicate(s)
  PROVE  FactsInv'
<1> USE DEF FactsInv
<1> DEFINE r == [row[s] EXCEPT !.duplicate = "decided"]
<1>1. /\ r \in Row /\ r.duplicate = "decided" /\ r.decision = row[s].decision
      /\ r.tax = row[s].tax /\ r.supplier = row[s].supplier
  BY DEF Row, RowTypes
<1>2. /\ Exists(s) /\ kind = "invoice" /\ Writes(s, r)
      /\ UNCHANGED <<kind, supplier, runs>>
  BY DEF DecideDuplicate
<1> HIDE DEF r
<1>3. Fits(s, r) /\ BindingFits(r)
  BY <1>1, <1>2 DEF Fits, Exists, BindingFits, BoundRows
<1>4. QED
  BY <1>1, <1>2, <1>3, WriteKeepsFacts

-----------------------------------------------------------------------------
(******************************* Suppliers ********************************)

\* A new or edited candidate, or a rejected one: no active supplier changes.
LEMMA CandidateWritten ==
  ASSUME FactsInv, NEW p \in Suppliers, NEW r \in Supplier, Becomes(p, r),
         supplier[p].status # "active", r.status # "active",
         r.status = "candidate" => r.source \in Sources,
         UNCHANGED <<kind, row, runs, client>>
  PROVE  FactsInv'
<1> USE DEF FactsInv
<1>1. \A q \in Suppliers : supplier'[q] = IF q = p THEN r ELSE supplier[q]
  BY DEF Becomes, SupplierTypes
<1>2. SupplierTypes' /\ CandidatesHaveSource'
  BY <1>1 DEF Becomes, SupplierTypes, CandidatesHaveSource
<1>3. OneActive'
  BY <1>1 DEF OneActive
<1>4. BoundRows'
  BY <1>1 DEF BoundRows
<1>5. RowTypes' /\ (job \in [Sources -> Job])' /\ RowsExtracted' /\ QueuedIsFresh' /\ PairsAreSeen'
  BY DEF RowTypes, RowsExtracted, QueuedIsFresh, PairsAreSeen, SameIdentity, Exists, runs
<1>6. ClientKnows'
  BY ClientAlone
<1>7. QED
  BY <1>2, <1>3, <1>4, <1>5, <1>6

\* A source whose facts are confirmed names a supplier.
LEMMA BindingWritten ==
  ASSUME FactsInv, NEW s \in Sources, NEW p \in Suppliers, Binds(s, p),
         row[s].decision = "confirmed", supplier'[p].status = "active",
         supplier'[p].tax = row[s].tax, UNCHANGED <<kind, runs>>,
         SupplierTypes', CandidatesHaveSource', OneActive',
         \A q \in Suppliers : supplier[q].status = "active" => supplier'[q] = supplier[q]
  PROVE  FactsInv'
<1> USE DEF FactsInv
<1> DEFINE r == [row[s] EXCEPT !.supplier = p]
<1>1. /\ r \in Row /\ r.decision = "confirmed" /\ r.number = row[s].number
      /\ r.tax = row[s].tax /\ r.duplicate = row[s].duplicate /\ r.supplier = p
  BY DEF Row, RowTypes
<1>2. Writes(s, r)
  BY DEF Binds
<1> HIDE DEF r
<1>3. Fits(s, r) /\ BindingFits(r)
  BY <1>1, SameFactsFit DEF BindingFits
<1>4. RowTypes' /\ (job \in [Sources -> Job])' /\ QueuedIsFresh'
  BY <1>1, <1>2 DEF Writes, Sets, RowTypes, QueuedIsFresh, runs
<1>5. RowsExtracted'
  <2>1. \A v \in Sources : row'[v] = IF v = s THEN r ELSE row[v]
    BY <1>2 DEF Writes, Sets, RowTypes
  <2>2. job[s].status = "succeeded"
    BY DEF RowsExtracted, NoRow
  <2>3. QED
    BY <1>1, <2>1, <2>2 DEF RowsExtracted, Exists, runs
<1>6. PairsAreSeen'
  BY <1>1, <1>2, <1>3, PairsKept DEF Writes
<1>7. BoundRows'
  BY <1>1, <1>2, <1>3, BindingsKept DEF Writes
<1>8. ClientKnows'
  BY <1>2, ClientKept
<1>9. QED
  BY <1>4, <1>5, <1>6, <1>7, <1>8

\* A confirmed source is bound to an active supplier, or gets a candidate.
LEMMA ResolveSourceStep ==
  ASSUME FactsInv, NEW s \in Sources, ResolveSource(s)
  PROVE  FactsInv'
<1> USE DEF FactsInv
<1>1. CASE \E p \in ActiveWith(row[s].tax) : Binds(s, p) /\ UNCHANGED supplier
  <2>1. PICK p \in ActiveWith(row[s].tax) : Binds(s, p) /\ UNCHANGED supplier
    BY <1>1
  <2>2. p \in Suppliers /\ supplier'[p].status = "active" /\ supplier'[p].tax = row[s].tax
    BY <2>1 DEF ActiveWith
  <2>3. SupplierTypes' /\ CandidatesHaveSource' /\ OneActive'
    BY <2>1 DEF SupplierTypes, CandidatesHaveSource, OneActive
  <2>4. row[s].decision = "confirmed" /\ UNCHANGED <<kind, runs>>
    BY DEF ResolveSource
  <2>5. QED
    BY <2>1, <2>2, <2>3, <2>4, BindingWritten
<1>2. CASE ~\E p \in ActiveWith(row[s].tax) : Binds(s, p) /\ UNCHANGED supplier
  <2>1. PICK p \in Suppliers :
          /\ supplier[p].status = "absent"
          /\ Becomes(p, [status |-> "candidate", tax |-> row[s].tax, source |-> s])
    BY <1>2 DEF ResolveSource
  <2>2. [status |-> "candidate", tax |-> row[s].tax, source |-> s] \in Supplier
    BY DEF Supplier, RowTypes, Row
  <2>3. UNCHANGED <<kind, row, runs, client>>
    BY <1>2 DEF ResolveSource
  <2>4. QED
    BY <2>1, <2>2, <2>3, CandidateWritten
<1>3. QED
  BY <1>1, <1>2

\* A candidate is edited or rejected; it stays a candidate of its source.
LEMMA EditCandidateStep ==
  ASSUME FactsInv, NEW p \in Suppliers, EditCandidate(p)
  PROVE  FactsInv'
<1> USE DEF FactsInv
<1>1. /\ supplier[p] \in Supplier /\ supplier[p].status = "candidate"
      /\ supplier[p].source \in Sources /\ UNCHANGED <<kind, row, runs, client>>
  BY DEF EditCandidate, SupplierTypes, CandidatesHaveSource
<1>2. CASE Becomes(p, NoSupplier)
  <2>1. NoSupplier \in Supplier /\ NoSupplier.status = "absent"
    BY DEF NoSupplier, Supplier
  <2>2. QED
    BY <1>1, <1>2, <2>1, CandidateWritten
<1>3. CASE \E t \in Taxes \ {supplier[p].tax} : Becomes(p, [supplier[p] EXCEPT !.tax = t])
  <2>1. PICK t \in Taxes : Becomes(p, [supplier[p] EXCEPT !.tax = t])
    BY <1>3
  <2>2. /\ [supplier[p] EXCEPT !.tax = t] \in Supplier
        /\ [supplier[p] EXCEPT !.tax = t].status = "candidate"
        /\ [supplier[p] EXCEPT !.tax = t].source \in Sources
    BY <1>1 DEF Supplier
  <2>3. QED
    BY <1>1, <2>1, <2>2, CandidateWritten
<1>4. QED
  BY <1>2, <1>3 DEF EditCandidate

\* The candidate gets active only where its source's tax number has no active
\* supplier yet.
LEMMA ConfirmCandidateStep ==
  ASSUME FactsInv, NEW p \in Suppliers, ConfirmCandidate(p)
  PROVE  FactsInv'
<1> USE DEF FactsInv
<1> DEFINE s == supplier[p].source
           others == ActiveWith(row[s].tax)
           active == [supplier[p] EXCEPT !.status = "active", !.tax = row[s].tax]
<1>1. /\ supplier[p].status = "candidate" /\ row[s].decision = "confirmed"
      /\ UNCHANGED <<kind, runs>>
      /\ IF others = {} THEN Becomes(p, active) /\ Binds(s, p)
         ELSE Becomes(p, NoSupplier) /\ \E q \in others : Binds(s, q)
  BY DEF ConfirmCandidate
<1>2. s \in Sources
  BY <1>1 DEF CandidatesHaveSource
<1>3. /\ active \in Supplier /\ active.status = "active" /\ active.tax = row[s].tax
      /\ NoSupplier \in Supplier /\ NoSupplier.status = "absent"
  BY <1>2 DEF SupplierTypes, Supplier, RowTypes, Row, NoSupplier
<1> HIDE DEF s, active
<1>4. CASE others = {}
  <2>1. \A q \in Suppliers : supplier'[q] = IF q = p THEN active ELSE supplier[q]
    BY <1>1, <1>4 DEF Becomes, SupplierTypes
  <2>2. SupplierTypes' /\ CandidatesHaveSource'
    BY <1>1, <1>3, <1>4, <2>1 DEF Becomes, SupplierTypes, CandidatesHaveSource
  <2>3. OneActive'
    BY <1>3, <1>4, <2>1 DEF OneActive, ActiveWith
  <2>4. QED
    BY <1>1, <1>2, <1>3, <1>4, <2>1, <2>2, <2>3, BindingWritten
<1>5. CASE others # {}
  <2>1. PICK q \in others : Binds(s, q)
    BY <1>1, <1>5
  <2>2. \A x \in Suppliers : supplier'[x] = IF x = p THEN NoSupplier ELSE supplier[x]
    BY <1>1, <1>5 DEF Becomes, SupplierTypes
  <2>3. /\ q \in Suppliers /\ supplier'[q].status = "active"
        /\ supplier'[q].tax = row[s].tax
    BY <1>1, <2>1, <2>2 DEF ActiveWith
  <2>4. SupplierTypes' /\ CandidatesHaveSource' /\ OneActive'
    BY <1>1, <1>3, <1>5, <2>2 DEF Becomes, SupplierTypes, CandidatesHaveSource, OneActive
  <2>5. QED
    BY <1>1, <1>2, <2>1, <2>2, <2>3, <2>4, BindingWritten
<1>6. QED
  BY <1>4, <1>5

-----------------------------------------------------------------------------
(***************************** The one client *****************************)

\* What the client remembers beside its row_version; nothing else changes.
LEMMA ClientWritten ==
  ASSUME FactsInv, UNCHANGED <<kind, row, supplier, runs>>, ClientKnows'
  PROVE  FactsInv'
BY FactsAlone DEF FactsInv, RowsExtracted, QueuedIsFresh, Exists, runs

\* What the client reads is the row.
LEMMA ReadStep ==
  ASSUME FactsInv, NEW s \in Sources, Read(s)
  PROVE  FactsInv'
<1>1. ClientKnows /\ row \in [Sources -> Row] /\ client.pc = "idle"
  BY DEF FactsInv, RowTypes, Read
<1>2. /\ client' = [client EXCEPT !.pc = "read", !.source = s, !.seen = row[s]]
      /\ UNCHANGED <<kind, row, supplier, runs>>
  BY DEF Read
<1>3. ClientKnows'
  BY <1>1, <1>2 DEF ClientKnows, Client
<1>4. QED
  BY <1>2, <1>3, ClientWritten

\* A reply, heard or lost, changes nothing the client knows.
LEMMA AnsweredKeeps ==
  ASSUME ClientKnows, NEW c \in Client, Answered(c), client.pc \in {"read", "unsure"},
         c.source = client.source, c.seen = client.seen, c.stale = client.stale,
         c.effects = client.effects, UNCHANGED row
  PROVE  ClientKnows'
BY DEF Answered, ClientKnows, Client

\* The one confirmation is of a row that is not stale, and makes it stale.
LEMMA ConfirmStep ==
  ASSUME FactsInv, Confirm
  PROVE  FactsInv'
<1> USE DEF FactsInv
<1> DEFINE s == client.source
           effect == ~client.key /\ ~client.stale /\ Decidable(s, "confirmed")
           r == [row[s] EXCEPT !.decision = "confirmed"]
           c == [client EXCEPT !.key = TRUE, !.stale = TRUE, !.effects = @ + 1]
<1>1. /\ client.pc \in {"read", "unsure"} /\ s \in Sources /\ client \in Client
      /\ UNCHANGED <<kind, supplier, runs>>
  BY DEF Confirm, ClientKnows
<1>2. CASE ~effect
  <2>1. Answered(client) /\ UNCHANGED row
    BY <1>2 DEF Confirm
  <2>2. ClientKnows'
    BY <1>1, <2>1, AnsweredKeeps
  <2>3. QED
    BY <1>1, <2>1, <2>2, ClientWritten
<1>3. CASE effect
  <2>1. Sets(s, r) /\ Answered(c)
    BY <1>3 DEF Confirm
  <2>2. /\ r \in Row /\ r.decision = "confirmed" /\ r.number = row[s].number
        /\ r.tax = row[s].tax /\ r.duplicate = row[s].duplicate
        /\ r.supplier = row[s].supplier
    BY <1>1 DEF Row, RowTypes
  <2>3. row[s].supplier = None /\ Exists(s)
    BY <1>1, <1>3 DEF Decidable, BoundRows
  <2> HIDE DEF r
  <2>4. Fits(s, r) /\ BindingFits(r)
    BY <1>1, <2>2, <2>3, SameFactsFit DEF BindingFits
  <2>5. client.effects = 0
    BY <1>3 DEF ClientKnows
  <2>6. c \in Client /\ c.stale /\ c.source = s
    <3>1. client.effects + 1 \in 0..2
      BY <2>5
    <3>2. QED
      BY ONLY <1>1, <3>1 DEF Client
  <2>7. ClientKnows'
    BY <1>1, <2>1, <2>6 DEF Answered, ClientKnows, Client
  <2>8. \A v \in Sources : row'[v] = IF v = s THEN r ELSE row[v]
    BY <2>1 DEF Sets, RowTypes
  <2>9. RowTypes' /\ SupplierTypes' /\ (job \in [Sources -> Job])'
    BY <1>1, <2>1, <2>2 DEF Sets, RowTypes, SupplierTypes, runs
  <2>10. RowsExtracted' /\ QueuedIsFresh' /\ CandidatesHaveSource' /\ OneActive'
    <3>1. job[s].status = "succeeded"
      BY <1>1, <2>3 DEF RowsExtracted, Exists, NoRow
    <3>2. QED
      BY <1>1, <2>2, <2>8, <3>1
         DEF RowsExtracted, Exists, QueuedIsFresh, CandidatesHaveSource, OneActive, runs
  <2>11. PairsAreSeen'
    BY <1>1, <2>1, <2>2, <2>4, PairsKept
  <2>12. BoundRows'
    BY <1>1, <2>1, <2>2, <2>4, BindingsKept
  <2>13. QED
    BY <2>7, <2>9, <2>10, <2>11, <2>12
<1>4. QED
  BY <1>2, <1>3

\* An expired key lets the request through again, but not its row_version.
LEMMA KeyExpiresStep == ASSUME FactsInv, KeyExpires PROVE FactsInv'
<1>1. /\ client' = [client EXCEPT !.key = FALSE]
      /\ UNCHANGED <<kind, row, supplier, runs>>
  BY DEF KeyExpires
<1>2. ClientKnows'
  BY <1>1 DEF FactsInv, ClientKnows, Client
<1>3. QED
  BY <1>1, <1>2, ClientWritten

-----------------------------------------------------------------------------
(******************************* Theorems *********************************)

\* Nothing is extracted, named or read at first.
LEMMA InitFacts == Init => FactsInv
<1> SUFFICES ASSUME Init PROVE FactsInv
  OBVIOUS
<1> USE DEF Init
<1>1. NoRow \in Row /\ NoSupplier \in Supplier
  BY DEF NoRow, Row, NoSupplier, Supplier
<1>2. RowTypes /\ SupplierTypes
  BY <1>1 DEF RowTypes, SupplierTypes
<1>3. (job \in [Sources -> Job]) /\ RowsExtracted /\ QueuedIsFresh
  BY DEF Job, RowsExtracted, QueuedIsFresh
<1>4. CandidatesHaveSource /\ OneActive /\ BoundRows /\ PairsAreSeen
  BY DEF CandidatesHaveSource, OneActive, BoundRows, PairsAreSeen, SameIdentity, NoRow, NoSupplier
<1>5. ClientKnows
  BY <1>1 DEF ClientKnows, Client
<1>6. QED
  BY <1>2, <1>3, <1>4, <1>5 DEF FactsInv

\* Every step of extraction, users and client keeps the invariant.
LEMMA FactsStep == FactsInv /\ [Next]_vars => FactsInv'
<1> SUFFICES ASSUME FactsInv, [Next]_vars PROVE FactsInv'
  OBVIOUS
<1>1. CASE Users
  BY <1>1, ReplaceFactsStep, DecideStep, CheckDuplicateStep, DecideDuplicateStep,
     ResolveSourceStep, EditCandidateStep, ConfirmCandidateStep
     DEF Users
<1>2. CASE Requests
  BY <1>2, ConfirmStep, KeyExpiresStep, ReadStep DEF Requests
<1>3. ASSUME NEW s \in Sources, Extraction(s)
      PROVE  FactsInv'
  BY <1>3, JobStep, PersistStep DEF Extraction
<1>4. CASE UNCHANGED vars
  <2>1. UNCHANGED <<kind, row, supplier, runs, client>>
    BY <1>4 DEF vars
  <2>2. ClientKnows'
    BY <2>1, ClientAlone DEF FactsInv
  <2>3. QED
    BY <2>1, <2>2, ClientWritten
<1>5. QED
  BY <1>1, <1>2, <1>3, <1>4 DEF Next

\* The inductive invariant holds for any values of the constants.
THEOREM FactsCorrect == Spec => []FactsInv
BY InitFacts, FactsStep, PTL DEF Spec

\* For any invoices, numbers and suppliers: of two invoices with one identity at
\* most one passes as unique, and contracts never share a number, whatever the
\* order of extractions, corrections, checks and decisions.
THEOREM TwinsSeen == Spec => []TwinsAreSeen
<1>1. FactsInv => TwinsAreSeen
  BY DEF FactsInv, PairsAreSeen, SameIdentity, TwinsAreSeen, Twins
<1>2. QED
  BY <1>1, FactsCorrect, PTL

\* However many candidates the sources of one tax number had, and however they
\* were edited, the number has one active supplier, and what is bound is bound
\* to that of its own number.
THEOREM BoundToOwnSupplier == Spec => []BoundToOwnTax
<1>1. ASSUME FactsInv, NEW t \in Taxes
      PROVE  Cardinality(ActiveWith(t)) <= 1
  <2>1. CASE ActiveWith(t) = {}
    BY <2>1, FS_EmptySet
  <2>2. CASE ActiveWith(t) # {}
    <3>1. PICK p \in ActiveWith(t) : TRUE
      BY <2>2
    <3>2. ActiveWith(t) = {p}
      BY <1>1, <3>1 DEF FactsInv, OneActive, ActiveWith
    <3>3. QED
      BY <3>2, FS_Singleton
  <2>3. QED
    BY <2>1, <2>2
<1>2. FactsInv => \A s \in Sources : row[s].supplier # None =>
        row[s].decision = "confirmed" /\ row[s].supplier \in ActiveWith(row[s].tax)
  BY DEF FactsInv, BoundRows, ActiveWith
<1>3. FactsInv => BoundToOwnTax
  BY <1>1, <1>2 DEF BoundToOwnTax
<1>4. QED
  BY <1>3, FactsCorrect, PTL

\* Whoever writes in between, and whenever the idempotency record expires, a
\* repeated request confirms once, and the facts that the client has read.
THEOREM ConfirmedAsRead == Spec => DecidedAsRead
<1>1. ASSUME FactsInv, [Next]_vars, client'.effects # client.effects
      PROVE  client.effects = 0 /\ row[client.source] = client.seen
  <2>1. ClientKnows /\ client \in Client
    BY <1>1 DEF FactsInv, ClientKnows
  <2>2. ASSUME NEW s, NEW r, Writes(s, r)
        PROVE  client'.effects = client.effects
    BY <2>1, <2>2 DEF Writes, Client
  <2>3. ~Users
    <3>1. ASSUME NEW s, \/ ReplaceFacts(s) \/ Decide(s) \/ CheckDuplicate(s)
                       \/ DecideDuplicate(s) \/ ResolveSource(s)
          PROVE  FALSE
      BY <1>1, <2>2, <3>1
         DEF ReplaceFacts, Decide, CheckDuplicate, DecideDuplicate, ResolveSource, Binds
    <3>2. ASSUME NEW p, EditCandidate(p) \/ ConfirmCandidate(p)
          PROVE  FALSE
      BY <1>1, <2>2, <3>2 DEF EditCandidate, ConfirmCandidate, Binds
    <3>3. QED
      BY <3>1, <3>2 DEF Users
  <2>4. ~\E s \in Sources : Extraction(s) \/ Read(s)
    <3>1. ASSUME NEW s, Persist(s)
          PROVE  FALSE
      BY <1>1, <2>2, <3>1 DEF Persist
    <3>2. ASSUME NEW s, \/ ClaimExtraction(s) \/ FailExtraction(s) \/ RecoverExtraction(s)
                       \/ LosesParse(s) \/ Read(s)
          PROVE  FALSE
      BY <1>1, <2>1, <3>2
         DEF ClaimExtraction, FailExtraction, RecoverExtraction, LosesParse, Read, Client
    <3>3. QED
      BY <3>1, <3>2 DEF Extraction
  <2>5. ~KeyExpires
    BY <1>1, <2>1 DEF KeyExpires, Client
  <2>6. Confirm
    BY <1>1, <2>3, <2>4, <2>5 DEF Next, Requests, vars
  <2>7. client.pc \in {"read", "unsure"} /\ ~client.stale
    BY <1>1, <2>1, <2>6 DEF Confirm, Answered, Client
  <2>8. QED
    BY <2>1, <2>7 DEF ClientKnows
<1>2. QED
  BY <1>1, FactsCorrect, PTL DEF Spec, DecidedAsRead

-----------------------------------------------------------------------------
(************** Part 2: agreements, links and executions ******************)

Agreement ==
  [date : Dates, status : {"draft", "pending_confirmation", "confirmed", "rejected"},
   changes : Payloads \cup {NoChanges}]
LinkRow ==
  [status : {"absent", "suggested", "confirmed_primary", "cancelled"},
   contract : Contracts \cup {Null}, invoice : Invoices \cup {Null}]

\* What the type invariant says of an execution.
ExecutionTyped ==
  execution.status \in ExecutionStatus /\ execution.baseline \in Dates \cup {0}

\* An execution is a record whose status can be set.
ExecutionShape ==
  DOMAIN execution = {"status", "baseline", "facts", "verdict", "primaries"}

\* Outdating, as every write of a fact calls it: what was not reached is as it was.
LEMMA OutdateKeeps ==
  ASSUME ExecutionTyped, ExecutionShape, NEW reached \in BOOLEAN, Outdate(reached)
  PROVE  /\ ExecutionTyped' /\ ExecutionShape'
         /\ Live' => Live /\ ~reached /\ execution' = execution
<1>1. CASE reached /\ execution.status \in EndedByFacts
  <2>1. execution' = Closed("outdated")
    BY <1>1 DEF Outdate
  <2>2. /\ execution'.status = "outdated" /\ execution'.baseline = execution.baseline
        /\ DOMAIN execution' = DOMAIN execution
    BY <2>1 DEF Closed, ExecutionShape
  <2> QED BY <2>2 DEF ExecutionTyped, ExecutionShape, ExecutionStatus, Live, EndedByFacts, Unfinished
<1>2. CASE ~(reached /\ execution.status \in EndedByFacts)
  <2>1. execution' = execution
    BY <1>2 DEF Outdate
  <2> QED BY <1>2, <2>1 DEF ExecutionTyped, ExecutionShape, Live
<1> QED BY <1>1, <1>2

-----------------------------------------------------------------------------
\* What AuditedTypeOK says, in the form the steps need.
AuditedTypes ==
  /\ agreement \in [Agreements -> Agreement]
  /\ link \in [Links -> LinkRow]
  /\ duplicate \in [Invoices -> DuplicateStatus]
  /\ twinned \subseteq Invoices
  /\ task \in [contract : BOOLEAN, invoices : (SUBSET Invoices) \ {{}}]
  /\ ExecutionTyped /\ ExecutionShape

\* Whichever write outdates, the execution keeps its type.
LEMMA OutdatesKeep ==
  ASSUME AuditedTypes,
         \/ \E i \in Invoices : OutdateOfInvoice(i)
         \/ \E a \in Agreements : OutdateFromDate(a)
  PROVE  ExecutionTyped' /\ ExecutionShape'
<1>1. ASSUME NEW i \in Invoices, OutdateOfInvoice(i) PROVE ExecutionTyped' /\ ExecutionShape'
  <2>1. (i \in task.invoices) \in BOOLEAN
    OBVIOUS
  <2> QED BY <1>1, <2>1, OutdateKeeps DEF OutdateOfInvoice, AuditedTypes
<1>2. ASSUME NEW a \in Agreements, OutdateFromDate(a) PROVE ExecutionTyped' /\ ExecutionShape'
  <2>1. (task.contract /\ execution.baseline >= agreement[a].date) \in BOOLEAN
    BY DEF AuditedTypes
  <2> QED BY <1>2, <2>1, OutdateKeeps DEF OutdateFromDate, AuditedTypes
<1> QED BY <1>1, <1>2

\* Every write of agreements, links, duplicates and executions keeps the types.
LEMMA AuditedTypesInductive ==
  AuditedTypes /\ [AuditedNext]_afvars => AuditedTypes'
<1> SUFFICES ASSUME AuditedTypes, [AuditedNext]_afvars PROVE AuditedTypes'
  OBVIOUS
<1> USE DEF AuditedTypes
<1>1. ASSUME NEW a \in Agreements, ReplaceChanges(a) PROVE AuditedTypes'
  <2>1. PICK p \in Payloads : agreement' =
          [agreement EXCEPT ![a] =
            [date |-> @.date, status |-> "pending_confirmation", changes |-> p]]
    BY <1>1 DEF ReplaceChanges
  <2>2. agreement[a] \in Agreement
    OBVIOUS
  <2>4. [date |-> agreement[a].date, status |-> "pending_confirmation", changes |-> p]
          \in Agreement
    BY <2>2 DEF Agreement
  <2>5. agreement' \in [Agreements -> Agreement]
    BY <2>1, <2>4
  <2> QED BY <1>1, <2>5, OutdatesKeep DEF ReplaceChanges
<1>2. ASSUME NEW a \in Agreements, DecideAgreement(a) PROVE AuditedTypes'
  <2>1. agreement' \in [Agreements -> Agreement]
    BY <1>2 DEF DecideAgreement, Agreement
  <2> QED BY <1>2, <2>1, OutdatesKeep DEF DecideAgreement
<1>3. ASSUME NEW l \in Links, SetPrimary(l) PROVE AuditedTypes'
  <2>1. link' \in [Links -> LinkRow]
    BY <1>3 DEF SetPrimary, LinkRow
  <2>2. (link[l].invoice \in task.invoices) \in BOOLEAN
    OBVIOUS
  <2> QED BY <1>3, <2>1, <2>2, OutdateKeeps DEF SetPrimary, OutdateOfInvoice
<1>4. ASSUME NEW l \in Links, CancelPrimary(l) PROVE AuditedTypes'
  <2>1. link' \in [Links -> LinkRow]
    BY <1>4 DEF CancelPrimary, LinkRow
  <2>2. (link[l].invoice \in task.invoices) \in BOOLEAN
    OBVIOUS
  <2> QED BY <1>4, <2>1, <2>2, OutdateKeeps DEF CancelPrimary, OutdateOfInvoice
<1>5. ASSUME NEW l \in Links, NEW c \in Contracts, NEW i \in Invoices, Suggest(l, c, i)
      PROVE  AuditedTypes'
  <2>1. link' \in [Links -> LinkRow]
    BY <1>5 DEF Suggest, LinkRow
  <2> QED BY <1>5, <2>1 DEF Suggest, ExecutionTyped, ExecutionShape
<1>6. ASSUME NEW i \in Invoices, RecheckDuplicate(i) \/ SettleDuplicate(i) PROVE AuditedTypes'
  <2>1. PICK s \in DuplicateStatus : Marks(i, s)
    BY <1>6 DEF RecheckDuplicate, SettleDuplicate, DuplicateStatus
  <2> QED BY <2>1, OutdatesKeep DEF Marks
<1>7. ASSUME NEW i \in Invoices, TwinChanges(i) PROVE AuditedTypes'
  BY <1>7 DEF TwinChanges, ExecutionTyped, ExecutionShape
<1>8. CASE Evaluate
  <2>1. /\ execution'.status \in {"failed", "pending_review"}
        /\ execution'.baseline = execution.baseline /\ DOMAIN execution' = DOMAIN execution
    BY <1>8 DEF Evaluate, ExecutionShape
  <2> QED BY <1>8, <2>1 DEF Evaluate, ExecutionTyped, ExecutionShape, ExecutionStatus
<1>9. CASE EndExecution
  <2>1. /\ execution'.status \in {"completed", "returned_for_correction", "cancelled"}
        /\ execution'.baseline = execution.baseline /\ DOMAIN execution' = DOMAIN execution
    BY <1>9 DEF EndExecution, Closed, ExecutionShape
  <2> QED BY <1>9, <2>1 DEF EndExecution, ExecutionTyped, ExecutionShape, ExecutionStatus
<1>10. ASSUME NEW d \in Dates, CreateExecution(d) PROVE AuditedTypes'
  BY <1>10 DEF CreateExecution, ExecutionTyped, ExecutionShape, ExecutionStatus
<1>11. CASE UNCHANGED afvars
  BY <1>11 DEF afvars, ExecutionTyped, ExecutionShape
<1> QED
  BY <1>1, <1>2, <1>3, <1>4, <1>5, <1>6, <1>7, <1>8, <1>9, <1>10, <1>11
  DEF AuditedNext, FactsChange

-----------------------------------------------------------------------------
\* A projection to a date before an agreement does not read it: replace_changes
\* and decide keep its date.
LEMMA RowsKept ==
  ASSUME AuditedTypes, NEW a \in Agreements, NEW d \in Nat, ~(d >= agreement[a].date),
         NEW r \in Agreement, r.date = agreement[a].date,
         agreement' = [agreement EXCEPT ![a] = r]
  PROVE  Rows(d)' = Rows(d)
<1>1. \A b \in Agreements : agreement'[b].date = agreement[b].date
  BY DEF AuditedTypes
<1>2. \A b \in Agreements : agreement[b].date <= d => agreement'[b] = agreement[b]
  <2> SUFFICES ASSUME NEW b \in Agreements, agreement[b].date <= d
               PROVE  agreement'[b] = agreement[b]
    OBVIOUS
  <2>1. b # a
    BY DEF AuditedTypes, Agreement
  <2> QED BY <2>1 DEF AuditedTypes
<1> QED BY <1>1, <1>2 DEF Rows

\* A step that keeps the rows a live execution has frozen keeps SnapshotsHold.
LEMMA HoldsStill ==
  ASSUME SnapshotsHold, task' = task, Live' => Live,
         execution'.baseline = execution.baseline, execution'.facts = execution.facts,
         execution'.primaries = execution.primaries,
         Live' /\ task.contract => Rows(execution.baseline)' = Rows(execution.baseline),
         Live' => \A i \in task.invoices : duplicate'[i] = duplicate[i],
         Live' => Primaries' = Primaries
  PROVE  SnapshotsHold'
<1> SUFFICES ASSUME Live'
             PROVE  /\ Freezable(execution.baseline)'
                    /\ (Frozen(execution.baseline, execution.facts.repeated) = execution.facts)'
                    /\ (Primaries = execution.primaries)'
  BY DEF SnapshotsHold
<1>1. Live
  OBVIOUS
<1>2. Freezable(execution.baseline)'
  BY <1>1 DEF SnapshotsHold, Freezable
<1>3. /\ Frozen(execution.baseline, execution.facts.repeated) = execution.facts
      /\ Primaries = execution.primaries
  BY <1>1 DEF SnapshotsHold
<1>4. (Primaries = execution.primaries)'
  BY <1>1, <1>3
<1>5. (IF task.contract THEN Rows(execution.baseline) ELSE NoChanges)'
        = IF task.contract THEN Rows(execution.baseline) ELSE NoChanges
  OBVIOUS
<1>6. [i \in task.invoices |-> duplicate[i]]' = [i \in task.invoices |-> duplicate[i]]
  OBVIOUS
<1>7. Frozen(execution.baseline, execution.facts.repeated)'
        = Frozen(execution.baseline, execution.facts.repeated)
  BY <1>5, <1>6 DEF Frozen
<1> QED BY <1>2, <1>3, <1>4, <1>7

\* A decided agreement leaves what it does not outdate as it was frozen.
LEMMA AgreementHolds ==
  ASSUME AuditedTypes, SnapshotsHold, NEW a \in Agreements, NEW r \in Agreement,
         r.date = agreement[a].date, agreement' = [agreement EXCEPT ![a] = r],
         OutdateFromDate(a), UNCHANGED <<link, duplicate, twinned, task>>
  PROVE  SnapshotsHold'
<1>1. (task.contract /\ execution.baseline >= agreement[a].date) \in BOOLEAN
  BY DEF AuditedTypes
<1>2. Live' => Live /\ ~(task.contract /\ execution.baseline >= agreement[a].date)
                    /\ execution' = execution
  BY <1>1, OutdateKeeps DEF OutdateFromDate, AuditedTypes
<1> SUFFICES ASSUME Live' PROVE SnapshotsHold'
  BY DEF SnapshotsHold
<1>3. execution.baseline \in Nat
  <2>1. Dates \cup {0} \subseteq Nat
    BY AuditedFactsAssumption
  <2>2. execution.baseline \in Dates \cup {0}
    BY DEF AuditedTypes, ExecutionTyped
  <2> QED BY <2>1, <2>2
<1>4. ASSUME task.contract PROVE Rows(execution.baseline)' = Rows(execution.baseline)
  <2>1. ~(execution.baseline >= agreement[a].date)
    BY <1>2, <1>4
  <2>2. PICK d \in Nat : d = execution.baseline /\ d = execution'.baseline
    BY <1>2, <1>3
  <2>3. Rows(d)' = Rows(d)
    BY <2>1, <2>2, RowsKept
  <2>4. Rows(execution.baseline) = Rows(d) /\ Rows(execution.baseline)' = Rows(d)'
    BY <2>2 DEF Rows
  <2> QED BY <2>3, <2>4
<1>5. Primaries' = Primaries
  BY DEF Primaries, Primary
<1> QED BY <1>2, <1>4, <1>5, HoldsStill

\* A step that leaves the primary contracts of the audited invoices alone.
LEMMA PrimariesKept ==
  ASSUME task' = task,
         \A l \in Links : \A i \in task.invoices :
           \/ link'[l] = link[l]
           \/ ~(link[l].invoice = i /\ link[l].status = "confirmed_primary")
              /\ ~(link'[l].invoice = i /\ link'[l].status = "confirmed_primary")
  PROVE  Primaries' = Primaries
<1>1. \A i \in task.invoices : Primary(i)' = Primary(i)
  BY DEF Primary
<1>2. \A i \in task.invoices : \A l \in Primary(i) : link'[l] = link[l]
  BY DEF Primary
<1>3. \A i \in task.invoices :
        {link[l].contract : l \in Primary(i)}' = {link[l].contract : l \in Primary(i)}
  BY <1>1, <1>2
<1> QED BY <1>3 DEF Primaries

\* Each write of a frozen fact ends the execution, the others do not touch one.
LEMMA SnapshotsInductive ==
  AuditedTypes /\ SnapshotsHold /\ [AuditedNext]_afvars => SnapshotsHold'
<1> SUFFICES ASSUME AuditedTypes, SnapshotsHold, [AuditedNext]_afvars PROVE SnapshotsHold'
  OBVIOUS
<1>1. ASSUME NEW a \in Agreements, ReplaceChanges(a) PROVE SnapshotsHold'
  <2>1. PICK p \in Payloads : agreement' =
          [agreement EXCEPT ![a] =
            [date |-> @.date, status |-> "pending_confirmation", changes |-> p]]
    BY <1>1 DEF ReplaceChanges
  <2>2. agreement[a] \in Agreement
    BY DEF AuditedTypes
  <2> DEFINE r == [date |-> agreement[a].date, status |-> "pending_confirmation", changes |-> p]
  <2>3. r \in Agreement /\ r.date = agreement[a].date
    BY <2>2 DEF Agreement
  <2>5. agreement' = [agreement EXCEPT ![a] = r]
    BY <2>1
  <2> HIDE DEF r
  <2> QED BY <1>1, <2>3, <2>5, AgreementHolds DEF ReplaceChanges
<1>2. ASSUME NEW a \in Agreements, DecideAgreement(a) PROVE SnapshotsHold'
  <2>1. PICK d \in {"confirmed", "rejected"} : agreement' = [agreement EXCEPT ![a].status = d]
    BY <1>2 DEF DecideAgreement
  <2> DEFINE r == [agreement[a] EXCEPT !.status = d]
  <2>3. r \in Agreement /\ r.date = agreement[a].date
    BY DEF AuditedTypes, Agreement
  <2>5. agreement' = [agreement EXCEPT ![a] = r]
    BY <2>1
  <2> HIDE DEF r
  <2> QED BY <1>2, <2>3, <2>5, AgreementHolds DEF DecideAgreement
<1>3. ASSUME NEW l \in Links, SetPrimary(l) \/ CancelPrimary(l) PROVE SnapshotsHold'
  <2>1. /\ OutdateOfInvoice(link[l].invoice) /\ UNCHANGED <<agreement, duplicate, twinned, task>>
        /\ (link[l].invoice \in task.invoices) \in BOOLEAN
    BY <1>3 DEF SetPrimary, CancelPrimary
  <2>2. Live' => Live /\ link[l].invoice \notin task.invoices /\ execution' = execution
    BY <2>1, OutdateKeeps DEF OutdateOfInvoice, AuditedTypes
  <2>3. \A k \in Links : \/ link'[k] = link[k]
                         \/ link[k].invoice = link[l].invoice /\ link'[k].invoice = link[l].invoice
    BY <1>3 DEF SetPrimary, CancelPrimary, Primary, AuditedTypes, LinkRow
  <2> SUFFICES ASSUME Live' PROVE SnapshotsHold'
    BY DEF SnapshotsHold
  <2>4. Primaries' = Primaries
    BY <2>1, <2>2, <2>3, PrimariesKept
  <2>5. Rows(execution.baseline)' = Rows(execution.baseline)
    BY <2>1, <2>2 DEF Rows
  <2> QED BY <2>1, <2>2, <2>4, <2>5, HoldsStill
<1>5. ASSUME NEW l \in Links, NEW c \in Contracts, NEW i \in Invoices, Suggest(l, c, i)
      PROVE  SnapshotsHold'
  <2>1. \A k \in Links : \/ link'[k] = link[k]
                         \/ link[k].status # "confirmed_primary"
                            /\ link'[k].status # "confirmed_primary"
    BY <1>5 DEF Suggest, AuditedTypes
  <2>2. UNCHANGED <<agreement, duplicate, twinned, task, execution>>
    BY <1>5 DEF Suggest
  <2>3. Primaries' = Primaries
    BY <2>1, <2>2, PrimariesKept
  <2>4. Rows(execution.baseline)' = Rows(execution.baseline) /\ (Live' => Live)
    BY <2>2 DEF Rows, Live
  <2> QED BY <2>2, <2>3, <2>4, HoldsStill
<1>6. ASSUME NEW i \in Invoices, RecheckDuplicate(i) \/ SettleDuplicate(i) PROVE SnapshotsHold'
  <2>1. PICK s \in DuplicateStatus : Marks(i, s)
    BY <1>6 DEF RecheckDuplicate, SettleDuplicate, DuplicateStatus
  <2>2. /\ OutdateOfInvoice(i) /\ UNCHANGED <<agreement, link, twinned, task>>
        /\ (i \in task.invoices) \in BOOLEAN
    BY <2>1 DEF Marks
  <2>3. Live' => Live /\ i \notin task.invoices /\ execution' = execution
    BY <2>2, OutdateKeeps DEF OutdateOfInvoice, AuditedTypes
  <2> SUFFICES ASSUME Live' PROVE SnapshotsHold'
    BY DEF SnapshotsHold
  <2>4. \A j \in task.invoices : duplicate'[j] = duplicate[j]
    BY <2>1, <2>3 DEF Marks, AuditedTypes
  <2>5. Primaries' = Primaries /\ Rows(execution.baseline)' = Rows(execution.baseline)
    BY <2>2, <2>3 DEF Rows, Primaries, Primary
  <2> QED BY <2>2, <2>3, <2>4, <2>5, HoldsStill
<1>7. ASSUME UNCHANGED <<agreement, link, duplicate, task>>, Live' => Live,
             execution'.baseline = execution.baseline, execution'.facts = execution.facts,
             execution'.primaries = execution.primaries
      PROVE  SnapshotsHold'
  <2>1. Primaries' = Primaries
    BY <1>7 DEF Primaries, Primary
  <2>2. Rows(execution.baseline)' = Rows(execution.baseline)
    BY <1>7 DEF Rows
  <2> QED BY <1>7, <2>1, <2>2, HoldsStill
<1>8. CASE Evaluate
  <2>1. /\ execution'.baseline = execution.baseline /\ execution'.facts = execution.facts
        /\ execution'.primaries = execution.primaries
    BY <1>8 DEF Evaluate, AuditedTypes, ExecutionShape
  <2>2. Live
    BY <1>8 DEF Evaluate, Live, EndedByFacts, Unfinished
  <2> QED BY <1>7, <1>8, <2>1, <2>2 DEF Evaluate
<1>9. CASE EndExecution
  <2>1. CASE execution.status = "pending_review"
             /\ execution' = [execution EXCEPT !.status = "completed"]
    <3>1. /\ execution'.baseline = execution.baseline /\ execution'.facts = execution.facts
          /\ execution'.primaries = execution.primaries /\ Live
      BY <2>1 DEF AuditedTypes, ExecutionShape, Live, EndedByFacts, Unfinished
    <3> QED BY <1>7, <1>9, <3>1 DEF EndExecution
  <2>2. ASSUME NEW s \in {"returned_for_correction", "cancelled"}, execution' = Closed(s)
        PROVE  SnapshotsHold'
    <3>1. execution'.status = s
      BY <2>2 DEF Closed, AuditedTypes, ExecutionShape
    <3> QED BY <3>1 DEF SnapshotsHold, Live, EndedByFacts, Unfinished
  <2> QED BY <1>9, <2>1, <2>2 DEF EndExecution
<1>10. ASSUME NEW d \in Dates, CreateExecution(d) PROVE SnapshotsHold'
  <2>1. /\ execution'.baseline = d /\ execution'.facts = Frozen(d, Repeated)
        /\ execution'.primaries = Primaries
        /\ UNCHANGED <<agreement, link, duplicate, twinned, task>>
    BY <1>10 DEF CreateExecution
  <2>2. execution'.facts.repeated = Repeated
    BY <2>1 DEF Frozen
  <2>3. Rows(d)' = Rows(d) /\ Primaries' = Primaries
    BY <2>1 DEF Rows, Primaries, Primary
  <2>4. Freezable(execution.baseline)'
    BY <1>10, <2>1, <2>3 DEF CreateExecution, Freezable
  <2>5. Frozen(execution.baseline, execution.facts.repeated)' = Frozen(d, Repeated)
    BY <2>1, <2>2, <2>3 DEF Frozen
  <2> QED BY <2>1, <2>3, <2>4, <2>5 DEF SnapshotsHold
<1>11. ASSUME NEW i \in Invoices, TwinChanges(i) PROVE SnapshotsHold'
  BY <1>7, <1>11 DEF TwinChanges, Live
<1>12. CASE UNCHANGED afvars
  BY <1>7, <1>12 DEF afvars, Live
<1> QED
  BY <1>1, <1>2, <1>3, <1>5, <1>6, <1>8, <1>9, <1>10, <1>11, <1>12
  DEF AuditedNext, FactsChange

\* Before the first execution of the task there is nothing to hold.
LEMMA AuditedInitially == AuditedInit => AuditedTypes /\ SnapshotsHold /\ Admitted!Init
<1> SUFFICES ASSUME AuditedInit PROVE AuditedTypes /\ SnapshotsHold /\ Admitted!Init
  OBVIOUS
<1> USE DEF AuditedInit
<1>1. agreement \in [Agreements -> Agreement] /\ link \in [Links -> LinkRow]
  BY DEF Agreement, LinkRow
<1>2. duplicate \in [Invoices -> DuplicateStatus]
  BY DEF DuplicateStatus
<1>3. ExecutionTyped /\ ExecutionShape
  BY DEF ExecutionTyped, ExecutionShape, ExecutionStatus
<1>4. SnapshotsHold
  BY DEF SnapshotsHold, Live, EndedByFacts, Unfinished
<1>5. Admitted!Init
  BY DEF Admitted!Init, Admitted!Indexes, Admitted!Absent
<1> QED BY <1>1, <1>2, <1>3, <1>4, <1>5 DEF AuditedTypes

-----------------------------------------------------------------------------
\* _set_primary cancels the previous primary, _suggest finds no open row of the
\* pair: the rows they write are admitted.
LEMMA LinkSteps ==
  AuditedTypes /\ Admitted!Indexes /\ [AuditedNext]_afvars
    => Admitted!Indexes' /\ [Admitted!Next]_link
<1> SUFFICES ASSUME AuditedTypes, Admitted!Indexes, [AuditedNext]_afvars
             PROVE  Admitted!Indexes' /\ [Admitted!Next]_link
  OBVIOUS
<1>0. link \in [Links -> LinkRow]
  BY DEF AuditedTypes
<1>1. ASSUME NEW l \in Links, SetPrimary(l) PROVE Admitted!Indexes' /\ Admitted!Next
  <2>1. /\ link[l].status = "suggested" /\ link'[l].status = "confirmed_primary"
        /\ link'[l].invoice = link[l].invoice /\ link'[l].contract = link[l].contract
    BY <1>0, <1>1 DEF SetPrimary, LinkRow
  <2>2. ASSUME NEW k \in Links, k # l
        PROVE  /\ link'[k].invoice = link[k].invoice /\ link'[k].contract = link[k].contract
               /\ \/ link'[k] = link[k]
                     /\ ~(link[k].invoice = link[l].invoice /\ link[k].status = "confirmed_primary")
                  \/ /\ link[k].status = "confirmed_primary" /\ link'[k].status = "cancelled"
    BY <1>0, <1>1, <2>2 DEF SetPrimary, LinkRow, Primary
  <2>3. Admitted!Indexes'
    BY <1>0, <2>1, <2>2 DEF Admitted!Indexes, Admitted!Absent, Admitted!Open, LinkRow
  <2>4. Admitted!Updated(l)
    BY <2>1 DEF Admitted!Updated, Admitted!Follows
  <2>5. \A k \in Links : link'[k] = link[k] \/ Admitted!Updated(k)
    BY <2>2, <2>4 DEF Admitted!Updated, Admitted!Follows
  <2> QED BY <2>3, <2>5 DEF Admitted!Next
<1>2. ASSUME NEW l \in Links, CancelPrimary(l) PROVE Admitted!Indexes' /\ Admitted!Next
  <2>1. link[l].status = "confirmed_primary" /\ link' = [link EXCEPT ![l].status = "cancelled"]
    BY <1>2 DEF CancelPrimary
  <2>2. /\ link'[l].status = "cancelled"
        /\ link'[l].invoice = link[l].invoice /\ link'[l].contract = link[l].contract
        /\ \A k \in Links : k # l => link'[k] = link[k]
    BY <1>0, <2>1 DEF LinkRow
  <2>3. Admitted!Indexes'
    BY <2>2 DEF Admitted!Indexes, Admitted!Absent, Admitted!Open
  <2>4. \A k \in Links : link'[k] = link[k] \/ Admitted!Updated(k)
    BY <2>1, <2>2 DEF Admitted!Updated, Admitted!Follows
  <2> QED BY <2>3, <2>4 DEF Admitted!Next
<1>3. ASSUME NEW l \in Links, NEW c \in Contracts, NEW i \in Invoices, Suggest(l, c, i)
      PROVE  Admitted!Indexes' /\ Admitted!Next
  <2>1. /\ link[l].status = "absent"
        /\ link' = [link EXCEPT ![l] = [status |-> "suggested", contract |-> c, invoice |-> i]]
        /\ \A k \in Links : link[k].contract = c /\ link[k].invoice = i
                             => link[k].status \in {"absent", "cancelled"}
    BY <1>3 DEF Suggest
  <2>2. /\ link'[l].status = "suggested" /\ link'[l].contract = c /\ link'[l].invoice = i
        /\ \A k \in Links : k # l => link'[k] = link[k]
    BY <1>0, <2>1
  <2>3. Admitted!Indexes'
    BY <2>1, <2>2 DEF Admitted!Indexes, Admitted!Absent, Admitted!Open
  <2>4. \A k \in Links : link'[k] = link[k] \/ Admitted!Inserted(k)
    BY <2>1, <2>2 DEF Admitted!Inserted, Admitted!Absent
  <2> QED BY <2>3, <2>4 DEF Admitted!Next
<1>4. ASSUME link' = link PROVE Admitted!Indexes' /\ [Admitted!Next]_link
  BY <1>4 DEF Admitted!Indexes, Admitted!Absent, Admitted!Open
<1> QED
  BY <1>1, <1>2, <1>3, <1>4
  DEF AuditedNext, FactsChange, ReplaceChanges, DecideAgreement, RecheckDuplicate,
      SettleDuplicate, Marks, TwinChanges, Evaluate, EndExecution, CreateExecution, afvars

\* Every column of agreements, links, duplicates and the execution keeps its type.
THEOREM AuditedTypesHold == AuditedSpec => []AuditedTypeOK
<1>1. AuditedTypes => AuditedTypeOK
  BY DEF AuditedTypes, AuditedTypeOK, ExecutionTyped, Agreement, LinkRow
<1> QED BY <1>1, AuditedInitially, AuditedTypesInductive, PTL DEF AuditedSpec

\* Whatever services decide about agreements, links and duplicates, and whenever,
\* an execution that is not closed has frozen what it would freeze now.
THEOREM SnapshotsStayTrue == AuditedSpec => []SnapshotsHold
<1> QED BY AuditedInitially, AuditedTypesInductive, SnapshotsInductive, PTL DEF AuditedSpec

\* The trigger and the indexes of contract_invoices accept every write.
THEOREM LinksAreAdmitted == AuditedSpec => ImplementsLinkLifecycle
<1>1. Admitted!Init => Admitted!Indexes
  BY DEF Admitted!Init
<1> QED
  BY <1>1, AuditedInitially, AuditedTypesInductive, LinkSteps, PTL
  DEF AuditedSpec, ImplementsLinkLifecycle, Admitted!Spec

-----------------------------------------------------------------------------
(***************************************************************************)
(* The projection.  Project is a fold, that is a recursive function over   *)
(* the sets of agreements in force; that there is such a function, and     *)
(* what it gives, is shown by looking at a smallest set for which it would *)
(* not be so.                                                              *)
(***************************************************************************)

\* Among subsets of a finite set there is one without a smaller one.
LEMMA SmallestSet ==
  ASSUME NEW X, IsFiniteSet(X), NEW F, F \subseteq SUBSET X, F # {}
  PROVE  \E A \in F : \A B \in F : B \subseteq A => B = A
<1>1. \A A \in SUBSET X : IsFiniteSet(A)
  BY FS_Subset
<1>2. F \subseteq FiniteSubsetsOf(X)
  BY <1>1 DEF FiniteSubsetsOf
<1>3. PICK A \in F : \A B \in F : <<B, A>> \notin StrictSubsetOrdering(X)
  BY <1>2, FS_StrictSubsetOrderingWellFounded, WFMin
<1>4. ASSUME NEW B \in F, B \subseteq A PROVE B = A
  BY <1>3, <1>4 DEF StrictSubsetOrdering
<1> QED BY <1>3, <1>4

\* The equation of the values after each set of agreements.
After(rows, g, A) == IF A = {} THEN Original
                     ELSE Overwritten(g[A \ {Latest(rows, A)}], rows[Latest(rows, A)].changes)
Projects(rows, g, C) == g = [A \in SUBSET C |-> After(rows, g, A)]

LEMMA ProjectIsChosen ==
  ASSUME NEW rows
  PROVE  Project(rows) = (CHOOSE g : Projects(rows, g, InForce(rows)))[InForce(rows)]
BY DEF Project, MapThenFoldSet, Projects, After

LEMMA ProjectsValue ==
  ASSUME NEW rows, NEW C, NEW g, Projects(rows, g, C), NEW A \in SUBSET C
  PROVE  g[A] = After(rows, g, A)
BY DEF Projects

\* Rows with dates, as Rows has them.
Dated(rows, C) == \A a \in C : rows[a].date \in Nat

\* Every set of agreements has a latest one.
LEMMA LatestExists ==
  ASSUME NEW rows, NEW C, IsFiniteSet(C), Dated(rows, C), NEW A \in SUBSET C, A # {}
  PROVE  Latest(rows, A) \in A /\ \A b \in A : rows[b].date <= rows[Latest(rows, A)].date
<1> DEFINE Bad == {B \in SUBSET C : B # {} /\ ~ \E a \in B : \A b \in B : rows[b].date <= rows[a].date}
<1>1. ASSUME Bad # {} PROVE FALSE
  <2>1. PICK B \in Bad : \A D \in Bad : D \subseteq B => D = B
    <3>1. Bad \subseteq SUBSET C
      OBVIOUS
    <3> HIDE DEF Bad
    <3> QED BY <1>1, <3>1, SmallestSet
  <2>2. PICK c \in B : TRUE
    OBVIOUS
  <2>3. \A b \in B : rows[b].date \in Nat
    BY DEF Dated
  <2>4. CASE B \ {c} = {}
    <3>1. \A b \in B : b = c
      BY <2>4
    <3> QED BY <2>2, <2>3, <3>1
  <2>5. CASE B \ {c} # {}
    <3>0. B \ {c} \notin Bad /\ B \ {c} \in SUBSET C
      BY <2>1, <2>2
    <3>1. PICK a \in B \ {c} : \A b \in B \ {c} : rows[b].date <= rows[a].date
      BY <2>5, <3>0
    <3>2. CASE rows[c].date <= rows[a].date
      BY <3>1, <3>2
    <3>3. CASE ~(rows[c].date <= rows[a].date)
      <4>1. ASSUME NEW b \in B PROVE rows[b].date <= rows[c].date
        BY <2>2, <2>3, <3>1, <3>3
      <4> QED BY <2>2, <4>1
    <3> QED BY <3>2, <3>3
  <2> QED BY <2>4, <2>5
<1>2. \E a \in A : \A b \in A : rows[b].date <= rows[a].date
  BY <1>1
<1> QED BY <1>2 DEF Latest

\* Two such functions agree where both are defined.
LEMMA ProjectsAgree ==
  ASSUME NEW rows, NEW C, IsFiniteSet(C), Dated(rows, C), NEW D, NEW g, NEW h,
         Projects(rows, g, C), Projects(rows, h, D)
  PROVE  \A A \in (SUBSET C) \cap SUBSET D : g[A] = h[A]
<1> DEFINE Bad == {A \in SUBSET C : A \subseteq D /\ g[A] # h[A]}
<1>1. SUFFICES ASSUME Bad # {} PROVE FALSE
  OBVIOUS
<1>2. PICK A \in Bad : \A B \in Bad : B \subseteq A => B = A
  <2>1. Bad \subseteq SUBSET C
    OBVIOUS
  <2> HIDE DEF Bad
  <2> QED BY <1>1, <2>1, SmallestSet
<1>3. g[A] = After(rows, g, A) /\ h[A] = After(rows, h, A)
  BY <1>2, ProjectsValue
<1>4. A # {}
  BY <1>2, <1>3 DEF After
<1>5. Latest(rows, A) \in A
  BY <1>2, <1>4, LatestExists
<1>6. g[A \ {Latest(rows, A)}] = h[A \ {Latest(rows, A)}]
  <2>1. A \ {Latest(rows, A)} \notin Bad
    BY <1>2, <1>5
  <2> QED BY <1>2, <2>1
<1> QED BY <1>2, <1>3, <1>4, <1>6 DEF After

\* There is one for every finite set of agreements.
LEMMA ProjectsExist ==
  ASSUME NEW rows, NEW C, IsFiniteSet(C), Dated(rows, C)
  PROVE  \E g : Projects(rows, g, C)
<1> DEFINE Bad == {A \in SUBSET C : ~ \E g : Projects(rows, g, A)}
<1>1. SUFFICES ASSUME Bad # {} PROVE FALSE
  OBVIOUS
<1>2. PICK S \in Bad : \A B \in Bad : B \subseteq S => B = S
  <2>1. Bad \subseteq SUBSET C
    OBVIOUS
  <2> HIDE DEF Bad
  <2> QED BY <1>1, <2>1, SmallestSet
<1> DEFINE H(B) == CHOOSE h : Projects(rows, h, B)
           Without(A) == A \ {Latest(rows, A)}
           Value(A) == IF A = {} THEN Original
                       ELSE Overwritten(H(Without(A))[Without(A)], rows[Latest(rows, A)].changes)
           f == [A \in SUBSET S |-> Value(A)]
<1>3. ASSUME NEW B \in SUBSET S, B # S PROVE Projects(rows, H(B), B)
  BY <1>2, <1>3
<1>4. ASSUME NEW A \in SUBSET S, A # {} PROVE f[Without(A)] = H(Without(A))[Without(A)]
  <2>1. PICK B : B = Without(A)
    OBVIOUS
  <2>2. B \in SUBSET S /\ B # S
    BY <1>2, <1>4, <2>1, LatestExists
  <2>3. Projects(rows, H(B), B)
    BY <1>3, <2>2
  <2>4. IsFiniteSet(B) /\ Dated(rows, B)
    BY <1>2, <2>2, FS_Subset DEF Dated
  <2>5. CASE B = {}
    <3> HIDE DEF H
    <3>1. H(B)[B] = Original
      BY <2>3, <2>5, ProjectsValue DEF After
    <3> QED BY <2>1, <2>2, <2>5, <3>1
  <2>6. CASE B # {}
    <3>1. PICK D : D = Without(B)
      OBVIOUS
    <3>2. D \in SUBSET S /\ D # S /\ D \in (SUBSET B) \cap SUBSET D
      BY <2>2, <3>1
    <3>3. Projects(rows, H(D), D)
      BY <1>3, <3>2
    <3> HIDE DEF H
    <3>4. H(B)[D] = H(D)[D]
      BY <2>3, <2>4, <3>2, <3>3, ProjectsAgree
    <3>5. H(B)[B] = Overwritten(H(B)[D], rows[Latest(rows, B)].changes)
      BY <2>3, <2>6, <3>1, ProjectsValue DEF After
    <3>6. f[B] = Overwritten(H(D)[D], rows[Latest(rows, B)].changes)
      BY <2>2, <2>6, <3>1
    <3> QED BY <2>1, <3>4, <3>5, <3>6
  <2> QED BY <2>5, <2>6
<1> HIDE DEF H
<1>5. ASSUME NEW A \in SUBSET S PROVE f[A] = After(rows, f, A)
  <2>1. f[A] = Value(A)
    OBVIOUS
  <2> HIDE DEF f
  <2> QED BY <1>4, <2>1 DEF After
<1>6. f = [A \in SUBSET S |-> f[A]]
  OBVIOUS
<1> HIDE DEF f
<1>7. f = [A \in SUBSET S |-> After(rows, f, A)]
  BY <1>5, <1>6
<1> QED BY <1>2, <1>7 DEF Projects

\* What a projection gives a field: the value of the last agreement in force that
\* changes it, or the one of the contract.
LEMMA ProjectGives ==
  ASSUME NEW rows, IsFiniteSet(InForce(rows)), Dated(rows, InForce(rows)), ~Ambiguous(rows),
         NEW f \in Fields
  PROVE  /\ (\A a \in InForce(rows) : f \notin DOMAIN rows[a].changes)
              => Project(rows)[f] = Original[f]
         /\ \A a \in InForce(rows) :
              /\ f \in DOMAIN rows[a].changes
              /\ \A b \in InForce(rows) : f \in DOMAIN rows[b].changes => rows[b].date <= rows[a].date
              => Project(rows)[f] = rows[a].changes[f]
<1> DEFINE C == InForce(rows)
           Touches(a) == f \in DOMAIN rows[a].changes
           IsNewest(a, A) ==
             a \in A /\ Touches(a) /\ \A b \in A : Touches(b) => rows[b].date <= rows[a].date
<1>1. PICK g : Projects(rows, g, C) /\ Project(rows) = g[C]
  BY ProjectsExist, ProjectIsChosen
<1> DEFINE Right(A) == /\ (\A a \in A : ~Touches(a)) => g[A][f] = Original[f]
                       /\ \A a \in A : IsNewest(a, A) => g[A][f] = rows[a].changes[f]
           Bad == {A \in SUBSET C : ~Right(A)}
<1>2. ASSUME Bad # {} PROVE FALSE
  <2>1. PICK A \in Bad : \A B \in Bad : B \subseteq A => B = A
    <3>1. Bad \subseteq SUBSET C
      OBVIOUS
    <3> HIDE DEF Bad
    <3> QED BY <1>2, <3>1, SmallestSet
  <2>2. g[A] = After(rows, g, A)
    BY <1>1, <2>1, ProjectsValue
  <2>3. CASE A = {}
    <3>1. g[A] = Original
      BY <2>2, <2>3 DEF After
    <3> QED BY <2>1, <2>3, <3>1
  <2>4. CASE A # {}
    <3>1. PICK x : x = Latest(rows, A)
      OBVIOUS
    <3>2. x \in A /\ x \in C /\ \A b \in A : rows[b].date <= rows[x].date
      BY <2>1, <2>4, <3>1, LatestExists
    <3>3. Right(A \ {x})
      BY <2>1, <3>2
    <3>4. g[A][f] = IF Touches(x) THEN rows[x].changes[f] ELSE g[A \ {x}][f]
      BY <2>2, <2>4, <3>1 DEF After, Overwritten
    <3>5. (\A a \in A : ~Touches(a)) => g[A][f] = Original[f]
      BY <3>2, <3>3, <3>4
    <3>6. ASSUME NEW a \in A, IsNewest(a, A) PROVE g[A][f] = rows[a].changes[f]
      <4>1. CASE Touches(x)
        <5>1. rows[a].date = rows[x].date
          BY <2>1, <3>2, <3>6, <4>1 DEF Dated
        <5>2. a = x
          BY <2>1, <3>2, <3>6, <4>1, <5>1 DEF Ambiguous
        <5> QED BY <3>4, <4>1, <5>2
      <4>2. CASE ~Touches(x)
        BY <3>3, <3>4, <3>6, <4>2
      <4> QED BY <4>1, <4>2
    <3> QED BY <2>1, <3>5, <3>6
  <2> QED BY <2>3, <2>4
<1>3. Right(C)
  BY <1>2
<1> QED BY <1>1, <1>3

\* The amount of a projection is AgreedAmount, said over the rows of a date.
LEMMA AmountIsAgreed ==
  ASSUME AuditedTypes, NEW d \in Nat, ~Ambiguous(Rows(d))
  PROVE  Project(Rows(d))["amount"] = AgreedAmount(d)
<1> DEFINE changed == {a \in Agreements : agreement[a].status = "confirmed"
                         /\ agreement[a].date <= d /\ "amount" \in DOMAIN agreement[a].changes}
<1>1. \A a \in Agreements : agreement[a].date \in Nat
  BY AuditedFactsAssumption DEF AuditedTypes, Agreement
<1>2. PICK rows : rows = Rows(d)
  OBVIOUS
<1>3. /\ \A a \in Agreements : a \in DOMAIN rows <=> agreement[a].date <= d
      /\ \A a \in DOMAIN rows : a \in Agreements /\ rows[a] = agreement[a]
  BY <1>2 DEF Rows
<1>4. /\ InForce(rows) \subseteq Agreements /\ IsFiniteSet(InForce(rows))
      /\ Dated(rows, InForce(rows)) /\ ~Ambiguous(rows) /\ "amount" \in Fields
  <2>1. InForce(rows) \subseteq Agreements
    BY <1>3 DEF InForce
  <2>2. IsFiniteSet(InForce(rows))
    BY <2>1, AuditedFactsAssumption, FS_Subset
  <2>3. Dated(rows, InForce(rows))
    BY <1>1, <1>3 DEF Dated, InForce
  <2> QED BY <1>2, <2>1, <2>2, <2>3 DEF Fields
<1>5. changed = {a \in InForce(rows) : "amount" \in DOMAIN rows[a].changes}
  BY <1>3 DEF InForce
<1>6. CASE changed = {}
  <2>1. Project(rows)["amount"] = Original["amount"]
    BY <1>4, <1>5, <1>6, ProjectGives
  <2> QED BY <1>2, <1>6, <2>1 DEF AgreedAmount
<1>7. CASE changed # {}
  <2>1. changed \in SUBSET Agreements /\ IsFiniteSet(Agreements) /\ Dated(agreement, Agreements)
    BY <1>1, AuditedFactsAssumption DEF Dated
  <2>2. PICK last : last = Latest(agreement, changed)
    OBVIOUS
  <2>3. last \in changed /\ \A b \in changed : agreement[b].date <= agreement[last].date
    BY <1>7, <2>1, <2>2, LatestExists
  <2>4. AgreedAmount(d) = agreement[last].changes["amount"]
    BY <1>7, <2>2 DEF AgreedAmount, Latest
  <2>5. /\ last \in InForce(rows) /\ "amount" \in DOMAIN rows[last].changes
        /\ \A b \in InForce(rows) : "amount" \in DOMAIN rows[b].changes
                                   => rows[b].date <= rows[last].date
        /\ rows[last] = agreement[last]
    <3>1. \A b \in changed : b \in DOMAIN rows /\ rows[b] = agreement[b]
      BY <1>3
    <3> QED BY <1>5, <2>3, <3>1
  <2>6. Project(rows)["amount"] = rows[last].changes["amount"]
    BY <1>4, <2>5, ProjectGives
  <2> QED BY <1>2, <2>4, <2>5, <2>6
<1> QED BY <1>6, <1>7

LEMMA AmountType ==
  ASSUME AuditedTypes, NEW d \in Nat
  PROVE  AgreedAmount(d) \in Nat \cup {Null}
<1> DEFINE changed == {a \in Agreements : agreement[a].status = "confirmed"
                         /\ agreement[a].date <= d /\ "amount" \in DOMAIN agreement[a].changes}
<1>1. CASE changed = {}
  BY <1>1, AuditedFactsAssumption DEF AgreedAmount, Fields
<1>2. CASE changed # {}
  <2>1. changed \in SUBSET Agreements /\ IsFiniteSet(Agreements) /\ Dated(agreement, Agreements)
    BY AuditedFactsAssumption DEF Dated, AuditedTypes, Agreement
  <2>2. PICK last : last = Latest(agreement, changed)
    OBVIOUS
  <2>3. last \in changed
    BY <1>2, <2>1, <2>2, LatestExists
  <2>4. AgreedAmount(d) = agreement[last].changes["amount"]
    BY <1>2, <2>2 DEF AgreedAmount, Latest
  <2>5. agreement[last].changes \in Payloads /\ "amount" \in DOMAIN agreement[last].changes
    BY <2>3 DEF AuditedTypes, Agreement, NoChanges
  <2> QED BY <2>4, <2>5, AuditedFactsAssumption
<1> QED BY <1>1, <1>2

-----------------------------------------------------------------------------
(***************************************************************************)
(* Verdicts.  An execution under review or completed has the verdict of    *)
(* what it has frozen, and that is still so (SnapshotsHold); an agreement  *)
(* that is not a draft any more has changes, which RULE-012 looks for.     *)
(***************************************************************************)
Relied == execution.status \in {"pending_review", "completed"}

VerdictIsOfFacts == Relied => execution.verdict = Verdict(execution.facts)

OnlyDraftsAreEmpty ==
  \A a \in Agreements : agreement[a].changes = NoChanges => agreement[a].status = "draft"

LEMMA VerdictKept ==
  ASSUME UNCHANGED task, NEW facts
  PROVE  Verdict(facts)' = Verdict(facts)
<1>1. \A i : Disposition(facts, i)' = Disposition(facts, i)
  BY DEF Disposition
<1>2. \A r : {Disposition(facts, i)[r] : i \in task.invoices}'
              = {Disposition(facts, i)[r] : i \in task.invoices}
  BY <1>1
<1> QED BY <1>2 DEF Verdict, SelectInSeq

LEMMA OutdateKeepsVerdict ==
  ASSUME AuditedTypes, VerdictIsOfFacts, UNCHANGED task, NEW reached \in BOOLEAN, Outdate(reached)
  PROVE  VerdictIsOfFacts'
<1>1. CASE execution' = execution
  <2>1. PICK facts : facts = execution.facts
    OBVIOUS
  <2> QED BY <1>1, <2>1, VerdictKept DEF VerdictIsOfFacts, Relied
<1>2. CASE execution' # execution
  <2>1. execution' = Closed("outdated")
    BY <1>2 DEF Outdate
  <2>2. execution'.status = "outdated"
    BY <2>1 DEF Closed, AuditedTypes, ExecutionShape
  <2> QED BY <2>2 DEF VerdictIsOfFacts, Relied
<1> QED BY <1>1, <1>2

LEMMA VerdictsInductive ==
  AuditedTypes /\ VerdictIsOfFacts /\ [AuditedNext]_afvars => VerdictIsOfFacts'
<1> SUFFICES ASSUME AuditedTypes, VerdictIsOfFacts, [AuditedNext]_afvars PROVE VerdictIsOfFacts'
  OBVIOUS
<1>1. ASSUME NEW reached, reached \in BOOLEAN, Outdate(reached), UNCHANGED task
      PROVE  VerdictIsOfFacts'
  BY <1>1, OutdateKeepsVerdict
<1>2. ASSUME NEW i, OutdateOfInvoice(i), UNCHANGED task PROVE VerdictIsOfFacts'
  <2>1. (i \in task.invoices) \in BOOLEAN
    OBVIOUS
  <2> QED BY <1>1, <1>2, <2>1 DEF OutdateOfInvoice
<1>3. ASSUME NEW a \in Agreements, ReplaceChanges(a) \/ DecideAgreement(a) PROVE VerdictIsOfFacts'
  <2>1. (task.contract /\ execution.baseline >= agreement[a].date) \in BOOLEAN
    BY DEF AuditedTypes
  <2> QED BY <1>1, <1>3, <2>1 DEF ReplaceChanges, DecideAgreement, OutdateFromDate
<1>4. ASSUME NEW l \in Links, SetPrimary(l) \/ CancelPrimary(l) PROVE VerdictIsOfFacts'
  BY <1>2, <1>4 DEF SetPrimary, CancelPrimary
<1>5. ASSUME NEW i \in Invoices, RecheckDuplicate(i) \/ SettleDuplicate(i) PROVE VerdictIsOfFacts'
  BY <1>2, <1>5 DEF RecheckDuplicate, SettleDuplicate, Marks
<1>6. ASSUME UNCHANGED task, execution'.facts = execution.facts,
             Relied' => execution'.verdict = Verdict(execution.facts)
      PROVE  VerdictIsOfFacts'
  <2>1. PICK facts : facts = execution.facts
    OBVIOUS
  <2> QED BY <1>6, <2>1, VerdictKept DEF VerdictIsOfFacts
<1>7. CASE UNCHANGED <<task, execution>>
  BY <1>6, <1>7 DEF VerdictIsOfFacts, Relied
<1>8. CASE Evaluate
  <2>1. /\ execution'.facts = execution.facts /\ UNCHANGED task
        /\ Relied' => execution'.verdict = Verdict(execution.facts)
    BY <1>8 DEF Evaluate, AuditedTypes, ExecutionShape, Relied
  <2> QED BY <1>6, <2>1
<1>9. CASE EndExecution
  <2>1. CASE execution.status = "pending_review"
             /\ execution' = [execution EXCEPT !.status = "completed"]
    <3>1. /\ execution'.facts = execution.facts /\ execution'.verdict = execution.verdict
          /\ UNCHANGED task /\ Relied
      BY <1>9, <2>1 DEF EndExecution, AuditedTypes, ExecutionShape, Relied
    <3> QED BY <1>6, <3>1 DEF VerdictIsOfFacts
  <2>2. ASSUME NEW s \in {"returned_for_correction", "cancelled"}, execution' = Closed(s)
        PROVE  VerdictIsOfFacts'
    <3>1. execution'.status = s
      BY <2>2 DEF Closed, AuditedTypes, ExecutionShape
    <3> QED BY <3>1 DEF VerdictIsOfFacts, Relied
  <2> QED BY <1>9, <2>1, <2>2 DEF EndExecution
<1>10. ASSUME NEW d \in Dates, CreateExecution(d) PROVE VerdictIsOfFacts'
  BY <1>10 DEF CreateExecution, VerdictIsOfFacts, Relied
<1>11. ASSUME NEW i \in Invoices, TwinChanges(i) PROVE VerdictIsOfFacts'
  BY <1>7, <1>11 DEF TwinChanges
<1>12. ASSUME NEW l \in Links, NEW c \in Contracts, NEW i \in Invoices, Suggest(l, c, i)
       PROVE  VerdictIsOfFacts'
  BY <1>7, <1>12 DEF Suggest
<1> QED
  BY <1>3, <1>4, <1>5, <1>7, <1>8, <1>9, <1>10, <1>11, <1>12 DEF AuditedNext, FactsChange, afvars

LEMMA DraftsInductive ==
  AuditedTypes /\ OnlyDraftsAreEmpty /\ [AuditedNext]_afvars => OnlyDraftsAreEmpty'
<1> SUFFICES ASSUME AuditedTypes, OnlyDraftsAreEmpty, [AuditedNext]_afvars PROVE OnlyDraftsAreEmpty'
  OBVIOUS
<1>1. ASSUME NEW a \in Agreements, ReplaceChanges(a) PROVE OnlyDraftsAreEmpty'
  <2>1. PICK p \in Payloads : agreement' =
          [agreement EXCEPT ![a] =
            [date |-> @.date, status |-> "pending_confirmation", changes |-> p]]
    BY <1>1 DEF ReplaceChanges
  <2>2. p # NoChanges
    BY AuditedFactsAssumption DEF NoChanges
  <2> QED BY <2>1, <2>2 DEF OnlyDraftsAreEmpty, AuditedTypes
<1>2. ASSUME NEW a \in Agreements, DecideAgreement(a) PROVE OnlyDraftsAreEmpty'
  <2>1. agreement[a].changes # NoChanges
    BY <1>2 DEF DecideAgreement, OnlyDraftsAreEmpty
  <2> QED BY <1>2, <2>1 DEF DecideAgreement, OnlyDraftsAreEmpty, AuditedTypes, Agreement
<1>3. CASE UNCHANGED agreement
  BY <1>3 DEF OnlyDraftsAreEmpty
<1> QED
  BY <1>1, <1>2, <1>3
  DEF AuditedNext, FactsChange, SetPrimary, CancelPrimary, Suggest, RecheckDuplicate,
      SettleDuplicate, Marks, TwinChanges, Evaluate, EndExecution, CreateExecution, afvars

\* A rule that has passed has no worse disposition for any invoice.
LEMMA PassedByAll ==
  ASSUME NEW facts, NEW r \in Rules, task.invoices # {}, Verdict(facts)[r] = "not_hit"
  PROVE  \E i \in task.invoices : Disposition(facts, i)[r] = "not_hit"
         /\ \A j \in task.invoices : Disposition(facts, j)[r] \notin {"hit", "missing"}
<1>1. PICK found : found = {Disposition(facts, i)[r] : i \in task.invoices}
  OBVIOUS
<1>2. found \subseteq {"hit", "missing", "not_hit", "not_applicable"}
  BY <1>1 DEF Disposition, Judged, Rules
<1>3. PICK I : I = {k \in 1..Len(Priority) : Priority[k] \in found}
  OBVIOUS
<1>4. Verdict(facts)[r] = Priority[IF I # {} THEN Min(I) ELSE 0]
  BY <1>1, <1>3 DEF Verdict, SelectInSeq
<1>5. /\ Len(Priority) = 4 /\ Priority[1] = "hit" /\ Priority[2] = "missing"
      /\ Priority[3] = "not_hit" /\ Priority[4] = "not_applicable"
  BY DEF Priority
<1>6. I # {}
  <2>1. PICK x \in found : TRUE
    BY <1>1
  <2>2. \E k \in 1..4 : Priority[k] = x
    BY <1>2, <1>5, <2>1
  <2> QED BY <1>3, <1>5, <2>1, <2>2
<1>7. Min(I) \in I /\ \A k \in I : Min(I) <= k
  <2>1. \E k \in I : \A l \in I : k <= l
    <3>1. I \subseteq 1..4
      BY <1>3, <1>5
    <3>2. CASE 1 \in I
      BY <3>1, <3>2
    <3>3. CASE 1 \notin I /\ 2 \in I
      BY <3>1, <3>3
    <3>4. CASE 1 \notin I /\ 2 \notin I /\ 3 \in I
      BY <3>1, <3>4
    <3>5. CASE 1 \notin I /\ 2 \notin I /\ 3 \notin I
      <4>1. \A l \in I : l = 4
        BY <3>1, <3>5
      <4>2. 4 \in I
        BY <1>6, <4>1
      <4>3. \A l \in I : 4 <= l
        BY <4>1
      <4> QED BY <4>2, <4>3
    <3> QED BY <3>2, <3>3, <3>4, <3>5
  <2> QED BY <2>1 DEF Min
<1>8. Min(I) = 3
  BY <1>3, <1>4, <1>5, <1>6, <1>7
<1>9. "not_hit" \in found /\ "hit" \notin found /\ "missing" \notin found
  <2>1. 1 \notin I /\ 2 \notin I /\ 3 \in I
    BY <1>7, <1>8
  <2> QED BY <1>3, <1>5, <2>1
<1> QED BY <1>1, <1>9

\* A passed rule on the contract is about a task with a contract, and its verdict is
\* what the frozen facts say.
LEMMA PassedMeans ==
  ASSUME AuditedTypes, NEW facts
  PROVE  /\ Verdict(facts)["RULE-003"] = "not_hit" =>
              task.contract /\ facts.fields["amount"] # Null
                /\ ~(Counted(facts.duplicates) > facts.fields["amount"])
         /\ Verdict(facts)["RULE-012"] = "not_hit" => task.contract /\ ~facts.unconfirmed
<1>1. task.invoices # {}
  BY DEF AuditedTypes
<1>2. ASSUME Verdict(facts)["RULE-003"] = "not_hit"
      PROVE  task.contract /\ facts.fields["amount"] # Null
               /\ ~(Counted(facts.duplicates) > facts.fields["amount"])
  <2>1. PICK i \in task.invoices : Disposition(facts, i)["RULE-003"] = "not_hit"
    BY <1>1, <1>2, PassedByAll DEF Rules
  <2> QED BY <2>1 DEF Disposition, Judged, Rules
<1>3. ASSUME Verdict(facts)["RULE-012"] = "not_hit" PROVE task.contract /\ ~facts.unconfirmed
  <2>1. PICK i \in task.invoices : Disposition(facts, i)["RULE-012"] = "not_hit"
    BY <1>1, <1>3, PassedByAll DEF Rules
  <2> QED BY <2>1 DEF Disposition, Judged, Rules
<1> QED BY <1>2, <1>3

\* What holds together gives VerdictsHold.
LEMMA VerdictsFollow ==
  AuditedTypes /\ SnapshotsHold /\ VerdictIsOfFacts /\ OnlyDraftsAreEmpty => VerdictsHold
<1> SUFFICES ASSUME AuditedTypes, SnapshotsHold, VerdictIsOfFacts, OnlyDraftsAreEmpty, Relied
             PROVE  VerdictsHold
  BY DEF VerdictsHold, Relied
<1>1. PICK facts : facts = execution.facts
  OBVIOUS
<1>2. PICK d : d = execution.baseline
  OBVIOUS
<1>3. /\ Freezable(d) /\ Frozen(d, facts.repeated) = facts /\ execution.verdict = Verdict(facts)
  BY <1>1, <1>2 DEF Relied, SnapshotsHold, VerdictIsOfFacts, Live, EndedByFacts, Unfinished
<1>4. d \in Nat
  <2>1. Dates \cup {0} \subseteq Nat
    BY AuditedFactsAssumption
  <2>2. execution.baseline \in Dates \cup {0}
    BY DEF AuditedTypes, ExecutionTyped
  <2> QED BY <1>2, <2>1, <2>2
<1>5. \A a \in Agreements : agreement[a] \in Agreement
  BY DEF AuditedTypes
<1>6. ASSUME task.contract
      PROVE  /\ facts.fields = Project(Rows(d)) /\ ~Ambiguous(Rows(d))
             /\ facts.duplicates = [i \in task.invoices |-> duplicate[i]]
             /\ facts.unconfirmed = \E a \in DOMAIN Rows(d) :
                  Rows(d)[a].changes # NoChanges /\ Rows(d)[a].status # "confirmed"
  <2>1. PICK rows : rows = Rows(d)
    OBVIOUS
  <2>2. PICK given : given = Project(rows)
    OBVIOUS
  <2> DEFINE undecided == \E a \in DOMAIN rows :
                            rows[a].changes # NoChanges /\ rows[a].status # "confirmed"
  <2>3. facts = [fields      |-> given,
                 applied     |-> InForce(rows),
                 unconfirmed |-> undecided,
                 duplicates  |-> [i \in task.invoices |-> duplicate[i]],
                 repeated    |-> facts.repeated]
    BY <1>3, <1>6, <2>1, <2>2 DEF Frozen
  <2> HIDE DEF undecided
  <2>4. facts.fields = given
    BY ONLY <2>3
  <2>5. facts.duplicates = [i \in task.invoices |-> duplicate[i]]
    BY ONLY <2>3
  <2>6. facts.unconfirmed = undecided
    BY ONLY <2>3
  <2>7. ~Ambiguous(Rows(d))
    BY <1>3, <1>6 DEF Freezable
  <2> QED BY <2>1, <2>2, <2>4, <2>5, <2>6, <2>7 DEF undecided
<1>7. ASSUME execution.verdict["RULE-003"] = "not_hit"
      PROVE  Cardinality({i \in task.invoices : duplicate[i] # "confirmed_duplicate"})
               <= AgreedAmount(d)
  <2>1. /\ task.contract /\ facts.fields["amount"] # Null
        /\ ~(Counted(facts.duplicates) > facts.fields["amount"])
    BY <1>3, <1>7, PassedMeans
  <2>2. PICK S : S = {i \in task.invoices : duplicate[i] # "confirmed_duplicate"}
    OBVIOUS
  <2>3. Counted(facts.duplicates) = Cardinality(S)
    BY <1>6, <2>1, <2>2 DEF Counted
  <2>4. Cardinality(S) \in Nat
    <3>1. S \in SUBSET Invoices
      BY <2>2 DEF AuditedTypes
    <3> QED BY <3>1, AuditedFactsAssumption, FS_Subset, FS_CardinalityType
  <2>5. facts.fields["amount"] = AgreedAmount(d)
    BY <1>4, <1>6, <2>1, AmountIsAgreed
  <2>6. AgreedAmount(d) \in Nat \cup {Null}
    BY <1>4, <1>6, <2>1, AmountType
  <2>7. Cardinality(S) <= AgreedAmount(d)
    BY <2>1, <2>3, <2>4, <2>5, <2>6
  <2> QED BY <2>2, <2>7
<1>8. ASSUME execution.verdict["RULE-012"] = "not_hit",
             NEW a \in Agreements, agreement[a].date <= d
      PROVE  agreement[a].status \in {"draft", "confirmed"}
  <2>1. task.contract /\ ~facts.unconfirmed
    BY <1>3, <1>8, PassedMeans
  <2>2. a \in DOMAIN Rows(d) /\ Rows(d)[a] = agreement[a]
    BY <1>8 DEF Rows
  <2>3. agreement[a].changes = NoChanges \/ agreement[a].status = "confirmed"
    BY <1>6, <2>1, <2>2
  <2> QED BY <2>3 DEF OnlyDraftsAreEmpty
<1> QED BY <1>2, <1>7, <1>8 DEF VerdictsHold

\* An execution under review or completed whose limit rule and agreement rule have
\* passed is right now, whatever was decided meanwhile (_evaluate_rule_statuses on
\* the snapshot, project_effective_fields, _outdate_current_executions).
THEOREM VerdictsStayTrue == AuditedSpec => []VerdictsHold
<1>1. AuditedInit => VerdictIsOfFacts /\ OnlyDraftsAreEmpty
  BY DEF AuditedInit, VerdictIsOfFacts, Relied, OnlyDraftsAreEmpty
<1> QED
  BY <1>1, AuditedInitially, AuditedTypesInductive, SnapshotsInductive, VerdictsInductive,
     DraftsInductive, VerdictsFollow, PTL DEF AuditedSpec
=============================================================================
