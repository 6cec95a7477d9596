--------------------------- MODULE FinancialFacts ---------------------------
(***************************************************************************)
(* The contracts or the invoices of an organization: their extraction from *)
(* a parsed file (services/contract_extraction_executor.py and             *)
(* invoice_extraction_executor.py), the correction and decision of their   *)
(* facts (services/contract_management.py, invoice_management.py), the     *)
(* duplicates of invoices, the suppliers made from them                    *)
(* (services/supplier_management.py), and one client whose requests carry  *)
(* an idempotency key and the row_version it has read                      *)
(* (repositories/user_write.py).                                           *)
(*                                                                         *)
(* Each write is one step here: requests take turns by the row of their    *)
(* organization, and facts are written under an advisory lock, which an    *)
(* extraction takes alone (no supplier has to do with its new row).        *)
(* Beside the one client any number of users write; what they send they    *)
(* have just read.  A source is a file and the row made from it; the facts *)
(* are its number (code and number of an invoice, number of a contract)    *)
(* and the tax number of its supplier.  row_version is not counted: each   *)
(* write of a row makes what the client has read of it stale.  An executor *)
(* that has lost its lease is not here: finish_job rolls it back.          *)
(***************************************************************************)
EXTENDS Naturals, FiniteSets

CONSTANTS
  Sources,         \* the files with a contract, or an invoice, to extract
  Suppliers,       \* rows of suppliers that are candidates or active
  Numbers,         \* numbers of contracts or invoices
  Taxes,           \* tax numbers
  None,            \* NULL
  MaxAttempts      \* async_jobs.max_attempts of an extraction

ASSUME FinancialAssumption ==
  /\ None \notin Sources \cup Suppliers \cup Numbers \cup Taxes
  /\ MaxAttempts \in Nat \ {0}

VARIABLES
  kind,        \* what the sources are: "contract" or "invoice"
  row,         \* the contract or invoice of each source
  supplier,    \* the suppliers
  usable,      \* sources whose extracted parse version is neither superseded nor archived
  job,         \* the extraction job of each source
  asked,       \* the sources with a message for their queued job
  client       \* the client that reads, sends, and sends again

runs   == <<usable, job, asked>>
vars   == <<kind, row, supplier, runs, client>>

Row == [decision : {"absent", "unconfirmed", "rejected", "confirmed"},
        number : Numbers \cup {None}, tax : Taxes \cup {None},
        duplicate : {"not_checked", "unique", "suspected", "decided"},
        supplier : Suppliers \cup {None}]
NoRow == [decision |-> "absent", number |-> None, tax |-> None,
          duplicate |-> "not_checked", supplier |-> None]
Supplier == [status : {"absent", "candidate", "active"}, tax : Taxes \cup {None},
             source : Sources \cup {None}]
NoSupplier == [status |-> "absent", tax |-> None, source |-> None]
Job == [status : {"queued", "running", "succeeded", "failed"}, attempt : 0..MaxAttempts]
Client == [pc : {"idle", "read", "unsure", "done"}, source : Sources \cup {None},
           seen : Row, stale : BOOLEAN, key : BOOLEAN, effects : 0..2]

Exists(s) == row[s].decision # "absent"

\* exact_duplicate_ids, contract_no_exists.
Twins(s, r) ==
  {t \in Sources \ {s} :
     /\ Exists(t) /\ r.number # None /\ row[t].number = r.number
     /\ kind = "invoice" => r.tax # None /\ row[t].tax = r.tax}

\* _derived_duplicate_status.
Derived(s, r) ==
  IF kind = "contract" \/ r.number = None \/ r.tax = None THEN "not_checked"
  ELSE IF Twins(s, r) # {} THEN "suspected" ELSE "unique"

Checked(s, r) == [r EXCEPT !.duplicate = Derived(s, r)]

\* The write of a row, with its row_version.
Sets(s, r) == row' = [row EXCEPT ![s] = r]
Writes(s, r) ==
  /\ Sets(s, r)
  /\ client' = [client EXCEPT !.stale = @ \/ s = client.source]

-----------------------------------------------------------------------------
(******************************* Extraction *******************************)

JobEnds(s, o) == job' = [job EXCEPT ![s].status = o]
JobStarts(s)  == job' = [job EXCEPT ![s] = [status |-> "running", attempt |-> @.attempt + 1]]

\* claim_job; where the parse version is gone the message is consumed and the
\* job stays queued.
ClaimExtraction(s) ==
  /\ s \in asked
  /\ asked' = asked \ {s}
  /\ IF s \in usable THEN JobStarts(s) ELSE UNCHANGED job
  /\ UNCHANGED <<kind, row, supplier, usable, client>>

\* What the extraction found, as it is stored: a contract does not get a
\* number that another one has.
Stored(s, n, t) ==
  LET r == [NoRow EXCEPT !.decision = "unconfirmed", !.number = n, !.tax = t] IN
  IF kind = "contract" /\ Twins(s, r) # {} THEN [r EXCEPT !.number = None] ELSE Checked(s, r)

\* _execute_transaction: row, binding of the file and finish_job.
Persist(s) ==
  /\ job[s].status = "running" /\ s \in usable
  /\ \E n \in Numbers \cup {None}, t \in Taxes \cup {None} : Writes(s, Stored(s, n, t))
  /\ JobEnds(s, "succeeded")
  /\ UNCHANGED <<kind, supplier, usable, asked>>

\* _fail: the source is gone, or the AI call has failed.  There is no retry.
FailExtraction(s) ==
  /\ job[s].status = "running"
  /\ JobEnds(s, "failed")
  /\ UNCHANGED <<kind, row, supplier, usable, asked, client>>

\* Faulty variant: nothing ends the job after its last attempt.
RecoverOnlyClaims(s) ==
  /\ job[s].status = "running" /\ s \in usable
  /\ job[s].attempt < MaxAttempts /\ JobStarts(s)
  /\ UNCHANGED <<kind, row, supplier, usable, asked, client>>

\* The lease runs out, as no heartbeat keeps it, and recover_expired_file_job
\* finds it; for a source that is gone it says "stale" for ever.
RecoverExtraction(s) ==
  /\ job[s].status = "running" /\ s \in usable
  /\ IF job[s].attempt < MaxAttempts THEN JobStarts(s) ELSE JobEnds(s, "failed")
  /\ UNCHANGED <<kind, row, supplier, usable, asked, client>>

\* Another parse version gets active, or the file is archived.
LosesParse(s) ==
  /\ s \in usable /\ job[s].status \in {"queued", "running"}
  /\ usable' = usable \ {s}
  /\ UNCHANGED <<kind, row, supplier, job, asked, client>>

-----------------------------------------------------------------------------
(************************** Facts and decisions ***************************)

Correctable(s) == Exists(s) /\ row[s].decision \in {"unconfirmed", "rejected"}
Corrected(s, n, t) ==
  [row[s] EXCEPT !.number = n, !.tax = t, !.decision = "unconfirmed"]

\* Faulty variant: the duplicate status is left as it was.
ReplaceFactsUnchecked(s) ==
  /\ Correctable(s)
  /\ \E n \in Numbers \cup {None}, t \in Taxes \cup {None} :
       LET r == Corrected(s, n, t) IN
       /\ kind = "contract" => Twins(s, r) = {}
       /\ r # row[s]
       /\ Writes(s, r)
  /\ UNCHANGED <<kind, supplier, runs>>

\* replace_facts.
ReplaceFacts(s) ==
  /\ Correctable(s)
  /\ \E n \in Numbers \cup {None}, t \in Taxes \cup {None} :
       LET r == Corrected(s, n, t) IN
       /\ kind = "contract" => Twins(s, r) = {}
       /\ Checked(s, r) # row[s]
       /\ Writes(s, Checked(s, r))
  /\ UNCHANGED <<kind, supplier, runs>>

\* decide: only complete facts are confirmed.
Decidable(s, d) ==
  /\ Exists(s) /\ row[s].decision = "unconfirmed"
  /\ d = "confirmed" => row[s].number # None /\ row[s].tax # None
Decide(s) ==
  /\ \E d \in {"confirmed", "rejected"} :
       Decidable(s, d) /\ Writes(s, [row[s] EXCEPT !.decision = d])
  /\ UNCHANGED <<kind, supplier, runs>>

\* check_duplicate: what a user has decided is not checked again.
CheckDuplicate(s) ==
  /\ kind = "invoice" /\ Exists(s)
  /\ row[s].duplicate # "decided"
  /\ Derived(s, row[s]) # row[s].duplicate
  /\ Writes(s, Checked(s, row[s]))
  /\ UNCHANGED <<kind, supplier, runs>>

\* decide_duplicate: a duplicate or an approved exception, of which the other
\* can follow; there must be an exact duplicate to decide about.
DecideDuplicate(s) ==
  /\ kind = "invoice" /\ Exists(s) /\ Twins(s, row[s]) # {}
  /\ Writes(s, [row[s] EXCEPT !.duplicate = "decided"])
  /\ UNCHANGED <<kind, supplier, runs>>

-----------------------------------------------------------------------------
(******************************* Suppliers ********************************)

ActiveWith(t) == {p \in Suppliers : supplier[p].status = "active" /\ supplier[p].tax = t}
OpenFor(s)    == {p \in Suppliers : supplier[p].status = "candidate" /\ supplier[p].source = s}
Binds(s, p)   == Writes(s, [row[s] EXCEPT !.supplier = p])
Becomes(p, r) == supplier' = [supplier EXCEPT ![p] = r]

\* resolve_source of a source without supplier and candidate: it is bound to
\* the active supplier of its tax number, or gets a candidate.
ResolveSource(s) ==
  /\ row[s].decision = "confirmed" /\ row[s].supplier = None /\ OpenFor(s) = {}
  /\ \/ \E p \in ActiveWith(row[s].tax) : Binds(s, p) /\ UNCHANGED supplier
     \/ /\ ActiveWith(row[s].tax) = {}
        /\ \E p \in Suppliers :
             /\ supplier[p].status = "absent"
             /\ Becomes(p, [status |-> "candidate", tax |-> row[s].tax, source |-> s])
        /\ UNCHANGED <<row, client>>
  /\ UNCHANGED <<kind, runs>>

\* update_candidate without a decision, or a rejection; nothing reads an
\* inactive supplier again.
EditCandidate(p) ==
  /\ supplier[p].status = "candidate" /\ row[supplier[p].source].supplier = None
  /\ \/ \E t \in Taxes \ {supplier[p].tax} : Becomes(p, [supplier[p] EXCEPT !.tax = t])
     \/ Becomes(p, NoSupplier)
  /\ UNCHANGED <<kind, row, runs, client>>

\* Faulty variant: the tax number is the one the candidate was given.
ConfirmCandidateAsEdited(p) ==
  LET s == supplier[p].source
      others == ActiveWith(supplier[p].tax) IN
  /\ supplier[p].status = "candidate" /\ row[s].supplier = None
  /\ IF others = {} THEN Becomes(p, [supplier[p] EXCEPT !.status = "active"]) /\ Binds(s, p)
     ELSE Becomes(p, NoSupplier) /\ \E q \in others : Binds(s, q)
  /\ UNCHANGED <<kind, runs>>

\* update_candidate, confirmed, with the tax number of the source: an active
\* supplier of that number takes the place of the candidate.
ConfirmCandidate(p) ==
  LET s == supplier[p].source
      others == ActiveWith(row[s].tax) IN
  /\ supplier[p].status = "candidate"
  /\ row[s].decision = "confirmed" /\ row[s].supplier = None
  /\ IF others = {}
       THEN Becomes(p, [supplier[p] EXCEPT !.status = "active", !.tax = row[s].tax]) /\ Binds(s, p)
       ELSE Becomes(p, NoSupplier) /\ \E q \in others : Binds(s, q)
  /\ UNCHANGED <<kind, runs>>

-----------------------------------------------------------------------------
(***************************** The one client *****************************)

\* It reads a row that it could confirm.
Read(s) ==
  /\ client.pc = "idle" /\ Decidable(s, "confirmed")
  /\ client' = [client EXCEPT !.pc = "read", !.source = s, !.seen = row[s]]
  /\ UNCHANGED <<kind, row, supplier, runs>>

\* The reply reaches the client, or it will send the same request again.
Answered(c) == \E pc \in {"done", "unsure"} : client' = [c EXCEPT !.pc = pc]

\* Faulty variant: the row_version of the request is not compared.
ConfirmUnversioned ==
  /\ client.pc \in {"read", "unsure"}
  /\ LET s == client.source IN
     IF ~client.key /\ Decidable(s, "confirmed")
       THEN /\ Sets(s, [row[s] EXCEPT !.decision = "confirmed"])
            /\ Answered([client EXCEPT !.key = TRUE, !.stale = TRUE, !.effects = @ + 1])
       ELSE Answered(client) /\ UNCHANGED row
  /\ UNCHANGED <<kind, supplier, runs>>

\* claim_idempotency, _lock_mutable and decide: a replay, a conflict, or the
\* confirmation of the facts the client has read.
Confirm ==
  /\ client.pc \in {"read", "unsure"}
  /\ LET s == client.source IN
     IF ~client.key /\ ~client.stale /\ Decidable(s, "confirmed")
       THEN /\ Sets(s, [row[s] EXCEPT !.decision = "confirmed"])
            /\ Answered([client EXCEPT !.key = TRUE, !.stale = TRUE, !.effects = @ + 1])
       ELSE Answered(client) /\ UNCHANGED row
  /\ UNCHANGED <<kind, supplier, runs>>

\* After _IDEMPOTENCY_TTL the record is as good as absent.
KeyExpires ==
  /\ client.key
  /\ client' = [client EXCEPT !.key = FALSE]
  /\ UNCHANGED <<kind, row, supplier, runs>>

-----------------------------------------------------------------------------
Init ==
  /\ kind \in {"contract", "invoice"}
  /\ row = [s \in Sources |-> NoRow]
  /\ supplier = [p \in Suppliers |-> NoSupplier]
  /\ usable = Sources
  /\ job = [s \in Sources |-> [status |-> "queued", attempt |-> 0]]
  /\ asked = Sources
  /\ client = [pc |-> "idle", source |-> None, seen |-> NoRow, stale |-> FALSE,
               key |-> FALSE, effects |-> 0]

Extraction(s) ==
  ClaimExtraction(s) \/ Persist(s) \/ FailExtraction(s) \/ RecoverExtraction(s) \/ LosesParse(s)
Users ==
  \/ \E s \in Sources :
       ReplaceFacts(s) \/ Decide(s) \/ CheckDuplicate(s) \/ DecideDuplicate(s) \/ ResolveSource(s)
  \/ \E p \in Suppliers : EditCandidate(p) \/ ConfirmCandidate(p)
Requests == Confirm \/ KeyExpires \/ \E s \in Sources : Read(s)

Next == Users \/ Requests \/ \E s \in Sources : Extraction(s)
Spec == Init /\ [][Next]_vars

(***************************************************************************)
(* Fairness: messages are delivered, and leases run out and maintenance    *)
(* comes back to what it can recover.  Executors and users owe nothing.    *)
(***************************************************************************)
FairSpec ==
  /\ Spec
  /\ \A s \in Sources : WF_vars(ClaimExtraction(s)) /\ WF_vars(RecoverExtraction(s))

-----------------------------------------------------------------------------
(******************************* Properties *******************************)

\* Every variable stays within the values its columns allow.
TypeOK ==
  /\ kind \in {"contract", "invoice"}
  /\ row \in [Sources -> Row]
  /\ supplier \in [Suppliers -> Supplier]
  /\ usable \subseteq Sources /\ asked \subseteq Sources
  /\ job \in [Sources -> Job]
  /\ client \in Client

\* Of the invoices with one identity at most one passes as unique, in whatever
\* order they are extracted, corrected and checked; contracts share no number.
TwinsAreSeen ==
  \A s \in Sources : \A t \in Twins(s, row[s]) :
    kind = "invoice" /\ ~(row[s].duplicate = "unique" /\ row[t].duplicate = "unique")

\* A source is bound to the one active supplier of its own tax number, however
\* the candidates of several sources were edited and confirmed.
BoundToOwnTax ==
  /\ \A t \in Taxes : Cardinality(ActiveWith(t)) <= 1
  /\ \A s \in Sources : row[s].supplier # None =>
       row[s].decision = "confirmed" /\ row[s].supplier \in ActiveWith(row[s].tax)

\* A client confirms what it has read, and once, whether it sends its request
\* again before or after the idempotency record has expired.
DecidedAsRead ==
  [][client'.effects # client.effects =>
       client.effects = 0 /\ row[client.source] = client.seen]_vars

\* Nothing will ever end the job: its parse version was gone when the message
\* came, or when the lost attempt was to be recovered.
Stranded(s) ==
  /\ s \notin usable
  /\ job[s].status = "queued" => s \notin asked

\* Every extraction ends, but for the stranded ones.
ExtractionSettles ==
  \A s \in Sources :
    job[s].status \in {"queued", "running"} ~>
      job[s].status \in {"succeeded", "failed"} \/ Stranded(s)
=============================================================================
