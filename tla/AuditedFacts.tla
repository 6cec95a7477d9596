---------------------------- MODULE AuditedFacts ----------------------------
(***************************************************************************)
(* What an audit rests on, and how it ends when that changes: one contract *)
(* with its supplementary agreements                                       *)
(* (services/supplementary_agreement_management.py), the relations of its  *)
(* invoices to contracts (services/contract_invoice_management.py), the    *)
(* duplicates of the invoices (services/invoice_management.py), and an     *)
(* audit task over them, whose executions freeze the facts of a baseline   *)
(* date (services/audit_management.py) and evaluate rules on what is       *)
(* frozen (audit/snapshot.py).                                             *)
(*                                                                         *)
(* Every write locks the row of the organization, so it is one step here;  *)
(* requests and their keys are as in FinancialFacts, jobs and reviews as   *)
(* in AuditExecution.  Contract and invoices are confirmed, so that        *)
(* nothing else of them changes; each invoice has the total 1.             *)
(***************************************************************************)
EXTENDS Naturals, FiniteSets, SequencesExt

CONSTANTS
  Agreements,    \* supplementary agreements of the contract
  Invoices,      \* invoices
  Contracts,     \* contracts that invoices may be linked to
  TheContract,   \* the one that is audited, and that has the agreements
  Links,         \* rows of contract_invoices
  Dates,         \* effective dates of agreements, baseline dates
  Payloads,      \* the changes an agreement can make: functions of some fields
  Original,      \* the fields of the contract as it was confirmed
  Start,         \* its effective_date
  InvoiceDate,   \* invoice_date of the invoices
  Null           \* a value that is not there

Fields == {"amount", "expiry"}    \* expiry: expiry_date

ASSUME AuditedFactsAssumption ==
  /\ TheContract \in Contracts
  /\ Dates \subseteq Nat /\ Start \in Nat /\ InvoiceDate \in Nat
  /\ IsFiniteSet(Agreements) /\ IsFiniteSet(Invoices)
  /\ Original \in [Fields -> Nat \cup {Null}] /\ Null \notin Nat
  /\ \A p \in Payloads :
       DOMAIN p \subseteq Fields /\ DOMAIN p # {} /\ \A f \in DOMAIN p : p[f] \in Nat \cup {Null}

VARIABLES
  agreement,   \* supplementary_agreements with their changes
  link,        \* contract_invoices
  duplicate,   \* duplicate_status of each invoice
  twinned,     \* invoices whose identity an invoice that is not voided has too
  task,        \* whether the task names the contract, and its invoices
  execution    \* the current execution of the task

afvars == <<agreement, link, duplicate, twinned, task, execution>>

NoChanges == [f \in {} |-> Null]
NoFacts   == [fields |-> Original, applied |-> {}, unconfirmed |-> FALSE,
              duplicates |-> NoChanges, repeated |-> {}]
Rules     == {"RULE-003", "RULE-004", "RULE-005", "RULE-010", "RULE-012"}
NoVerdict == [r \in Rules |-> "not_applicable"]

DuplicateStatus == {"unique", "suspected", "confirmed_duplicate", "exception_approved"}
ExecutionStatus ==
  {"absent", "queued", "pending_review", "returned_for_correction", "completed",
   "failed", "cancelled", "outdated"}
Unfinished == {"queued", "pending_review"}
EndedByFacts == Unfinished \cup {"failed", "completed"}   \* outdatable

-----------------------------------------------------------------------------
(*************************** Effective fields *****************************)

\* The agreements that a projection to the date d reads.
Rows(d) ==
  [a \in {b \in Agreements : agreement[b].date <= d} |-> agreement[a]]

\* is_supplementary_change_effective.
InForce(rows) == {a \in DOMAIN rows : rows[a].status = "confirmed"}

\* EFFECTIVE_FIELD_CONFLICT.
Ambiguous(rows) ==
  \E a, b \in InForce(rows) :
    /\ a # b /\ rows[a].date = rows[b].date
    /\ DOMAIN rows[a].changes \cap DOMAIN rows[b].changes # {}

Overwritten(values, changes) ==
  [f \in Fields |-> IF f \in DOMAIN changes THEN changes[f] ELSE values[f]]

\* One of a set of agreements that no other of them takes effect after.
Latest(rows, A) == CHOOSE a \in A : \A b \in A : rows[b].date <= rows[a].date

\* Faulty variant: what takes effect first is applied last.
Earliest(rows, A) == CHOOSE a \in A : \A b \in A : rows[a].date <= rows[b].date
ProjectBackwards(rows) ==
  MapThenFoldSet(LAMBDA changes, values : Overwritten(values, changes), Original,
                 LAMBDA a : rows[a].changes, LAMBDA A : Earliest(rows, A), InForce(rows))

\* project_effective_fields: the changes in force, applied by date.  Agreements of
\* one date change different fields, so that their order does not matter.
Project(rows) ==
  MapThenFoldSet(LAMBDA changes, values : Overwritten(values, changes), Original,
                 LAMBDA a : rows[a].changes, LAMBDA A : Latest(rows, A), InForce(rows))

\* The dates of the contract as OfflineAuditFacts and ContractMatchFacts take them.
InOrder(fields) == fields["expiry"] # Null => Start <= fields["expiry"]

-----------------------------------------------------------------------------
(********************* What is frozen, and its verdict ********************)

\* _build_snapshot; it raises a conflict where the projection is ambiguous.
\* repeated: the invoices that has_exact_duplicate finds.  The row versions of the
\* invoices are not here: a suggestion counts one up, and ends no execution.
Repeated     == task.invoices \cap twinned
Freezable(d) == task.contract => ~Ambiguous(Rows(d))
Frozen(d, repeated) ==
  LET rows == IF task.contract THEN Rows(d) ELSE NoChanges IN
  [fields      |-> Project(rows),
   applied     |-> InForce(rows),
   unconfirmed |-> \E a \in DOMAIN rows :
                     rows[a].changes # NoChanges /\ rows[a].status # "confirmed",
   duplicates  |-> [i \in task.invoices |-> duplicate[i]],
   repeated    |-> repeated]

\* cumulative_invoice_total.
Counted(duplicates) ==
  Cardinality({i \in DOMAIN duplicates : duplicates[i] # "confirmed_duplicate"})

Judged(hit) == IF hit THEN "hit" ELSE "not_hit"

\* _evaluate_rule_statuses and _disposition for one invoice.
Disposition(facts, i) ==
  LET amount == facts.fields["amount"]
      expiry == facts.fields["expiry"]
      Contractual(missing, hit) ==
        IF ~task.contract THEN "not_applicable"
        ELSE IF missing THEN "missing" ELSE Judged(hit) IN
  [r \in Rules |->
     CASE r = "RULE-003" -> Contractual(amount = Null, Counted(facts.duplicates) > amount)
       [] r = "RULE-004" -> Contractual(expiry = Null, InvoiceDate \notin Start..expiry)
       [] r = "RULE-005" -> Judged(i \in facts.repeated)
       [] r = "RULE-010" -> Judged(~task.contract)
       [] r = "RULE-012" -> Contractual(FALSE, facts.unconfirmed)]

Priority == <<"hit", "missing", "not_hit", "not_applicable">>

\* build_aggregate_audit_preview: of the invoices the worst disposition.
Verdict(facts) ==
  [r \in Rules |->
     LET found == {Disposition(facts, i)[r] : i \in task.invoices} IN
     Priority[SelectInSeq(Priority, LAMBDA d : d \in found)]]

-----------------------------------------------------------------------------
(************************ Ending what has changed *************************)

\* History variable of the links: the primary contracts of the audited invoices.
Primary(i) == {l \in Links : link[l].invoice = i /\ link[l].status = "confirmed_primary"}
Primaries  == [i \in task.invoices |-> {link[l].contract : l \in Primary(i)}]

\* What is closed is not read again.
Closed(status) ==
  [execution EXCEPT !.status = status, !.facts = NoFacts, !.verdict = NoVerdict,
                    !.primaries = NoChanges]

\* _outdate_current_executions, of those that the change reaches.
Outdate(reached) ==
  execution' = IF reached /\ execution.status \in EndedByFacts
                 THEN Closed("outdated") ELSE execution

\* outdate_current_executions_for_invoice.
OutdateOfInvoice(i) == Outdate(i \in task.invoices)

\* Faulty variant: an agreement of the baseline date itself is let pass.
OutdateAfterDate(a) == Outdate(task.contract /\ execution.baseline > agreement[a].date)

\* outdate_current_executions_for_contract, effective_from the agreement's date.
OutdateFromDate(a) == Outdate(task.contract /\ execution.baseline >= agreement[a].date)

-----------------------------------------------------------------------------
(************************ Supplementary agreements ************************)

\* replace_changes.  The old values that it computes, and that may not be
\* ambiguous, are not here: the same changes may be sent again when these differ.
ReplaceChanges(a) ==
  /\ agreement[a].status \in {"draft", "pending_confirmation"}
  /\ ~Ambiguous([b \in DOMAIN Rows(agreement[a].date) \ {a} |-> agreement[b]])
  /\ \E p \in Payloads :
       agreement' = [agreement EXCEPT ![a] =
         [date |-> @.date, status |-> "pending_confirmation", changes |-> p]]
  /\ OutdateFromDate(a)
  /\ UNCHANGED <<link, duplicate, twinned, task>>

\* decide.  That a confirmation needs evidence for every change is left to the
\* user; whether the agreement conflicts with another one is not looked at.
DecideAgreement(a) ==
  /\ agreement[a].status = "pending_confirmation"
  /\ \E d \in {"confirmed", "rejected"} : agreement' = [agreement EXCEPT ![a].status = d]
  /\ OutdateFromDate(a)
  /\ UNCHANGED <<link, duplicate, twinned, task>>

-----------------------------------------------------------------------------
(********************* Links of invoices to contracts *********************)

\* _candidate_for_contract: the projection of the contract to the invoice date
\* must exist, with its dates in order; the other contracts have no agreements.
Matchable(c) ==
  c = TheContract =>
    LET rows == Rows(InvoiceDate) IN ~Ambiguous(rows) /\ InOrder(Project(rows))

\* _suggest: the pair has no relation yet that is not cancelled.
Suggest(l, c, i) ==
  /\ link[l].status = "absent"
  /\ ~\E k \in Links : link[k].contract = c /\ link[k].invoice = i
                       /\ link[k].status \notin {"absent", "cancelled"}
  /\ Matchable(c)
  /\ link' = [link EXCEPT ![l] = [status |-> "suggested", contract |-> c, invoice |-> i]]
  /\ UNCHANGED <<agreement, duplicate, twinned, task, execution>>

\* Faulty variant: the previous primary contract stays.
SetPrimaryBeside(l) ==
  /\ link[l].status = "suggested"
  /\ link' = [link EXCEPT ![l].status = "confirmed_primary"]
  /\ OutdateOfInvoice(link[l].invoice)
  /\ UNCHANGED <<agreement, duplicate, twinned, task>>

\* _set_primary: it takes the place of the previous primary contract.
SetPrimary(l) ==
  /\ link[l].status = "suggested"
  /\ link' = [k \in Links |->
                IF k = l THEN [link[k] EXCEPT !.status = "confirmed_primary"]
                ELSE IF k \in Primary(link[l].invoice) THEN [link[k] EXCEPT !.status = "cancelled"]
                ELSE link[k]]
  /\ OutdateOfInvoice(link[l].invoice)
  /\ UNCHANGED <<agreement, duplicate, twinned, task>>

\* cancel_primary.
CancelPrimary(l) ==
  /\ link[l].status = "confirmed_primary"
  /\ link' = [link EXCEPT ![l].status = "cancelled"]
  /\ OutdateOfInvoice(link[l].invoice)
  /\ UNCHANGED <<agreement, duplicate, twinned, task>>

-----------------------------------------------------------------------------
(************************* Duplicates of invoices *************************)

Marks(i, status) ==
  /\ status # duplicate[i]
  /\ duplicate' = [duplicate EXCEPT ![i] = status]
  /\ OutdateOfInvoice(i)
  /\ UNCHANGED <<agreement, link, twinned, task>>

\* check_duplicate.
RecheckDuplicate(i) ==
  /\ duplicate[i] \in {"unique", "suspected"}
  /\ Marks(i, IF i \in twinned THEN "suspected" ELSE "unique")

\* decide_duplicate.
SettleDuplicate(i) ==
  /\ i \in twinned
  /\ \E d \in {"confirmed_duplicate", "exception_approved"} : Marks(i, d)

\* Another invoice is extracted with the identity, gets it by a correction or
\* loses it: that ends no execution of this one.
TwinChanges(i) ==
  /\ twinned' = IF i \in twinned THEN twinned \ {i} ELSE twinned \cup {i}
  /\ UNCHANGED <<agreement, link, duplicate, task, execution>>

-----------------------------------------------------------------------------
(****************************** Executions ********************************)

\* create_task, create_execution: _freeze_and_queue.
CreateExecution(d) ==
  /\ execution.status \notin Unfinished
  /\ Freezable(d)
  /\ execution' = [status |-> "queued", baseline |-> d, facts |-> Frozen(d, Repeated),
                   verdict |-> NoVerdict, primaries |-> Primaries]
  /\ UNCHANGED <<agreement, link, duplicate, twinned, task>>

\* The executor evaluates the snapshot; with its dates out of order it fails.
Evaluate ==
  /\ execution.status = "queued"
  /\ execution' =
       IF task.contract /\ ~InOrder(execution.facts.fields)
         THEN [execution EXCEPT !.status = "failed"]
         ELSE [execution EXCEPT !.status = "pending_review",
                                !.verdict = Verdict(execution.facts)]
  /\ UNCHANGED <<agreement, link, duplicate, twinned, task>>

\* The reviewers complete or return it, or it is cancelled.
EndExecution ==
  /\ execution.status \in Unfinished
  /\ \/ execution.status = "pending_review"
        /\ execution' = [execution EXCEPT !.status = "completed"]
     \/ execution.status = "pending_review" /\ execution' = Closed("returned_for_correction")
     \/ execution' = Closed("cancelled")
  /\ UNCHANGED <<agreement, link, duplicate, twinned, task>>

-----------------------------------------------------------------------------
AuditedInit ==
  /\ agreement \in [Agreements -> [date : Dates, status : {"draft"}, changes : {NoChanges}]]
  /\ link = [l \in Links |-> [status |-> "absent", contract |-> Null, invoice |-> Null]]
  /\ duplicate = [i \in Invoices |-> "unique"]
  /\ twinned = {}
  /\ task \in [contract : BOOLEAN, invoices : (SUBSET Invoices) \ {{}}]
  /\ execution = [status |-> "absent", baseline |-> 0, facts |-> NoFacts,
                  verdict |-> NoVerdict, primaries |-> NoChanges]

FactsChange ==
  \/ \E a \in Agreements : ReplaceChanges(a) \/ DecideAgreement(a)
  \/ \E l \in Links : SetPrimary(l) \/ CancelPrimary(l)
  \/ \E l \in Links, c \in Contracts, i \in Invoices : Suggest(l, c, i)
  \/ \E i \in Invoices : RecheckDuplicate(i) \/ SettleDuplicate(i) \/ TwinChanges(i)

AuditedNext == FactsChange \/ Evaluate \/ EndExecution \/ \E d \in Dates : CreateExecution(d)

AuditedSpec == AuditedInit /\ [][AuditedNext]_afvars

-----------------------------------------------------------------------------
(******************************* Properties *******************************)

Live == execution.status \in EndedByFacts

\* Every variable stays within the values its columns allow.
AuditedTypeOK ==
  /\ agreement \in [Agreements ->
       [date : Dates, status : {"draft", "pending_confirmation", "confirmed", "rejected"},
        changes : Payloads \cup {NoChanges}]]
  /\ link \in [Links ->
       [status : {"absent", "suggested", "confirmed_primary", "cancelled"},
        contract : Contracts \cup {Null}, invoice : Invoices \cup {Null}]]
  /\ duplicate \in [Invoices -> DuplicateStatus]
  /\ twinned \subseteq Invoices
  /\ task \in [contract : BOOLEAN, invoices : (SUBSET Invoices) \ {{}}]
  /\ execution.status \in ExecutionStatus
  /\ execution.baseline \in Dates \cup {0}

\* Whatever agreement, duplicate or link is decided while an execution waits, is
\* reviewed or relied on: it could be frozen again now, the snapshot would be
\* the same but for the twins, and the invoices have the same primary contracts.
SnapshotsHold ==
  Live =>
    /\ Freezable(execution.baseline)
    /\ Frozen(execution.baseline, execution.facts.repeated) = execution.facts
    /\ Primaries = execution.primaries

\* The amount that counts at the baseline date: that of the last confirmed
\* agreement that changes it, or of the contract.
AgreedAmount(d) ==
  LET changed == {a \in Agreements : agreement[a].status = "confirmed"
                    /\ agreement[a].date <= d /\ "amount" \in DOMAIN agreement[a].changes} IN
  IF changed = {} THEN Original["amount"]
  ELSE LET last == CHOOSE a \in changed : \A b \in changed : agreement[b].date <= agreement[a].date
       IN agreement[last].changes["amount"]

\* An audit under review or completed whose limit rule and agreement rule have
\* passed is right now: the audited invoices that are no confirmed duplicates
\* do not exceed the agreed amount, and no agreement in its time is undecided
\* or rejected.
VerdictsHold ==
  execution.status \in {"pending_review", "completed"} =>
    /\ execution.verdict["RULE-003"] = "not_hit" =>
         Cardinality({i \in task.invoices : duplicate[i] # "confirmed_duplicate"})
           <= AgreedAmount(execution.baseline)
    /\ execution.verdict["RULE-012"] = "not_hit" =>
         \A a \in Agreements : agreement[a].date <= execution.baseline =>
           agreement[a].status \in {"draft", "confirmed"}

\* No write of a relation is refused by the trigger or the indexes, and so no
\* order of suggestions, replacements and cancellations gives an invoice two
\* primary contracts, or takes one from another invoice.
Admitted == INSTANCE LinkLifecycle
ImplementsLinkLifecycle == Admitted!Spec
=============================================================================
