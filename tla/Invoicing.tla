----------------------------- MODULE Invoicing -----------------------------
(***************************************************************************)
(* From usage to invoices in the billing service:                          *)
(*   - billingCalculator.BillPeriod, which prices the usage of a month and *)
(*     writes it to the ledger,                                            *)
(*   - InvoiceGenerator.GenerateInvoiceForTenant, which makes a draft of   *)
(*     the ledger's rows of a month, after deleting the draft before it,   *)
(*   - InvoiceFinalizer.FinalizeInvoice, and what a payment then writes.   *)
(*                                                                         *)
(* A worker runs one job at a time.  Each database statement is one step,  *)
(* and several jobs interleave between their statements.  A statement ends *)
(* "ok", in "error", or "lost": it took effect and the caller sees an      *)
(* error.  Every error ends the job, so that the process dying before or   *)
(* after a statement is one of these outcomes too.                         *)
(***************************************************************************)
EXTENDS Integers, FiniteSetsExt

CONSTANTS Workers,
          Tenants,
          Kinds,        \* usage types
          MaxMonth,     \* bound: months of a behaviour
          MaxUsage,     \* bound: usage of one type in one month
          Rules,        \* rows of pricing_rules, see PriceRules
          Adjustments,  \* rows other callers of CreateLedgerEntry post
          Adjustment,   \* what each of them says
          Ids,          \* invoice ids
          Currencies,
          None

Months == 1..MaxMonth
Forever == MaxMonth + 1

\* TenantID None is the default rule; from and to are the first months for
\* which a rule counts and no longer counts.
PriceRules ==
  [tenant : Tenants \cup {None}, kind : Kinds, price : Nat, currency : Currencies,
   from : Months, to : Months \cup {Forever}]

ASSUME BoundAssumption == MaxMonth \in Nat \ {0} /\ MaxUsage \in Nat
ASSUME RulesAssumption == Rules \subseteq PriceRules
ASSUME AdjustmentAssumption ==
  Adjustment \in [Adjustments -> [tenant : Tenants, tx : {"DEBIT", "CREDIT"},
                                  kind : Kinds, amount : Nat, currency : Currencies]]
ASSUME NoneAssumption == None \notin Tenants /\ None \notin Ids

VARIABLES
  month,     \* the current month
  usage,     \* usage_aggregates
  ledger,    \* rows of billing_ledger
  invoices,  \* rows of invoices, with the ledger rows each one was made of
  unposted,  \* payment rows that FinalizeSuccessfulPayment is about to write
  pc, job    \* each worker's step, and the variables of its job

vars == <<month, usage, ledger, invoices, unposted, pc, job>>

-----------------------------------------------------------------------------
(* The data.                                                               *)

\* reference_id.  A usage row's names its type and month.
UsageRef(k, m) == <<"usage", k, m>>
PostedRef(e) == <<"posted", e, 0>>
PaymentRef(i) == <<"payment", i, 0>>

Refs == ({"usage"} \X Kinds \X Months) \cup ({"posted"} \X Adjustments \X {0})
          \cup ({"payment"} \X Ids \X {0})

\* transaction_type of a usage row is its usage type ("USAGE" for any of them):
\* TransactionType(record.UsageType).  month is that of created_at.
Row(t, ref, tx, k, n, c) ==
  [tenant |-> t, ref |-> ref, tx |-> tx, kind |-> k, amount |-> n, currency |-> c,
   month |-> month]

\* usage_type of a payment row is no usage type, and its amount is not read.
LedgerRows ==
  [tenant : Tenants, ref : Refs, tx : {"USAGE", "DEBIT", "CREDIT", "PAYMENT"},
   kind : Kinds \cup {None}, amount : Nat, currency : Currencies, month : Months]

Charged(rows) == {r \in rows : r.tx \in {"DEBIT", "CREDIT"}}
Signed(r) == IF r.tx = "DEBIT" THEN r.amount ELSE -r.amount
Total(rows) == MapThenSumSet(Signed, Charged(rows))
LineTotal(rows, k) == Total({r \in rows : r.kind = k})

\* Lines that come to zero are dropped.
HasLines(rows) == \E k \in Kinds : LineTotal(rows, k) # 0

\* CHECK (total_amount_cents >= 0), CHECK (line_total_cents >= 0)
Positive(rows) == /\ Total(rows) >= 0
                  /\ \A k \in Kinds : LineTotal(rows, k) >= 0

OneCurrency(rows) == \A r, s \in rows : r.currency = s.currency

\* A row that was deleted keeps its id from being drawn again.
Statuses == {"absent", "DRAFT", "FINALIZED", "PAID", "deleted"}
Invoice(s, t, m, rows) == [status |-> s, tenant |-> t, month |-> m, rows |-> rows]
NoInvoice == Invoice("absent", None, 0, {})

Exists(i) == invoices[i].status \in {"DRAFT", "FINALIZED", "PAID"}
IsFor(i, t, m) == Exists(i) /\ invoices[i].tenant = t /\ invoices[i].month = m

Job(t, m, i, todo, rows) ==
  [tenant |-> t, month |-> m, id |-> i, todo |-> todo, rows |-> rows]
NoJob == Job(None, 0, None, {}, {})

UsageRecords == [tenant : Tenants, kind : Kinds, quantity : 1..MaxUsage]

Steps == {"idle", "bill", "delete", "read", "create", "finalize"}

Init ==
  /\ month = 1
  /\ usage = [x \in Tenants \X Kinds \X Months |-> 0]
  /\ ledger = {}
  /\ invoices = [i \in Ids |-> NoInvoice]
  /\ unposted = {}
  /\ pc = [w \in Workers |-> "idle"]
  /\ job = [w \in Workers |-> NoJob]

Begin(w, step, j) == /\ pc[w] = "idle"
                     /\ pc' = [pc EXCEPT ![w] = step]
                     /\ job' = [job EXCEPT ![w] = j]

Goto(w, step, j) == /\ pc' = [pc EXCEPT ![w] = step]
                    /\ job' = [job EXCEPT ![w] = j]

Finish(w) == /\ pc' = [pc EXCEPT ![w] = "idle"]
             /\ job' = [job EXCEPT ![w] = NoJob]

Outcomes == {"ok", "error", "lost"}
Applied(o) == o \in {"ok", "lost"}

-----------------------------------------------------------------------------
(* The ledger.                                                             *)

\* Mutant: the unique constraint is missing.
KnownRefNever(t, ref) == FALSE

\* UNIQUE (tenant_id, reference_id)
KnownRef(t, ref) == \E r \in ledger : r.tenant = t /\ r.ref = ref

\* INSERT INTO billing_ledger ... ON CONFLICT DO NOTHING
Inserted(r) == IF KnownRef(r.tenant, r.ref) THEN ledger ELSE ledger \cup {r}

\* CreateLedgerEntry, called for anything but usage.
PostEntry(e) ==
  LET a == Adjustment[e] IN
  /\ ~KnownRef(a.tenant, PostedRef(e))
  /\ ledger' = Inserted(Row(a.tenant, PostedRef(e), a.tx, a.kind, a.amount, a.currency))
  /\ UNCHANGED <<month, usage, invoices, unposted, pc, job>>

\* The aggregator adds to the current month.
AddUsage(t, k) ==
  /\ usage[<<t, k, month>>] < MaxUsage
  /\ usage' = [usage EXCEPT ![<<t, k, month>>] = @ + 1]
  /\ UNCHANGED <<month, ledger, invoices, unposted, pc, job>>

MonthEnds ==
  /\ month < MaxMonth
  /\ month' = month + 1
  /\ UNCHANGED <<usage, ledger, invoices, unposted, pc, job>>

-----------------------------------------------------------------------------
(* BillPeriod.                                                             *)

\* GetPriceRules: of the rules in force on the first day of the month, the
\* tenant's own before the default, then the latest.
InForce(t, k, m) ==
  {r \in Rules : r.tenant \in {t, None} /\ r.kind = k /\ r.from <= m /\ m < r.to}

Precedes(r, s) == \/ r.tenant # None /\ s.tenant = None
                  \/ r.tenant = s.tenant /\ r.from > s.from

PriceRule(t, k, m) ==
  {r \in InForce(t, k, m) : \A s \in InForce(t, k, m) : ~Precedes(s, r)}

\* GetUsageForPeriod: one query.
UsageForPeriod(m) ==
  {u \in UsageRecords : u.quantity = usage[<<u.tenant, u.kind, m>>]}

BillPeriod(w, m) ==
  /\ UsageForPeriod(m) # {}
  /\ Begin(w, "bill", Job(None, m, None, UsageForPeriod(m), {}))
  /\ UNCHANGED <<month, usage, ledger, invoices, unposted>>

\* The run moves on to its next record, or ends with the last.
RecordDone(w, u) ==
  IF job[w].todo = {u} THEN Finish(w)
                       ELSE Goto(w, "bill", [job[w] EXCEPT !.todo = @ \ {u}])

\* ProcessingSingleRecord.  A record without a price ends the run, as an error
\* of the insert does.  Nothing is written for a cost of zero.
ProcessingSingleRecord(w, u, o) ==
  LET m == job[w].month
      rules == PriceRule(u.tenant, u.kind, m) IN
  /\ pc[w] = "bill"
  /\ u \in job[w].todo
  /\ \/ /\ rules = {} \/ o = "error"
        /\ Finish(w)
        /\ UNCHANGED ledger
     \/ \E rule \in rules :
          LET cost == u.quantity * rule.price
              row == Row(u.tenant, UsageRef(u.kind, m), "USAGE", u.kind, cost,
                         rule.currency) IN
          /\ Applied(o)
          /\ ledger' = IF cost = 0 THEN ledger ELSE Inserted(row)
          /\ IF o = "ok" THEN RecordDone(w, u) ELSE Finish(w)
  /\ UNCHANGED <<month, usage, invoices, unposted>>

-----------------------------------------------------------------------------
(* GenerateInvoiceForTenant.                                               *)

\* GetInvoice: an invoice that is not a draft ends the call.
GenerateInvoice(w, t, m) ==
  /\ \/ \E i \in Ids : /\ IsFor(i, t, m)
                       /\ invoices[i].status = "DRAFT"
                       /\ Begin(w, "delete", Job(t, m, i, {}, {}))
     \/ /\ \A i \in Ids : ~IsFor(i, t, m)
        /\ Begin(w, "read", Job(t, m, None, {}, {}))
  /\ UNCHANGED <<month, usage, ledger, invoices, unposted>>

\* DELETE FROM invoices WHERE invoice_id = $1, whatever became of it.
DeleteInvoice(w, o) ==
  LET i == job[w].id IN
  /\ pc[w] = "delete"
  /\ invoices' = IF Applied(o) /\ Exists(i)
                   THEN [invoices EXCEPT ![i] = Invoice("deleted", None, 0, {})]
                   ELSE invoices
  /\ IF o = "ok" THEN Goto(w, "read", [job[w] EXCEPT !.id = None]) ELSE Finish(w)
  /\ UNCHANGED <<month, usage, ledger, unposted>>

\* Mutant: everything up to the month is read.
InPeriodOrBefore(r, t, m) == r.tenant = t /\ r.month <= m

InPeriod(r, t, m) == r.tenant = t /\ r.month = m

EntriesForPeriod(t, m) == {r \in ledger : InPeriod(r, t, m)}

\* GetEntriesForPeriod.  An error, no entries, or entries in two currencies
\* end the call; a draft that was deleted is gone then.
ReadLedger(w) ==
  LET rows == EntriesForPeriod(job[w].tenant, job[w].month) IN
  /\ pc[w] = "read"
  /\ \/ Finish(w)
     \/ /\ rows # {}
        /\ OneCurrency(rows)
        /\ Goto(w, "create", [job[w] EXCEPT !.rows = rows])
  /\ UNCHANGED <<month, usage, ledger, invoices, unposted>>

\* UNIQUE (tenant_id, billing_year, billing_month), and the CHECKs.
Storable(j) == /\ \A i \in Ids : ~IsFor(i, j.tenant, j.month)
               /\ Positive(j.rows)

\* CreateInvoice: header and lines in one transaction, under a fresh id.
CreateInvoice(w, i, o) ==
  LET j == job[w] IN
  /\ pc[w] = "create"
  /\ invoices[i].status = "absent"
  /\ Applied(o) => Storable(j)
  /\ invoices' = IF Applied(o)
                   THEN [invoices EXCEPT ![i] =
                           Invoice("DRAFT", j.tenant, j.month, j.rows)]
                   ELSE invoices
  /\ Finish(w)
  /\ UNCHANGED <<month, usage, ledger, unposted>>

-----------------------------------------------------------------------------
(* FinalizeInvoice, and the end of a payment.                              *)

\* Mutants: lines are not counted; the update without its guard.
FinalizableEmpty(i) == invoices[i].status = "DRAFT"
FinalizesAlways(i) == Exists(i)

\* GetInvoiceByID refuses an invoice without lines; only a draft is finalized.
\* The checks of total and currency cannot fail for a row that was stored.
Finalizable(i) == invoices[i].status = "DRAFT" /\ HasLines(invoices[i].rows)

FinalizeInvoice(w, i) ==
  /\ Finalizable(i)
  /\ Begin(w, "finalize", Job(None, 0, i, {}, {}))
  /\ UNCHANGED <<month, usage, ledger, invoices, unposted>>

\* ... WHERE invoice_id = $1 AND status = 'DRAFT'
Finalizes(i) == invoices[i].status = "DRAFT"

StoreFinalizeInvoice(w, o) ==
  LET i == job[w].id IN
  /\ pc[w] = "finalize"
  /\ invoices' = IF Applied(o) /\ Finalizes(i)
                   THEN [invoices EXCEPT ![i].status = "FINALIZED"]
                   ELSE invoices
  /\ Finish(w)
  /\ UNCHANGED <<month, usage, ledger, unposted>>

\* What module Payment has in detail: the compare-and-set FINALIZED -> PAID,
\* and then RecordCreditTransaction by the same call, if it gets that far.
MarkInvoicePaid(i) ==
  /\ invoices[i].status = "FINALIZED"
  /\ invoices' = [invoices EXCEPT ![i].status = "PAID"]
  /\ \E c \in Currencies :
       /\ \A r \in invoices[i].rows : r.currency = c
       /\ unposted' = unposted \cup
            {[id |-> i, tenant |-> invoices[i].tenant, currency |-> c]}
  /\ UNCHANGED <<month, usage, ledger, pc, job>>

RecordCredit(c, o) ==
  /\ ledger' = IF Applied(o)
                 THEN Inserted(Row(c.tenant, PaymentRef(c.id), "PAYMENT", None, 0,
                                   c.currency))
                 ELSE ledger
  /\ unposted' = unposted \ {c}
  /\ UNCHANGED <<month, usage, invoices, pc, job>>

-----------------------------------------------------------------------------
JobStep(w) ==
  \/ ReadLedger(w)
  \/ \E o \in Outcomes : \/ DeleteInvoice(w, o)
                         \/ StoreFinalizeInvoice(w, o)
                         \/ \E u \in job[w].todo : ProcessingSingleRecord(w, u, o)
                         \/ \E i \in Ids : CreateInvoice(w, i, o)

Next ==
  \/ \E w \in Workers :
       \/ JobStep(w)
       \/ \E m \in Months : BillPeriod(w, m)
       \/ \E t \in Tenants, m \in Months : GenerateInvoice(w, t, m)
       \/ \E i \in Ids : FinalizeInvoice(w, i)
  \/ \E t \in Tenants, k \in Kinds : AddUsage(t, k)
  \/ \E e \in Adjustments : PostEntry(e)
  \/ \E i \in Ids : MarkInvoicePaid(i)
  \/ \E c \in unposted, o \in {"ok", "error"} : RecordCredit(c, o)
  \/ MonthEnds

Spec == Init /\ [][Next]_vars
-----------------------------------------------------------------------------
(* Properties.                                                             *)

(***************************************************************************)
(* The variables hold what the columns allow, CHECKs included.             *)
(***************************************************************************)
InvoiceRows ==
  [status : Statuses, tenant : Tenants \cup {None}, month : 0..MaxMonth,
   rows : SUBSET LedgerRows]

Jobs ==
  [tenant : Tenants \cup {None}, month : 0..MaxMonth, id : Ids \cup {None},
   todo : SUBSET UsageRecords, rows : SUBSET LedgerRows]

TypeOK ==
  /\ month \in Months
  /\ usage \in [Tenants \X Kinds \X Months -> 0..MaxUsage]
  /\ ledger \subseteq LedgerRows
  /\ invoices \in [Ids -> InvoiceRows]
  /\ \A i \in Ids : Exists(i) => Positive(invoices[i].rows)
  /\ unposted \subseteq [id : Ids, tenant : Tenants, currency : Currencies]
  /\ pc \in [Workers -> Steps]
  /\ job \in [Workers -> Jobs]

(***************************************************************************)
(* Usage is billed at most once, and never for more than was used: however *)
(* often BillPeriod runs, at once or again after an error, there is one    *)
(* row for each type and month, at a price in force on the first of it.    *)
(***************************************************************************)
BilledOnce ==
  \A r \in ledger, k \in Kinds, m \in Months : r.ref = UsageRef(k, m) =>
    /\ \A s \in ledger : s.tenant = r.tenant /\ s.ref = r.ref => s = r
    /\ \E n \in 1..usage[<<r.tenant, k, m>>], rule \in PriceRule(r.tenant, k, m) :
         r.amount = n * rule.price /\ r.currency = rule.currency

(***************************************************************************)
(* No ledger row is on two invoices, whatever generators, deletions and    *)
(* the end of a month interleave.                                          *)
(***************************************************************************)
ChargedOnce ==
  \A i, j \in Ids : Exists(i) /\ Exists(j) /\ i # j =>
    invoices[i].rows \cap invoices[j].rows = {}

(***************************************************************************)
(* What was finalized had been looked at: it has lines, in one currency,   *)
(* none of them negative, made of rows the ledger still has for its tenant *)
(* and month, even when the draft that was checked was deleted meanwhile.  *)
(***************************************************************************)
FinalizedIsSound ==
  \A i \in Ids : invoices[i].status \in {"FINALIZED", "PAID"} =>
    LET rows == invoices[i].rows IN
    /\ HasLines(rows) /\ Positive(rows) /\ OneCurrency(rows)
    /\ rows \subseteq EntriesForPeriod(invoices[i].tenant, invoices[i].month)

(***************************************************************************)
(* As long as an invoice exists it says the same, and it only moves on     *)
(* from DRAFT to FINALIZED to PAID, however late a finalizer's update is.  *)
(***************************************************************************)
MovesOn == {<<"DRAFT", "FINALIZED">>, <<"FINALIZED", "PAID">>}

InvoiceIsImmutable ==
  [][\A i \in Ids : Exists(i) /\ Exists(i)' =>
       \/ invoices'[i] = invoices[i]
       \/ /\ <<invoices[i].status, invoices'[i].status>> \in MovesOn
          /\ invoices'[i] = [invoices[i] EXCEPT !.status = invoices'[i].status]]_vars

=============================================================================
