-------------------------- MODULE InvoicingProofs --------------------------
(***************************************************************************)
(* Proofs about Invoicing, for every set of workers, tenants, usage types, *)
(* price rules and adjustments, and any number of months; about Pricing,   *)
(* for every tier list and quantity; and about the sums that both speak    *)
(* of.                                                                     *)
(***************************************************************************)
EXTENDS Invoicing, Pricing, TLAPS, FiniteSetTheorems, WellFoundedInduction

(***************************************************************************)
(* The inductive invariant.  LedgerInv: references are unique, and a usage *)
(* row is priced by a rule for no more than was used.  SlotInv: a tenant   *)
(* has one invoice per month, made of the ledger's rows of that month.     *)
(* JobInv: what a worker read and still relies on: usage only grows, the   *)
(* rows it read stay in the ledger, and an invoice that was checked has    *)
(* the same lines for as long as it exists.                                *)
(***************************************************************************)
UniqueRefs ==
  \A r, s \in ledger : r.tenant = s.tenant /\ r.ref = s.ref => r = s

PricedFairly(r) ==
  \A k \in Kinds, m \in Months : r.ref = UsageRef(k, m) =>
    \E n \in 1..usage[<<r.tenant, k, m>>], rule \in PriceRule(r.tenant, k, m) :
      r.amount = n * rule.price /\ r.currency = rule.currency

LedgerInv == UniqueRefs /\ \A r \in ledger : PricedFairly(r)

\* Rows that GetEntriesForPeriod may have returned.
OfPeriod(rows, t, m) == rows \subseteq EntriesForPeriod(t, m) /\ OneCurrency(rows)

SlotInv ==
  \A i \in Ids : Exists(i) =>
    /\ OfPeriod(invoices[i].rows, invoices[i].tenant, invoices[i].month)
    /\ invoices[i].tenant \in Tenants
    /\ invoices[i].status # "DRAFT" => HasLines(invoices[i].rows)
    /\ \A j \in Ids : IsFor(j, invoices[i].tenant, invoices[i].month) => j = i

JobOK(w) ==
  LET j == job[w] IN
  /\ pc[w] = "bill" =>
       /\ j.month \in Months
       /\ \A u \in j.todo : u.quantity \in 1..usage[<<u.tenant, u.kind, j.month>>]
  /\ pc[w] \in {"delete", "read", "create"} => j.tenant \in Tenants
  /\ pc[w] \in {"delete", "finalize"} => j.id \in Ids
  /\ pc[w] = "create" => OfPeriod(j.rows, j.tenant, j.month)
  /\ pc[w] = "finalize" =>
       /\ invoices[j.id].status # "absent"
       /\ Exists(j.id) => HasLines(invoices[j.id].rows)

JobInv == \A w \in Workers : JobOK(w)

IInv == TypeOK /\ LedgerInv /\ SlotInv /\ JobInv

-----------------------------------------------------------------------------
(* The initial states.                                                     *)

THEOREM InitIInv == Init => IInv
<1> SUFFICES ASSUME Init PROVE IInv
  OBVIOUS
<1>1. TypeOK
  <2>1. month \in Months
    BY BoundAssumption DEF Init, Months
  <2>2. usage \in [Tenants \X Kinds \X Months -> 0..MaxUsage]
    BY BoundAssumption DEF Init
  <2>3. NoInvoice \in InvoiceRows /\ NoJob \in Jobs
    BY BoundAssumption DEF NoInvoice, Invoice, InvoiceRows, Statuses, NoJob, Job, Jobs
  <2>4. \A i \in Ids : ~Exists(i)
    BY DEF Init, Exists, NoInvoice, Invoice
  <2> QED  BY <2>1, <2>2, <2>3, <2>4 DEF Init, TypeOK, Steps
<1>2. LedgerInv /\ SlotInv /\ JobInv
  BY DEF Init, LedgerInv, UniqueRefs, SlotInv, JobInv, JobOK, Exists, NoInvoice, Invoice
<1> QED  BY <1>1, <1>2 DEF IInv

-----------------------------------------------------------------------------
(* The ledger.                                                             *)

LEMMA RowType ==
  ASSUME month \in Months, NEW t \in Tenants, NEW ref \in Refs,
         NEW tx \in {"USAGE", "DEBIT", "CREDIT", "PAYMENT"},
         NEW k \in Kinds \cup {None}, NEW n \in Nat, NEW c \in Currencies
  PROVE  /\ Row(t, ref, tx, k, n, c) \in LedgerRows
         /\ Row(t, ref, tx, k, n, c).tenant = t
         /\ Row(t, ref, tx, k, n, c).ref = ref
         /\ Row(t, ref, tx, k, n, c).tx = tx
         /\ Row(t, ref, tx, k, n, c).kind = k
         /\ Row(t, ref, tx, k, n, c).amount = n
         /\ Row(t, ref, tx, k, n, c).currency = c
  BY DEF Row, LedgerRows

LEMMA InsertKeepsRefs ==
  ASSUME UniqueRefs, NEW r
  PROVE  \A x, y \in Inserted(r) : x.tenant = y.tenant /\ x.ref = y.ref => x = y
  BY DEF UniqueRefs, Inserted, KnownRef

LEMMA RuleType ==
  ASSUME NEW t \in Tenants, NEW k \in Kinds, NEW m \in Months,
         NEW rule \in PriceRule(t, k, m)
  PROVE  rule.price \in Nat /\ rule.currency \in Currencies
  BY RulesAssumption DEF PriceRule, InForce, PriceRules

\* What a step may do to the ledger.
NewRow(r) ==
  /\ r \in LedgerRows
  /\ ledger' = Inserted(r)
  /\ UNCHANGED usage
  /\ r.tx \in {"DEBIT", "CREDIT"} => r.kind \in Kinds
  /\ \A k \in Kinds, m \in Months : r.ref = UsageRef(k, m) =>
       \E n \in 1..usage[<<r.tenant, k, m>>], rule \in PriceRule(r.tenant, k, m) :
         r.amount = n * rule.price /\ r.currency = rule.currency

LEMMA LedgerSteps ==
  ASSUME TypeOK, JobInv, Next
  PROVE  ledger' = ledger \/ \E r : NewRow(r)
<1>1. ASSUME NEW e \in Adjustments, PostEntry(e)
      PROVE  \E r : NewRow(r)
  <2> DEFINE a == Adjustment[e]
             r == Row(a.tenant, PostedRef(e), a.tx, a.kind, a.amount, a.currency)
  <2>1. /\ a.tenant \in Tenants /\ a.tx \in {"DEBIT", "CREDIT"} /\ a.kind \in Kinds
        /\ a.amount \in Nat /\ a.currency \in Currencies
    BY AdjustmentAssumption
  <2>2. PostedRef(e) \in Refs /\ \A k \in Kinds, m \in Months : PostedRef(e) # UsageRef(k, m)
    BY DEF PostedRef, UsageRef, Refs
  <2> HIDE DEF a
  <2>3. r \in LedgerRows /\ r.ref = PostedRef(e) /\ r.kind \in Kinds
    BY <2>1, <2>2, RowType DEF TypeOK
  <2>4. ledger' = Inserted(r) /\ UNCHANGED usage
    BY <1>1 DEF PostEntry, a
  <2> QED  BY <2>2, <2>3, <2>4 DEF NewRow
<1>2. ASSUME NEW c \in unposted, NEW o \in {"ok", "error"}, RecordCredit(c, o)
      PROVE  ledger' = ledger \/ \E r : NewRow(r)
  <2> DEFINE r == Row(c.tenant, PaymentRef(c.id), "PAYMENT", None, 0, c.currency)
  <2>1. c.tenant \in Tenants /\ c.id \in Ids /\ c.currency \in Currencies
    BY DEF TypeOK
  <2>2. /\ PaymentRef(c.id) \in Refs
        /\ \A k \in Kinds, m \in Months : PaymentRef(c.id) # UsageRef(k, m)
    BY <2>1 DEF PaymentRef, UsageRef, Refs
  <2>3. r \in LedgerRows /\ r.ref = PaymentRef(c.id) /\ r.tx = "PAYMENT"
    <3>1. month \in Months /\ None \in Kinds \cup {None} /\ 0 \in Nat
      BY DEF TypeOK
    <3> QED  BY <2>1, <2>2, <3>1 DEF Row, LedgerRows
  <2>4. (ledger' = ledger \/ ledger' = Inserted(r)) /\ UNCHANGED usage
    BY <1>2 DEF RecordCredit
  <2> QED  BY <2>2, <2>3, <2>4 DEF NewRow
<1>3. ASSUME NEW w \in Workers, NEW u \in job[w].todo, NEW o \in Outcomes,
             ProcessingSingleRecord(w, u, o)
      PROVE  ledger' = ledger \/ \E r : NewRow(r)
  <2> DEFINE m == job[w].month
  <2>1. /\ m \in Months /\ u.tenant \in Tenants /\ u.kind \in Kinds
        /\ u.quantity \in 1..usage[<<u.tenant, u.kind, m>>]
        /\ usage[<<u.tenant, u.kind, m>>] \in Nat
    BY <1>3 DEF ProcessingSingleRecord, JobInv, JobOK, TypeOK, Jobs, UsageRecords
  <2> HIDE DEF m
  <2>2. SUFFICES ASSUME ledger' # ledger PROVE \E r : NewRow(r)
    OBVIOUS
  <2>3. PICK rule \in PriceRule(u.tenant, u.kind, m) :
          ledger' = Inserted(Row(u.tenant, UsageRef(u.kind, m), "USAGE", u.kind,
                                 u.quantity * rule.price, rule.currency))
    BY <1>3, <2>2 DEF ProcessingSingleRecord, m
  <2> DEFINE r == Row(u.tenant, UsageRef(u.kind, m), "USAGE", u.kind,
                      u.quantity * rule.price, rule.currency)
  <2>4. /\ rule.price \in Nat /\ rule.currency \in Currencies
        /\ u.quantity \in Nat
    BY <2>1, RuleType
  <2>5. u.quantity * rule.price \in Nat
    BY <2>4
  <2>6. UsageRef(u.kind, m) \in Refs
    BY <2>1 DEF UsageRef, Refs
  <2>7. /\ r \in LedgerRows /\ r.tenant = u.tenant /\ r.ref = UsageRef(u.kind, m)
        /\ r.kind \in Kinds
        /\ r.amount = u.quantity * rule.price /\ r.currency = rule.currency
    BY <2>1, <2>4, <2>5, <2>6, RowType DEF TypeOK
  <2> HIDE DEF r
  <2>8. \A k \in Kinds, n \in Months : r.ref = UsageRef(k, n) => k = u.kind /\ n = m
    BY <2>7 DEF UsageRef
  <2>9. NewRow(r)
    BY <1>3, <2>1, <2>3, <2>7, <2>8 DEF NewRow, ProcessingSingleRecord, r
  <2> QED  BY <2>9
<1> QED
  BY <1>1, <1>2, <1>3
  DEF Next, JobStep, ReadLedger, DeleteInvoice, StoreFinalizeInvoice, CreateInvoice,
      BillPeriod, GenerateInvoice, FinalizeInvoice, AddUsage, MarkInvoicePaid, MonthEnds

\* Usage only grows, and the ledger only gains rows.
LEMMA NothingShrinks ==
  ASSUME TypeOK, JobInv, Next
  PROVE  /\ ledger \subseteq ledger' /\ ledger' \subseteq LedgerRows
         /\ usage' \in [Tenants \X Kinds \X Months -> 0..MaxUsage]
         /\ \A x \in Tenants \X Kinds \X Months : usage[x] <= usage'[x]
<1>1. ledger \subseteq ledger' /\ ledger' \subseteq LedgerRows
  BY LedgerSteps DEF NewRow, Inserted, TypeOK
<1>2. \/ UNCHANGED usage
      \/ \E t \in Tenants, k \in Kinds : AddUsage(t, k)
  BY DEF Next, JobStep, ReadLedger, DeleteInvoice, StoreFinalizeInvoice, CreateInvoice,
         ProcessingSingleRecord, BillPeriod, GenerateInvoice, FinalizeInvoice, AddUsage,
         MarkInvoicePaid, MonthEnds, PostEntry, RecordCredit
<1>3. \A x \in Tenants \X Kinds \X Months : usage[x] \in 0..MaxUsage
  BY DEF TypeOK
<1>4. CASE UNCHANGED usage
  <2>1. usage' = usage
    BY <1>4
  <2>2. \A x \in Tenants \X Kinds \X Months : usage[x] <= usage[x]
    BY <1>3, BoundAssumption
  <2>3. usage \in [Tenants \X Kinds \X Months -> 0..MaxUsage]
    BY DEF TypeOK
  <2> QED  BY <1>1, <2>1, <2>2, <2>3
<1>5. ASSUME NEW t \in Tenants, NEW k \in Kinds, AddUsage(t, k)
      PROVE  /\ usage' \in [Tenants \X Kinds \X Months -> 0..MaxUsage]
             /\ \A x \in Tenants \X Kinds \X Months : usage[x] <= usage'[x]
  <2>1. <<t, k, month>> \in Tenants \X Kinds \X Months
    BY DEF TypeOK
  <2>2. /\ usage' = [usage EXCEPT ![<<t, k, month>>] = @ + 1]
        /\ usage[<<t, k, month>>] < MaxUsage
    BY <1>5 DEF AddUsage
  <2>3. usage[<<t, k, month>>] + 1 \in 0..MaxUsage
    BY <1>3, <2>1, <2>2, BoundAssumption
  <2> QED  BY <1>3, <2>1, <2>2, <2>3, BoundAssumption DEF TypeOK
<1> QED  BY <1>1, <1>2, <1>4, <1>5

LEMMA LedgerStep ==
  ASSUME TypeOK, JobInv, LedgerInv, Next
  PROVE  LedgerInv'
<1>1. UniqueRefs'
  BY LedgerSteps, InsertKeepsRefs DEF LedgerInv, UniqueRefs, NewRow
<1>2. ASSUME NEW r \in ledger' PROVE PricedFairly(r)'
  <2> SUFFICES ASSUME NEW k \in Kinds, NEW m \in Months, r.ref = UsageRef(k, m)
               PROVE  \E n \in 1..usage'[<<r.tenant, k, m>>],
                         rule \in PriceRule(r.tenant, k, m) :
                        r.amount = n * rule.price /\ r.currency = rule.currency
    BY DEF PricedFairly, PriceRule, InForce, Precedes
  <2>1. PICK n \in 1..usage[<<r.tenant, k, m>>], rule \in PriceRule(r.tenant, k, m) :
          r.amount = n * rule.price /\ r.currency = rule.currency
    BY LedgerSteps DEF NewRow, Inserted, LedgerInv, PricedFairly
  <2>2. <<r.tenant, k, m>> \in Tenants \X Kinds \X Months
    BY NothingShrinks DEF LedgerRows
  <2>3. /\ usage[<<r.tenant, k, m>>] \in Nat /\ usage'[<<r.tenant, k, m>>] \in Nat
        /\ usage[<<r.tenant, k, m>>] <= usage'[<<r.tenant, k, m>>]
    BY <2>2, NothingShrinks, BoundAssumption DEF TypeOK
  <2>4. n \in 1..usage'[<<r.tenant, k, m>>]
    BY <2>3
  <2> QED  BY <2>1, <2>4
<1> QED  BY <1>1, <1>2 DEF LedgerInv

-----------------------------------------------------------------------------
(* The invoices.                                                           *)

\* The ways in which a step may change a row of invoices.
Created(i) ==
  \E w \in Workers :
    LET j == job[w] IN
    /\ pc[w] = "create" /\ Storable(j) /\ invoices[i].status = "absent"
    /\ invoices' = [invoices EXCEPT ![i] = Invoice("DRAFT", j.tenant, j.month, j.rows)]
    /\ UNCHANGED ledger

Deleted(i) ==
  /\ invoices' = [invoices EXCEPT ![i] = Invoice("deleted", None, 0, {})]
  /\ Exists(i)

Moved(i, s) ==
  /\ <<invoices[i].status, s>> \in MovesOn
  /\ invoices' = [invoices EXCEPT ![i].status = s]
  /\ s = "FINALIZED" => HasLines(invoices[i].rows)

LEMMA InvoiceSteps ==
  ASSUME TypeOK, JobInv, Next
  PROVE  \/ invoices' = invoices
         \/ \E i \in Ids : Created(i) \/ Deleted(i)
         \/ \E i \in Ids, s \in {"FINALIZED", "PAID"} : Moved(i, s)
<1>1. ASSUME NEW w \in Workers, NEW i \in Ids, NEW o \in Outcomes, CreateInvoice(w, i, o)
      PROVE  invoices' = invoices \/ Created(i)
  BY <1>1 DEF CreateInvoice, Created
<1>2. ASSUME NEW w \in Workers, NEW o \in Outcomes, DeleteInvoice(w, o)
      PROVE  invoices' = invoices \/ \E i \in Ids : Deleted(i)
  BY <1>2 DEF DeleteInvoice, Deleted, JobInv, JobOK
<1>3. ASSUME NEW w \in Workers, NEW o \in Outcomes, StoreFinalizeInvoice(w, o)
      PROVE  invoices' = invoices \/ \E i \in Ids : Moved(i, "FINALIZED")
  <2>1. SUFFICES ASSUME invoices' # invoices PROVE \E i \in Ids : Moved(i, "FINALIZED")
    OBVIOUS
  <2>2. /\ job[w].id \in Ids /\ invoices[job[w].id].status = "DRAFT"
        /\ invoices' = [invoices EXCEPT ![job[w].id].status = "FINALIZED"]
        /\ pc[w] = "finalize"
    BY <1>3, <2>1 DEF StoreFinalizeInvoice, Finalizes, JobInv, JobOK
  <2>3. HasLines(invoices[job[w].id].rows)
    BY <2>2 DEF JobInv, JobOK, Exists
  <2> QED  BY <2>2, <2>3 DEF Moved, MovesOn
<1>4. ASSUME NEW i \in Ids, MarkInvoicePaid(i)
      PROVE  Moved(i, "PAID")
  BY <1>4 DEF MarkInvoicePaid, Moved, MovesOn
<1> QED
  BY <1>1, <1>2, <1>3, <1>4
  DEF Next, JobStep, ReadLedger, ProcessingSingleRecord, BillPeriod, GenerateInvoice,
      FinalizeInvoice, AddUsage, MonthEnds, PostEntry, RecordCredit

\* A worker about to create an invoice holds rows that make a sound one.
LEMMA CreateJob ==
  ASSUME TypeOK, JobInv, NEW w \in Workers, pc[w] = "create"
  PROVE  /\ job[w].tenant \in Tenants /\ job[w].month \in 0..MaxMonth
         /\ job[w].rows \in SUBSET LedgerRows
         /\ OfPeriod(job[w].rows, job[w].tenant, job[w].month)
  BY DEF TypeOK, Jobs, JobInv, JobOK

LEMMA InvoicesType ==
  ASSUME TypeOK, JobInv, Next
  PROVE  /\ invoices' \in [Ids -> InvoiceRows]
         /\ \A i \in Ids : Exists(i)' => Positive(invoices'[i].rows)
<1>1. CASE invoices' = invoices
  BY <1>1 DEF TypeOK, Exists
<1>2. ASSUME NEW i \in Ids, Created(i)
      PROVE  /\ invoices' \in [Ids -> InvoiceRows]
             /\ \A x \in Ids : Exists(x)' => Positive(invoices'[x].rows)
  <2>1. PICK w \in Workers :
          /\ pc[w] = "create" /\ Storable(job[w])
          /\ invoices' = [invoices EXCEPT ![i] =
               Invoice("DRAFT", job[w].tenant, job[w].month, job[w].rows)]
    BY <1>2 DEF Created
  <2>2. /\ Invoice("DRAFT", job[w].tenant, job[w].month, job[w].rows) \in InvoiceRows
        /\ Invoice("DRAFT", job[w].tenant, job[w].month, job[w].rows).rows = job[w].rows
    BY <2>1, CreateJob DEF Invoice, InvoiceRows, Statuses
  <2>3. Positive(job[w].rows)
    BY <2>1 DEF Storable
  <2> QED  BY <2>1, <2>2, <2>3 DEF TypeOK, Exists
<1>3. ASSUME NEW i \in Ids, Deleted(i)
      PROVE  /\ invoices' \in [Ids -> InvoiceRows]
             /\ \A x \in Ids : Exists(x)' => Positive(invoices'[x].rows)
  <2>1. Invoice("deleted", None, 0, {}) \in InvoiceRows
    BY BoundAssumption DEF Invoice, InvoiceRows, Statuses
  <2>2. ~Exists(i)'
    BY <1>3 DEF Deleted, Exists, Invoice, TypeOK
  <2> QED  BY <1>3, <2>1, <2>2 DEF Deleted, TypeOK, Exists
<1>4. ASSUME NEW i \in Ids, NEW s \in {"FINALIZED", "PAID"}, Moved(i, s)
      PROVE  /\ invoices' \in [Ids -> InvoiceRows]
             /\ \A x \in Ids : Exists(x)' => Positive(invoices'[x].rows)
  BY <1>4 DEF Moved, MovesOn, TypeOK, Exists, InvoiceRows, Statuses
<1> QED  BY <1>1, <1>2, <1>3, <1>4, InvoiceSteps

LEMMA PeriodGrows ==
  ASSUME ledger \subseteq ledger', NEW rows, NEW t, NEW m, OfPeriod(rows, t, m)
  PROVE  OfPeriod(rows, t, m)'
  BY DEF OfPeriod, EntriesForPeriod, InPeriod, OneCurrency

LEMMA SlotStep ==
  ASSUME TypeOK, JobInv, SlotInv, Next
  PROVE  SlotInv'
<1>0. ledger \subseteq ledger'
  BY NothingShrinks
<1>1. CASE invoices' = invoices
  BY <1>0, <1>1, PeriodGrows DEF SlotInv, Exists, IsFor
<1>2. ASSUME NEW i \in Ids, Created(i)
      PROVE  SlotInv'
  <2>1. PICK w \in Workers :
          /\ pc[w] = "create" /\ Storable(job[w])
          /\ invoices' = [invoices EXCEPT ![i] =
               Invoice("DRAFT", job[w].tenant, job[w].month, job[w].rows)]
    BY <1>2 DEF Created
  <2>2. PICK t, m, rows : t = job[w].tenant /\ m = job[w].month /\ rows = job[w].rows
    OBVIOUS
  <2>3. /\ invoices'[i].status = "DRAFT" /\ invoices'[i].tenant = t
        /\ invoices'[i].month = m /\ invoices'[i].rows = rows
        /\ \A x \in Ids : x # i => invoices'[x] = invoices[x]
    BY <2>1, <2>2 DEF Invoice, TypeOK
  <2>4. t \in Tenants /\ OfPeriod(rows, t, m) /\ \A x \in Ids : ~IsFor(x, t, m)
    BY <2>1, <2>2, CreateJob DEF Storable
  <2>5. OfPeriod(rows, t, m)'
    BY <1>0, <2>4, PeriodGrows
  <2> QED  BY <1>0, <2>3, <2>4, <2>5, PeriodGrows DEF SlotInv, Exists, IsFor
<1>3. ASSUME NEW i \in Ids, Deleted(i)
      PROVE  SlotInv'
  <2>1. /\ invoices'[i].status = "deleted"
        /\ \A x \in Ids : x # i => invoices'[x] = invoices[x]
    BY <1>3 DEF Deleted, Invoice, TypeOK
  <2> QED  BY <1>0, <2>1, PeriodGrows DEF SlotInv, Exists, IsFor
<1>4. ASSUME NEW i \in Ids, NEW s \in {"FINALIZED", "PAID"}, Moved(i, s)
      PROVE  SlotInv'
  <2>1. /\ invoices'[i].status = s /\ invoices'[i].tenant = invoices[i].tenant
        /\ invoices'[i].month = invoices[i].month /\ invoices'[i].rows = invoices[i].rows
        /\ Exists(i) /\ (s = "FINALIZED" \/ invoices[i].status = "FINALIZED")
        /\ \A x \in Ids : x # i => invoices'[x] = invoices[x]
    BY <1>4 DEF Moved, MovesOn, Exists, TypeOK, InvoiceRows
  <2>2. HasLines(invoices'[i].rows)
    BY <1>4, <2>1 DEF Moved, SlotInv
  <2> QED  BY <1>0, <2>1, <2>2, PeriodGrows DEF SlotInv, Exists, IsFor
<1> QED  BY <1>1, <1>2, <1>3, <1>4, InvoiceSteps

\* An id is never used again, and what exists keeps its lines.
LEMMA InvoicesKept ==
  ASSUME TypeOK, JobInv, Next, NEW i \in Ids, invoices[i].status # "absent"
  PROVE  /\ invoices'[i].status # "absent"
         /\ Exists(i)' => Exists(i) /\ invoices'[i].rows = invoices[i].rows
<1>1. CASE invoices' = invoices
  BY <1>1 DEF Exists
<1>2. ASSUME NEW x \in Ids, Created(x)
      PROVE  invoices'[i] = invoices[i]
  BY <1>2 DEF Created, TypeOK
<1>3. ASSUME NEW x \in Ids, Deleted(x)
      PROVE  invoices'[i] = invoices[i] \/ invoices'[i].status = "deleted"
  BY <1>3 DEF Deleted, Invoice, TypeOK
<1>4. ASSUME NEW x \in Ids, NEW s \in {"FINALIZED", "PAID"}, Moved(x, s)
      PROVE  \/ invoices'[i] = invoices[i]
             \/ /\ invoices'[i].status = s /\ invoices'[i].rows = invoices[i].rows
                /\ Exists(i)
  BY <1>4 DEF Moved, MovesOn, TypeOK, InvoiceRows, Exists
<1> QED  BY <1>1, <1>2, <1>3, <1>4, InvoiceSteps DEF Exists

-----------------------------------------------------------------------------
(* The jobs.                                                               *)

LEMMA RecordsType ==
  ASSUME TypeOK, NEW m \in Months
  PROVE  /\ UsageForPeriod(m) \subseteq UsageRecords
         /\ \A u \in UsageForPeriod(m) : u.quantity \in 1..usage[<<u.tenant, u.kind, m>>]
  BY BoundAssumption DEF TypeOK, UsageForPeriod, UsageRecords

LEMMA JobsType ==
  ASSUME TypeOK, JobInv, Next
  PROVE  pc' \in [Workers -> Steps] /\ job' \in [Workers -> Jobs]
<1> USE DEF TypeOK
<1>1. NoJob \in Jobs
  BY BoundAssumption DEF NoJob, Job, Jobs
<1>2. ASSUME NEW w \in Workers, Finish(w)
      PROVE  pc' \in [Workers -> Steps] /\ job' \in [Workers -> Jobs]
  BY <1>1, <1>2 DEF Finish, Steps
<1>3. ASSUME NEW w \in Workers, NEW step \in Steps, NEW j \in Jobs,
             Goto(w, step, j) \/ Begin(w, step, j)
      PROVE  pc' \in [Workers -> Steps] /\ job' \in [Workers -> Jobs]
  BY <1>3 DEF Goto, Begin
<1>4. \A m \in Months : m \in 0..MaxMonth
  BY BoundAssumption DEF Months
<1>5. ASSUME NEW w \in Workers, NEW m \in Months, BillPeriod(w, m)
      PROVE  pc' \in [Workers -> Steps] /\ job' \in [Workers -> Jobs]
  <2>1. Job(None, m, None, UsageForPeriod(m), {}) \in Jobs
    BY <1>4, RecordsType DEF Job, Jobs
  <2> QED  BY <1>3, <1>5, <2>1 DEF BillPeriod, Steps
<1>6. ASSUME NEW w \in Workers, NEW t \in Tenants, NEW m \in Months, GenerateInvoice(w, t, m)
      PROVE  pc' \in [Workers -> Steps] /\ job' \in [Workers -> Jobs]
  <2>1. \A i \in Ids \cup {None} : Job(t, m, i, {}, {}) \in Jobs
    BY <1>4 DEF Job, Jobs
  <2> QED  BY <1>3, <1>6, <2>1 DEF GenerateInvoice, Steps
<1>7. ASSUME NEW w \in Workers, NEW i \in Ids, FinalizeInvoice(w, i)
      PROVE  pc' \in [Workers -> Steps] /\ job' \in [Workers -> Jobs]
  <2>1. Job(None, 0, i, {}, {}) \in Jobs
    BY BoundAssumption DEF Job, Jobs
  <2> QED  BY <1>3, <1>7, <2>1 DEF FinalizeInvoice, Steps
<1>8. ASSUME NEW w \in Workers, NEW u \in job[w].todo, NEW o \in Outcomes,
             ProcessingSingleRecord(w, u, o)
      PROVE  pc' \in [Workers -> Steps] /\ job' \in [Workers -> Jobs]
  <2>1. [job[w] EXCEPT !.todo = @ \ {u}] \in Jobs
    BY DEF Jobs
  <2> QED  BY <1>2, <1>3, <1>8, <2>1 DEF ProcessingSingleRecord, RecordDone, Steps
<1>9. ASSUME NEW w \in Workers, NEW o \in Outcomes, DeleteInvoice(w, o)
      PROVE  pc' \in [Workers -> Steps] /\ job' \in [Workers -> Jobs]
  <2>1. [job[w] EXCEPT !.id = None] \in Jobs
    BY DEF Jobs
  <2> QED  BY <1>2, <1>3, <1>9, <2>1 DEF DeleteInvoice, Steps
<1>10. ASSUME NEW w \in Workers, ReadLedger(w)
       PROVE  pc' \in [Workers -> Steps] /\ job' \in [Workers -> Jobs]
  <2>1. [job[w] EXCEPT !.rows = EntriesForPeriod(job[w].tenant, job[w].month)] \in Jobs
    BY DEF Jobs, EntriesForPeriod
  <2> QED  BY <1>2, <1>3, <1>10, <2>1 DEF ReadLedger, Steps
<1>11. ASSUME NEW w \in Workers, NEW o \in Outcomes,
              StoreFinalizeInvoice(w, o) \/ \E i \in Ids : CreateInvoice(w, i, o)
       PROVE  pc' \in [Workers -> Steps] /\ job' \in [Workers -> Jobs]
  BY <1>2, <1>11 DEF StoreFinalizeInvoice, CreateInvoice
<1> QED
  BY <1>5, <1>6, <1>7, <1>8, <1>9, <1>10, <1>11
  DEF Next, JobStep, AddUsage, MonthEnds, PostEntry, RecordCredit, MarkInvoicePaid

LEMMA TypeStep ==
  ASSUME TypeOK, JobInv, SlotInv, Next
  PROVE  TypeOK'
<1>1. month' \in Months
  <2>1. month' = month \/ MonthEnds
    BY DEF Next, JobStep, ReadLedger, DeleteInvoice, StoreFinalizeInvoice, CreateInvoice,
           ProcessingSingleRecord, BillPeriod, GenerateInvoice, FinalizeInvoice, AddUsage,
           MarkInvoicePaid, PostEntry, RecordCredit
  <2> QED  BY <2>1, BoundAssumption DEF TypeOK, Months, MonthEnds
<1>2. unposted' \subseteq [id : Ids, tenant : Tenants, currency : Currencies]
  <2>1. ASSUME NEW i \in Ids, MarkInvoicePaid(i)
        PROVE  unposted' \subseteq [id : Ids, tenant : Tenants, currency : Currencies]
    BY <2>1 DEF MarkInvoicePaid, TypeOK, SlotInv, Exists
  <2> QED
    BY <2>1
    DEF TypeOK, Next, JobStep, ReadLedger, DeleteInvoice, StoreFinalizeInvoice,
        CreateInvoice, ProcessingSingleRecord, BillPeriod, GenerateInvoice,
        FinalizeInvoice, AddUsage, MonthEnds, PostEntry, RecordCredit
<1> QED  BY <1>1, <1>2, NothingShrinks, InvoicesType, JobsType DEF TypeOK

\* What a worker knows stays true while others take steps.
LEMMA JobKept ==
  ASSUME TypeOK, JobInv, Next, NEW v \in Workers, UNCHANGED <<pc[v], job[v]>>
  PROVE  JobOK(v)'
<1> DEFINE j == job[v]
<1>0. JobOK(v) /\ j \in Jobs /\ job'[v] = j /\ pc'[v] = pc[v]
  BY DEF JobInv, TypeOK
<1>1. ASSUME pc[v] = "bill", NEW u \in j.todo
      PROVE  u.quantity \in 1..usage'[<<u.tenant, u.kind, j.month>>]
  <2>1. <<u.tenant, u.kind, j.month>> \in Tenants \X Kinds \X Months
    BY <1>0, <1>1 DEF JobOK, Jobs, UsageRecords
  <2>2. u.quantity \in 1..usage[<<u.tenant, u.kind, j.month>>]
    BY <1>0, <1>1 DEF JobOK
  <2>3. /\ usage[<<u.tenant, u.kind, j.month>>] \in Nat
        /\ usage'[<<u.tenant, u.kind, j.month>>] \in Nat
        /\ usage[<<u.tenant, u.kind, j.month>>] <= usage'[<<u.tenant, u.kind, j.month>>]
    BY <2>1, NothingShrinks, BoundAssumption DEF TypeOK
  <2> QED  BY <2>2, <2>3
<1>2. ASSUME pc[v] = "create"
      PROVE  OfPeriod(job[v].rows, job[v].tenant, job[v].month)'
  <2>1. PICK t, m, rows : t = j.tenant /\ m = j.month /\ rows = j.rows
    OBVIOUS
  <2>2. OfPeriod(rows, t, m)'
    BY <1>2, <2>1, CreateJob, NothingShrinks, PeriodGrows
  <2> QED  BY <1>0, <2>1, <2>2
<1>3. ASSUME pc[v] = "finalize"
      PROVE  /\ invoices'[j.id].status # "absent"
             /\ Exists(job[v].id)' => HasLines(invoices'[j.id].rows)
  <2>1. PICK i : i = j.id
    OBVIOUS
  <2>2. /\ i \in Ids /\ invoices[i].status # "absent"
        /\ Exists(i) => HasLines(invoices[i].rows)
    BY <1>0, <1>3, <2>1 DEF JobOK
  <2>3. /\ invoices'[i].status # "absent"
        /\ Exists(i)' => HasLines(invoices'[i].rows)
    BY <2>2, InvoicesKept
  <2> QED  BY <1>0, <2>1, <2>3 DEF Exists
<1> QED  BY <1>0, <1>1, <1>2, <1>3 DEF JobOK

LEMMA OthersKept ==
  ASSUME TypeOK, JobInv, Next, NEW w \in Workers, JobOK(w)',
         \A v \in Workers \ {w} : UNCHANGED <<pc[v], job[v]>>
  PROVE  JobInv'
BY JobKept DEF JobInv

LEMMA JobStepKeeps ==
  ASSUME TypeOK, JobInv, SlotInv, Next
  PROVE  JobInv'
<1> USE DEF TypeOK
<1>1. ASSUME NEW w \in Workers, Finish(w)
      PROVE  JobInv'
  <2>1. JobOK(w)'
    BY <1>1 DEF Finish, JobOK
  <2>2. \A v \in Workers \ {w} : UNCHANGED <<pc[v], job[v]>>
    BY <1>1 DEF Finish
  <2> QED  BY <2>1, <2>2, OthersKept
<1>2. ASSUME NEW w \in Workers, NEW m \in Months, BillPeriod(w, m)
      PROVE  JobInv'
  <2>1. /\ pc'[w] = "bill" /\ job'[w].month = m /\ job'[w].todo = UsageForPeriod(m)
        /\ UNCHANGED usage
        /\ \A v \in Workers \ {w} : UNCHANGED <<pc[v], job[v]>>
    BY <1>2 DEF BillPeriod, Begin, Job
  <2>2. JobOK(w)'
    BY <2>1, RecordsType DEF JobOK
  <2> QED  BY <2>1, <2>2, OthersKept
<1>3. ASSUME NEW w \in Workers, NEW t \in Tenants, NEW m \in Months, GenerateInvoice(w, t, m)
      PROVE  JobInv'
  <2>1. /\ job'[w].tenant = t
        /\ pc'[w] = "read" \/ (pc'[w] = "delete" /\ job'[w].id \in Ids)
        /\ \A v \in Workers \ {w} : UNCHANGED <<pc[v], job[v]>>
    BY <1>3 DEF GenerateInvoice, Begin, Job
  <2>2. JobOK(w)'
    BY <2>1 DEF JobOK
  <2> QED  BY <2>1, <2>2, OthersKept
<1>4. ASSUME NEW w \in Workers, NEW i \in Ids, FinalizeInvoice(w, i)
      PROVE  JobInv'
  <2>1. /\ pc'[w] = "finalize" /\ job'[w].id = i /\ UNCHANGED invoices
        /\ \A v \in Workers \ {w} : UNCHANGED <<pc[v], job[v]>>
    BY <1>4 DEF FinalizeInvoice, Begin, Job
  <2>2. invoices[i].status = "DRAFT" /\ HasLines(invoices[i].rows)
    BY <1>4 DEF FinalizeInvoice, Finalizable
  <2>3. JobOK(w)'
    BY <2>1, <2>2 DEF JobOK
  <2> QED  BY <2>1, <2>3, OthersKept
<1>5. ASSUME NEW w \in Workers, NEW u \in job[w].todo, NEW o \in Outcomes,
             ProcessingSingleRecord(w, u, o)
      PROVE  JobInv'
  <2>1. CASE Finish(w)
    BY <1>1, <2>1
  <2>2. CASE ~Finish(w)
    <3>1. /\ pc[w] = "bill" /\ pc'[w] = "bill" /\ job'[w].month = job[w].month
          /\ job'[w].todo = job[w].todo \ {u} /\ UNCHANGED usage
          /\ \A v \in Workers \ {w} : UNCHANGED <<pc[v], job[v]>>
      BY <1>5, <2>2 DEF ProcessingSingleRecord, RecordDone, Goto, Jobs
    <3>2. JobOK(w)'
      BY <3>1 DEF JobInv, JobOK
    <3> QED  BY <3>1, <3>2, OthersKept
  <2> QED  BY <2>1, <2>2
<1>6. ASSUME NEW w \in Workers, NEW o \in Outcomes, DeleteInvoice(w, o)
      PROVE  JobInv'
  <2>1. CASE Finish(w)
    BY <1>1, <2>1
  <2>2. CASE ~Finish(w)
    <3>1. /\ pc[w] = "delete" /\ pc'[w] = "read" /\ job'[w].tenant = job[w].tenant
          /\ \A v \in Workers \ {w} : UNCHANGED <<pc[v], job[v]>>
      BY <1>6, <2>2 DEF DeleteInvoice, Goto, Jobs
    <3>2. JobOK(w)'
      BY <3>1 DEF JobInv, JobOK
    <3> QED  BY <3>1, <3>2, OthersKept
  <2> QED  BY <2>1, <2>2
<1>7. ASSUME NEW w \in Workers, ReadLedger(w)
      PROVE  JobInv'
  <2>1. CASE Finish(w)
    BY <1>1, <2>1
  <2>2. CASE ~Finish(w)
    <3>1. PICK t, m, rows : /\ t = job[w].tenant /\ m = job[w].month
                            /\ rows = EntriesForPeriod(t, m)
      OBVIOUS
    <3>2. /\ pc[w] = "read" /\ pc'[w] = "create" /\ job'[w].tenant = t
          /\ job'[w].month = m /\ job'[w].rows = rows /\ OneCurrency(rows)
          /\ \A v \in Workers \ {w} : UNCHANGED <<pc[v], job[v]>>
      BY <1>7, <2>2, <3>1 DEF ReadLedger, Goto, Jobs
    <3>3. OfPeriod(rows, t, m)' /\ t \in Tenants
      BY <3>1, <3>2, NothingShrinks, PeriodGrows DEF OfPeriod, JobInv, JobOK
    <3>4. JobOK(w)'
      BY <3>2, <3>3 DEF JobOK
    <3> QED  BY <3>2, <3>4, OthersKept
  <2> QED  BY <2>1, <2>2
<1>8. CASE UNCHANGED <<pc, job>>
  BY <1>8, JobKept DEF JobInv
<1> QED
  BY <1>1, <1>2, <1>3, <1>4, <1>5, <1>6, <1>7, <1>8
  DEF Next, JobStep, AddUsage, MonthEnds, PostEntry, RecordCredit, MarkInvoicePaid,
      StoreFinalizeInvoice, CreateInvoice

LEMMA Inductive ==
  ASSUME IInv, [Next]_vars
  PROVE  IInv'
<1>1. CASE Next
  BY <1>1, TypeStep, LedgerStep, SlotStep, JobStepKeeps DEF IInv
<1>2. CASE UNCHANGED vars
  <2> USE <1>2 DEF vars
  <2>1. TypeOK'
    BY DEF IInv, TypeOK, Exists
  <2>2. LedgerInv'
    BY DEF IInv, LedgerInv, UniqueRefs, PricedFairly, PriceRule, InForce, Precedes
  <2>3. SlotInv'
    BY DEF IInv, SlotInv, Exists, IsFor, OfPeriod, EntriesForPeriod, InPeriod, OneCurrency
  <2>4. JobInv'
    BY DEF IInv, JobInv, JobOK, Exists, OfPeriod, EntriesForPeriod, InPeriod, OneCurrency
  <2> QED  BY <2>1, <2>2, <2>3, <2>4 DEF IInv
<1> QED  BY <1>1, <1>2

(***************************************************************************)
(* The inductive invariant holds in every reachable state of billing and   *)
(* invoicing.                                                              *)
(***************************************************************************)
THEOREM Invariance == Spec => []IInv
<1>1. Init => IInv
  BY InitIInv
<1>2. IInv /\ [Next]_vars => IInv'
  BY Inductive
<1> QED  BY <1>1, <1>2, PTL DEF Spec

(***************************************************************************)
(* Type correctness, with the CHECKs of the invoice tables.                *)
(***************************************************************************)
THEOREM TypeCorrect == Spec => []TypeOK
<1>1. IInv => TypeOK
  BY DEF IInv
<1> QED  BY <1>1, Invariance, PTL

(***************************************************************************)
(* Usage is billed at most once however BillPeriod runs overlap, and never *)
(* for more than was used.                                                 *)
(***************************************************************************)
THEOREM UsageIsBilledOnce == Spec => []BilledOnce
<1>1. IInv => BilledOnce
  BY DEF IInv, LedgerInv, UniqueRefs, PricedFairly, BilledOnce
<1> QED  BY <1>1, Invariance, PTL

(***************************************************************************)
(* No ledger row is on two invoices.                                       *)
(***************************************************************************)
THEOREM RowsAreChargedOnce == Spec => []ChargedOnce
<1>1. ASSUME IInv PROVE ChargedOnce
  <2> SUFFICES ASSUME NEW i \in Ids, NEW j \in Ids, Exists(i), Exists(j), i # j,
                      NEW r \in invoices[i].rows, r \in invoices[j].rows
               PROVE  FALSE
    BY DEF ChargedOnce
  <2>1. /\ r.tenant = invoices[i].tenant /\ r.month = invoices[i].month
        /\ r.tenant = invoices[j].tenant /\ r.month = invoices[j].month
    BY <1>1 DEF IInv, SlotInv, OfPeriod, EntriesForPeriod, InPeriod
  <2> QED  BY <1>1, <2>1 DEF IInv, SlotInv, IsFor
<1> QED  BY <1>1, Invariance, PTL

(***************************************************************************)
(* A finalized invoice has lines, in one currency, of its own month.       *)
(***************************************************************************)
THEOREM FinalizedWasSound == Spec => []FinalizedIsSound
<1>1. IInv => FinalizedIsSound
  BY DEF IInv, TypeOK, SlotInv, OfPeriod, FinalizedIsSound, Exists
<1> QED  BY <1>1, Invariance, PTL

(***************************************************************************)
(* What exists of an invoice never changes but for its status, which only  *)
(* moves on.                                                               *)
(***************************************************************************)
THEOREM InvoicesAreImmutable == Spec => InvoiceIsImmutable
<1> DEFINE Same(i) ==
      \/ invoices'[i] = invoices[i]
      \/ /\ <<invoices[i].status, invoices'[i].status>> \in MovesOn
         /\ invoices'[i] = [invoices[i] EXCEPT !.status = invoices'[i].status]
<1>1. ASSUME IInv, [Next]_vars, NEW i \in Ids, Exists(i), Exists(i)'
      PROVE  Same(i)
  <2> USE <1>1 DEF IInv
  <2>1. CASE UNCHANGED vars
    BY <2>1 DEF vars
  <2>2. CASE Next
    <3>1. CASE invoices' = invoices
      BY <3>1
    <3>2. ASSUME NEW x \in Ids, Created(x)
          PROVE  Same(i)
      BY <3>2 DEF Created, Exists, TypeOK
    <3>3. ASSUME NEW x \in Ids, Deleted(x)
          PROVE  Same(i)
      BY <3>3 DEF Deleted, Exists, Invoice, TypeOK
    <3>4. ASSUME NEW x \in Ids, NEW s \in {"FINALIZED", "PAID"}, Moved(x, s)
          PROVE  Same(i)
      <4>1. /\ <<invoices[x].status, s>> \in MovesOn
            /\ invoices' = [invoices EXCEPT ![x] = [invoices[x] EXCEPT !.status = s]]
            /\ invoices[x] \in InvoiceRows
        BY <3>4 DEF Moved, TypeOK
      <4>2. [invoices[x] EXCEPT !.status = s].status = s
        BY <4>1 DEF InvoiceRows
      <4> QED  BY <4>1, <4>2 DEF TypeOK
    <3> QED  BY <2>2, <3>1, <3>2, <3>3, <3>4, InvoiceSteps
  <2> QED  BY <2>1, <2>2
<1>2. IInv /\ [Next]_vars =>
        [\A i \in Ids : Exists(i) /\ Exists(i)' => Same(i)]_vars
  BY <1>1
<1> QED  BY <1>2, Invariance, PTL DEF Spec, InvoiceIsImmutable

-----------------------------------------------------------------------------
(***************************************************************************)
(* Sums.  SumFunctionOnSet is a recursion over the subsets of a finite     *)
(* set: it exists and says the same wherever it is defined by induction on *)
(* the number of members, in the form of a least counterexample.           *)
(***************************************************************************)
\* Every set of numbers that is not empty has a least member.
LEMMA LeastMember ==
  ASSUME NEW T, T \subseteq Nat, T # {}
  PROVE  \E m \in T : \A n \in T : m <= n
<1>1. PICK m \in T : \A n \in T : ~ (<<n, m>> \in OpToRel(<, Nat))
  BY WFMin, NatLessThanWellFounded
<1>2. ASSUME NEW n \in T PROVE m <= n
  <2>1. <<n, m>> \in OpToRel(<, Nat) <=> n < m
    BY DEF OpToRel
  <2>2. ~ (n < m)
    BY <1>1, <2>1
  <2>3. QED
    BY <2>2
<1>3. QED
  BY <1>2

\* A set that holds 0 and with n also n + 1 holds every number.
LEMMA UpToAny ==
  ASSUME NEW T, 0 \in T, \A n \in Nat : n \in T => n + 1 \in T
  PROVE  Nat \subseteq T
<1> DEFINE Out == Nat \ T
<1>1. SUFFICES ASSUME Out # {} PROVE FALSE
  OBVIOUS
<1>2. Out \subseteq Nat
  OBVIOUS
<1>3. PICK m \in Out : \A n \in Out : m <= n
  <2> HIDE DEF Out
  <2>1. QED
    BY <1>1, <1>2, LeastMember
<1>4. m - 1 \in Nat /\ m - 1 \notin Out
  BY <1>3
<1>5. QED
  BY <1>3, <1>4

Member(s) == CHOOSE x \in s : TRUE

\* What f says of s when it adds g up, a member at a time.
Adds(f, g, s) == f[s] = IF s = {} THEN 0 ELSE g[Member(s)] + f[s \ {Member(s)}]

\* f adds g up over every subset of S.
Sums(f, g, S) ==
  f = [s \in SUBSET S |-> IF s = {} THEN 0 ELSE g[Member(s)] + f[s \ {Member(s)}]]

LEMMA SumsBody ==
  ASSUME NEW g, NEW S
  PROVE  SumFunctionOnSet(g, S) = (CHOOSE f : Sums(f, g, S))[S]
  BY DEF SumFunctionOnSet, FoldFunctionOnSet, MapThenFoldSet, Sums, Member

LEMMA Smaller ==
  ASSUME NEW s, IsFiniteSet(s), NEW x \in s
  PROVE  /\ IsFiniteSet(s \ {x})
         /\ Cardinality(s) \in Nat
         /\ Cardinality(s \ {x}) \in Nat
         /\ Cardinality(s \ {x}) = Cardinality(s) - 1
  BY FS_RemoveElement, FS_CardinalityType

LEMMA MemberIn == ASSUME NEW s, s # {} PROVE Member(s) \in s
  BY DEF Member

\* Subsets of a finite set: finite, of a natural number of members, no more than it has.
LEMMA Parts ==
  ASSUME NEW S, IsFiniteSet(S), NEW s \in SUBSET S
  PROVE  IsFiniteSet(s) /\ Cardinality(s) \in Nat /\ Cardinality(s) <= Cardinality(S)
  BY FS_Subset, FS_CardinalityType

LEMMA SumsExist ==
  ASSUME NEW g, NEW S, IsFiniteSet(S)
  PROVE  \E f : Sums(f, g, S)
<1> DEFINE UpTo(f, n) == \A s \in SUBSET S : Cardinality(s) <= n => Adds(f, g, s)
           T == {n \in Nat : \E f : UpTo(f, n)}
<1>1. 0 \in T
  <2>1. UpTo([s \in SUBSET S |-> 0], 0)
    <3>1. SUFFICES ASSUME NEW s \in SUBSET S, Cardinality(s) <= 0
                   PROVE  s = {}
      BY DEF Adds
    <3>2. QED
      BY <3>1, Parts, FS_EmptySet
  <2>2. QED
    BY <2>1
<1>2. ASSUME NEW n \in Nat, n \in T PROVE n + 1 \in T
  <2>1. PICK f : UpTo(f, n)
    BY <1>2
  <2> DEFINE Further(s) == IF s = {} THEN 0 ELSE g[Member(s)] + f[s \ {Member(s)}]
             h == [s \in SUBSET S |-> IF Cardinality(s) <= n THEN f[s] ELSE Further(s)]
  <2>2. ASSUME NEW s \in SUBSET S, Cardinality(s) <= n + 1 PROVE Adds(h, g, s)
    <3>1. h[s] = Further(s)
      BY <2>1 DEF Adds
    <3>2. ASSUME s # {} PROVE h[s \ {Member(s)}] = f[s \ {Member(s)}]
      <4>1. Member(s) \in s
        BY <3>2, MemberIn
      <4>2. Cardinality(s \ {Member(s)}) <= n
        BY <4>1, <2>2, Smaller, Parts
      <4>3. QED
        BY <4>2
    <3> HIDE DEF h
    <3>3. QED
      BY <3>1, <3>2 DEF Adds
  <2>3. UpTo(h, n + 1)
    BY <2>2
  <2>4. \E u : UpTo(u, n + 1)
    <3> HIDE DEF h, UpTo
    <3>1. QED
      BY <2>3
  <2>5. QED
    BY <2>4
<1>3. Cardinality(S) \in Nat /\ \A s \in SUBSET S : Cardinality(s) <= Cardinality(S)
  BY Parts, FS_CardinalityType
<1>4. Cardinality(S) \in T
  <2> HIDE DEF T
  <2>1. QED
    BY <1>1, <1>2, <1>3, UpToAny
<1>5. PICK f : UpTo(f, Cardinality(S))
  BY <1>4
<1> DEFINE h == [s \in SUBSET S |-> f[s]]
<1>6. ASSUME NEW s \in SUBSET S
      PROVE  h[s] = IF s = {} THEN 0 ELSE g[Member(s)] + h[s \ {Member(s)}]
  <2>1. Adds(f, g, s)
    BY <1>5, <1>3
  <2>2. h[s] = f[s] /\ h[s \ {Member(s)}] = f[s \ {Member(s)}]
    OBVIOUS
  <2>3. QED
    BY <2>1, <2>2 DEF Adds
<1>7. h = [s \in SUBSET S |-> h[s]]
  OBVIOUS
<1> HIDE DEF h
<1>8. h = [s \in SUBSET S |-> IF s = {} THEN 0 ELSE g[Member(s)] + h[s \ {Member(s)}]]
  BY <1>6, <1>7, Zenon
<1>9. QED
  BY <1>8 DEF Sums

\* Two such functions agree on the sets they have in common.
LEMMA SumsAgree ==
  ASSUME NEW g, NEW S, NEW U, NEW f, NEW h, Sums(f, g, S), Sums(h, g, U),
         NEW s \in SUBSET (S \cap U), IsFiniteSet(s)
  PROVE  f[s] = h[s]
<1> DEFINE Wrong == {n \in Nat : \E r \in SUBSET s : Cardinality(r) = n /\ f[r] # h[r]}
<1>1. SUFFICES ASSUME f[s] # h[s] PROVE FALSE
  OBVIOUS
<1>2. Wrong # {} /\ Wrong \subseteq Nat
  BY <1>1, Parts
<1>3. PICK n \in Wrong : \A m \in Wrong : n <= m
  <2> HIDE DEF Wrong
  <2>1. QED
    BY <1>2, LeastMember
<1>4. PICK r \in SUBSET s : Cardinality(r) = n /\ f[r] # h[r]
  BY <1>3
<1>5. /\ f[r] = IF r = {} THEN 0 ELSE g[Member(r)] + f[r \ {Member(r)}]
      /\ h[r] = IF r = {} THEN 0 ELSE g[Member(r)] + h[r \ {Member(r)}]
  BY DEF Sums
<1>6. r # {}
  BY <1>4, <1>5
<1>7. f[r \ {Member(r)}] # h[r \ {Member(r)}]
  BY <1>4, <1>5, <1>6
<1>8. /\ Cardinality(r \ {Member(r)}) \in Nat
      /\ Cardinality(r \ {Member(r)}) = n - 1
  BY <1>4, <1>6, MemberIn, Smaller, Parts
<1>9. Cardinality(r \ {Member(r)}) \in Wrong
  BY <1>7, <1>8
<1>10. n \in Nat /\ n - 1 \in Wrong
  BY <1>8, <1>9
<1>11. n <= n - 1
  <2> HIDE DEF Wrong
  <2>1. QED
    BY <1>3, <1>10
<1>12. QED
  BY <1>10, <1>11

\* The sum over nothing is 0, and any member can be taken out of a sum first.
LEMMA SumIs ==
  ASSUME NEW g, NEW S, IsFiniteSet(S), NEW f, Sums(f, g, S), NEW s \in SUBSET S
  PROVE  SumFunctionOnSet(g, s) = f[s]
<1>1. IsFiniteSet(s)
  BY Parts
<1>2. Sums(CHOOSE k : Sums(k, g, s), g, s)
  BY <1>1, SumsExist
<1>3. s \in SUBSET (S \cap s)
  OBVIOUS
<1>4. PICK h : h = CHOOSE k : Sums(k, g, s)
  OBVIOUS
<1>5. f[s] = h[s]
  BY <1>1, <1>2, <1>3, <1>4, SumsAgree
<1>6. QED
  BY <1>4, <1>5, SumsBody

(***************************************************************************)
(* The sum over nothing is 0, and any member can be taken out first.  The  *)
(* member that the definition takes out is y; without x and y both orders  *)
(* leave the same.                                                         *)
(***************************************************************************)
LEMMA SumOfNone == ASSUME NEW g PROVE SumFunctionOnSet(g, {}) = 0
<1>1. PICK f : Sums(f, g, {})
  BY SumsExist, FS_EmptySet
<1>2. SumFunctionOnSet(g, {}) = f[{}]
  BY <1>1, SumIs, FS_EmptySet
<1>3. QED
  BY <1>1, <1>2 DEF Sums

LEMMA SumTakesOut ==
  ASSUME NEW S, IsFiniteSet(S), NEW D, S \subseteq D, NEW g \in [D -> Int]
  PROVE  /\ SumFunctionOnSet(g, S) \in Int
         /\ \A x \in S : SumFunctionOnSet(g, S) = g[x] + SumFunctionOnSet(g, S \ {x})
<1>1. PICK f : Sums(f, g, S)
  BY SumsExist
<1> DEFINE Right(s) == f[s] \in Int /\ \A x \in s : f[s] = g[x] + f[s \ {x}]
           Wrong == {n \in Nat : \E s \in SUBSET S : Cardinality(s) = n /\ ~Right(s)}
<1>2. ASSUME Wrong # {} PROVE FALSE
  <2>1. Wrong \subseteq Nat
    OBVIOUS
  <2>2. PICK n \in Wrong : \A m \in Wrong : n <= m
    <3> HIDE DEF Wrong
    <3>1. QED
      BY <1>2, <2>1, LeastMember
  <2>3. PICK s \in SUBSET S : Cardinality(s) = n /\ ~Right(s)
    BY <2>2
  <2>4. ASSUME NEW r \in SUBSET S, Cardinality(r) \in Nat, Cardinality(r) < n
        PROVE  Right(r)
    <3>1. Cardinality(r) \notin Wrong
      <4> HIDE DEF Wrong
      <4>1. QED
        BY <2>1, <2>2, <2>4
    <3>2. QED
      BY <2>4, <3>1
  <2> HIDE DEF Wrong
  <2>5. \A r \in SUBSET S : f[r] = IF r = {} THEN 0 ELSE g[Member(r)] + f[r \ {Member(r)}]
    BY <1>1 DEF Sums
  <2>6. s # {}
    BY <2>3, <2>5
  <2>7. PICK y \in s : y = Member(s)
    BY <2>6, MemberIn
  <2>8. f[s] = g[y] + f[s \ {y}]
    BY <2>5, <2>6, <2>7
  <2>9. \A x \in s : /\ Cardinality(s \ {x}) \in Nat
                     /\ Cardinality(s \ {x}) < n
    BY <2>3, Smaller, Parts
  <2>10. Right(s \ {y})
    BY <2>4, <2>9
  <2>11. f[s] \in Int
    BY <2>8, <2>10
  <2>12. ASSUME NEW x \in s, x # y PROVE f[s] = g[x] + f[s \ {x}]
    <3>1. Right(s \ {x})
      BY <2>4, <2>9
    <3>2. f[s \ {y}] = g[x] + f[(s \ {y}) \ {x}]
      BY <2>10, <2>12
    <3>3. f[s \ {x}] = g[y] + f[(s \ {x}) \ {y}]
      BY <3>1, <2>12
    <3>4. (s \ {x}) \ {y} = (s \ {y}) \ {x}
      OBVIOUS
    <3>5. f[(s \ {y}) \ {x}] \in Int
      <4>1. (s \ {y}) \ {x} \in SUBSET S /\ IsFiniteSet(s \ {y}) /\ x \in s \ {y}
        BY <2>12, Parts
      <4>2. Cardinality((s \ {y}) \ {x}) \in Nat /\ Cardinality((s \ {y}) \ {x}) < n
        <5>1. PICK r : r = s \ {y}
          OBVIOUS
        <5>2. Cardinality(r) \in Nat /\ Cardinality(r) < n /\ n \in Nat
          BY <5>1, <2>1, <2>9
        <5>3. Cardinality(r \ {x}) \in Nat /\ Cardinality(r \ {x}) = Cardinality(r) - 1
          BY <4>1, <5>1, Smaller
        <5>4. Cardinality(r \ {x}) < n
          BY <5>2, <5>3
        <5>5. QED
          BY <5>1, <5>3, <5>4
      <4>3. QED
        BY <4>1, <4>2, <2>4
    <3>6. g[x] \in Int /\ g[y] \in Int
      OBVIOUS
    <3>7. PICK rest \in Int : rest = f[(s \ {y}) \ {x}]
      BY <3>5
    <3>8. f[s] = g[y] + (g[x] + rest)
      BY <2>8, <3>2, <3>7
    <3>9. f[s \ {x}] = g[y] + rest
      BY <3>3, <3>4, <3>7
    <3>10. g[y] + (g[x] + rest) = g[x] + (g[y] + rest)
      BY <3>6
    <3>11. QED
      BY <3>8, <3>9, <3>10
  <2>13. QED
    BY <2>3, <2>8, <2>11, <2>12
<1>3. \A s \in SUBSET S : Right(s)
  <2>1. ASSUME NEW s \in SUBSET S, ~Right(s) PROVE FALSE
    <3>1. Cardinality(s) \in Nat
      BY Parts
    <3>2. Cardinality(s) \in Wrong
      BY <3>1, <2>1
    <3>3. QED
      BY <3>2, <1>2
  <2>2. QED
    BY <2>1
<1>4. \A s \in SUBSET S : SumFunctionOnSet(g, s) = f[s]
  BY <1>1, SumIs
<1>5. QED
  BY <1>3, <1>4

\* g has the same value c from a + 1 to b, which are n numbers in all.
Level(g, c, a, b, n) == b = a + n /\ \A u \in (a + 1)..b : g[u] = c

LEMMA SumOfEqual ==
  ASSUME NEW q \in Nat, NEW g \in [1..q -> Int], NEW a \in Nat, NEW b \in Nat,
         b <= q, NEW n \in Nat, NEW c \in Int, Level(g, c, a, b, n)
  PROVE  SumFunctionOnSet(g, 1..b) = SumFunctionOnSet(g, 1..a) + n * c
<1> DEFINE S(k) == SumFunctionOnSet(g, 1..k)
           T == {k \in Nat : k <= n => S(a + k) = S(a) + k * c}
<1>a. b = a + n /\ \A u \in (a + 1)..b : g[u] = c
  BY DEF Level
<1>1. \A k \in Nat : k <= q => S(k) \in Int
  <2>1. ASSUME NEW k \in Nat, k <= q PROVE S(k) \in Int
    <3>1. IsFiniteSet(1..k) /\ 1..k \subseteq 1..q
      BY <2>1, FS_Interval
    <3>2. QED
      BY <3>1, SumTakesOut
  <2>2. QED
    BY <2>1
<1>2. 0 \in T
  BY <1>1, <1>a
<1>3. ASSUME NEW k \in Nat, k \in T PROVE k + 1 \in T
  <2>1. SUFFICES ASSUME k + 1 <= n PROVE S(a + (k + 1)) = S(a) + (k + 1) * c
    OBVIOUS
  <2>2. S(a + k) = S(a) + k * c
    BY <1>3, <2>1, <1>a
  <2>3. a + (k + 1) \in 1..(a + (k + 1)) /\ g[a + (k + 1)] = c
    BY <2>1, <1>a
  <2>4. (1..(a + (k + 1))) \ {a + (k + 1)} = 1..(a + k)
    OBVIOUS
  <2>5. S(a + (k + 1)) = c + S(a + k)
    <3>1. PICK units : units = 1..(a + (k + 1))
      OBVIOUS
    <3>2. IsFiniteSet(units) /\ units \subseteq 1..q /\ a + (k + 1) \in units
      BY <2>1, <3>1, <1>a, FS_Interval
    <3>3. SumFunctionOnSet(g, units)
            = g[a + (k + 1)] + SumFunctionOnSet(g, units \ {a + (k + 1)})
      BY <3>2, SumTakesOut
    <3>4. QED
      BY <3>1, <3>3, <2>3, <2>4
  <2>6. S(a) \in Int /\ S(a + k) \in Int
    BY <1>1, <2>1, <1>a
  <2> HIDE DEF S
  <2>7. (k + 1) * c = k * c + c /\ k * c \in Int
    OBVIOUS
  <2>8. QED
    BY <2>2, <2>5, <2>6, <2>7
<1>4. n \in T
  <2> HIDE DEF T
  <2>1. QED
    BY <1>2, <1>3, UpToAny
<1>5. QED
  BY <1>4, <1>a

\* Functions that say the same of every member of a set have the same sum over it.
LEMMA SumSame ==
  ASSUME NEW S, IsFiniteSet(S), NEW g, NEW h, \A x \in S : g[x] = h[x]
  PROVE  SumFunctionOnSet(g, S) = SumFunctionOnSet(h, S)
<1>1. PICK f : Sums(f, g, S)
  BY SumsExist
<1>2. ASSUME NEW s \in SUBSET S
      PROVE  (IF s = {} THEN 0 ELSE g[Member(s)] + f[s \ {Member(s)}])
               = (IF s = {} THEN 0 ELSE h[Member(s)] + f[s \ {Member(s)}])
  <2>1. s # {} => g[Member(s)] = h[Member(s)]
    BY MemberIn
  <2>2. QED
    BY <2>1
<1>3. Sums(f, h, S)
  BY <1>1, <1>2 DEF Sums
<1>4. QED
  BY <1>1, <1>3, SumIs

-----------------------------------------------------------------------------
(***************************************************************************)
(* An invoice adds up.  The generator adds an entry to the header's total  *)
(* and to the line of its usage type; lines that come to zero are dropped. *)
(***************************************************************************)
Amounts(rows) == [r \in rows |-> Signed(r)]

\* The lines' totals as the rows give them, without any left out.
LineTotals(rows) == [k \in Kinds |-> LineTotal(rows, k)]

OfKind(rows, k) == {r \in rows : r.kind = k}

\* The sum of an operator over a set, as Invoicing has it, is that of a function.
LEMMA SignedSum ==
  ASSUME NEW S, IsFiniteSet(S), NEW D, S \subseteq D
  PROVE  MapThenSumSet(Signed, S) = SumFunctionOnSet(Amounts(D), S)
<1> DEFINE SignedSums(f) ==
      f = [s \in SUBSET S |-> IF s = {} THEN 0 ELSE Signed(Member(s)) + f[s \ {Member(s)}]]
<1>1. MapThenSumSet(Signed, S) = (CHOOSE f : SignedSums(f))[S]
  BY DEF MapThenSumSet, MapThenFoldSet, Member
<1>2. \A s \in SUBSET S : s # {} => Amounts(D)[Member(s)] = Signed(Member(s))
  BY MemberIn DEF Amounts
<1>3. ASSUME NEW f PROVE SignedSums(f) <=> Sums(f, Amounts(D), S)
  <2>1. ASSUME NEW s \in SUBSET S
        PROVE  (IF s = {} THEN 0 ELSE Signed(Member(s)) + f[s \ {Member(s)}])
                 = (IF s = {} THEN 0 ELSE Amounts(D)[Member(s)] + f[s \ {Member(s)}])
    BY <1>2
  <2>2. QED
    BY <2>1 DEF Sums
<1> HIDE DEF SignedSums
<1>4. \E f : SignedSums(f)
  BY <1>3, SumsExist
<1>5. PICK f : f = CHOOSE k : SignedSums(k)
  OBVIOUS
<1>6. Sums(f, Amounts(D), S)
  BY <1>3, <1>4, <1>5
<1>7. QED
  BY <1>1, <1>5, <1>6, SumIs

LEMMA SumOfZeros ==
  ASSUME NEW S, IsFiniteSet(S), NEW g, \A x \in S : g[x] = 0
  PROVE  SumFunctionOnSet(g, S) = 0
<1> DEFINE f == [s \in SUBSET S |-> 0]
<1>1. ASSUME NEW s \in SUBSET S
      PROVE  0 = IF s = {} THEN 0 ELSE g[Member(s)] + f[s \ {Member(s)}]
  <2>1. s # {} => g[Member(s)] = 0 /\ f[s \ {Member(s)}] = 0
    BY MemberIn
  <2>2. QED
    BY <2>1
<1>2. Sums(f, g, S)
  BY <1>1 DEF Sums
<1>3. QED
  BY <1>2, SumIs

\* What the entries of each kind come to.
KindSums(g, S) == [k \in Kinds |-> SumFunctionOnSet(g, OfKind(S, k))]

LEMMA KindSumsType ==
  ASSUME NEW D, IsFiniteSet(D), NEW g \in [D -> Int], NEW S \in SUBSET D
  PROVE  KindSums(g, S) \in [Kinds -> Int]
<1>1. ASSUME NEW k \in Kinds PROVE SumFunctionOnSet(g, OfKind(S, k)) \in Int
  <2>1. PICK part : part = OfKind(S, k)
    OBVIOUS
  <2>2. part \subseteq D /\ IsFiniteSet(part)
    BY <2>1, Parts DEF OfKind
  <2>3. QED
    BY <2>1, <2>2, SumTakesOut
<1>2. QED
  BY <1>1 DEF KindSums

\* One more entry adds to the line of its kind alone.
LEMMA OneMore ==
  ASSUME IsFiniteSet(Kinds), NEW D, IsFiniteSet(D), NEW g \in [D -> Int],
         NEW S \in SUBSET D, NEW x \in S, x.kind \in Kinds
  PROVE  SumFunctionOnSet(KindSums(g, S), Kinds)
           = g[x] + SumFunctionOnSet(KindSums(g, S \ {x}), Kinds)
<1>1. PICK all : all = KindSums(g, S)
  OBVIOUS
<1>2. PICK rest : rest = KindSums(g, S \ {x})
  OBVIOUS
<1>3. all \in [Kinds -> Int] /\ rest \in [Kinds -> Int]
  BY <1>1, <1>2, KindSumsType
<1>4. PICK k \in Kinds : k = x.kind
  OBVIOUS
<1>5. all[k] = g[x] + rest[k]
  <2>1. PICK part : part = OfKind(S, k)
    OBVIOUS
  <2>2. part \subseteq D /\ IsFiniteSet(part) /\ x \in part
    BY <2>1, <1>4, Parts DEF OfKind
  <2>3. part \ {x} = OfKind(S \ {x}, k)
    BY <2>1 DEF OfKind
  <2>4. SumFunctionOnSet(g, part) = g[x] + SumFunctionOnSet(g, part \ {x})
    BY <2>2, SumTakesOut
  <2>5. all[k] = SumFunctionOnSet(g, part) /\ rest[k] = SumFunctionOnSet(g, part \ {x})
    BY <2>1, <2>3, <1>1, <1>2 DEF KindSums
  <2>6. QED
    BY <2>4, <2>5
<1>6. ASSUME NEW l \in Kinds \ {k} PROVE all[l] = rest[l]
  <2>1. OfKind(S, l) = OfKind(S \ {x}, l)
    BY <1>4 DEF OfKind
  <2>2. QED
    BY <2>1, <1>1, <1>2 DEF KindSums
<1>7. IsFiniteSet(Kinds \ {k})
  BY FS_RemoveElement
<1>8. SumFunctionOnSet(all, Kinds \ {k}) = SumFunctionOnSet(rest, Kinds \ {k})
  BY <1>6, <1>7, SumSame
<1>9. PICK others \in Int : others = SumFunctionOnSet(rest, Kinds \ {k})
  BY <1>3, <1>7, SumTakesOut
<1>10. SumFunctionOnSet(all, Kinds) = all[k] + others
  <2>1. SumFunctionOnSet(all, Kinds) = all[k] + SumFunctionOnSet(all, Kinds \ {k})
    BY <1>3, SumTakesOut
  <2>2. QED
    BY <2>1, <1>8, <1>9
<1>11. SumFunctionOnSet(rest, Kinds) = rest[k] + others
  <2>1. SumFunctionOnSet(rest, Kinds) = rest[k] + SumFunctionOnSet(rest, Kinds \ {k})
    BY <1>3, SumTakesOut
  <2>2. QED
    BY <2>1, <1>9
<1>12. g[x] \in Int /\ rest[k] \in Int
  BY <1>3
<1>13. QED
  BY <1>1, <1>2, <1>5, <1>10, <1>11, <1>12

LEMMA SumByKind ==
  ASSUME IsFiniteSet(Kinds), NEW D, IsFiniteSet(D), NEW g \in [D -> Int],
         \A x \in D : x.kind \in Kinds
  PROVE  SumFunctionOnSet(g, D) = SumFunctionOnSet(KindSums(g, D), Kinds)
<1> DEFINE Right(S) == SumFunctionOnSet(g, S) = SumFunctionOnSet(KindSums(g, S), Kinds)
           Wrong == {n \in Nat : \E S \in SUBSET D : Cardinality(S) = n /\ ~Right(S)}
<1>1. SUFFICES ASSUME ~Right(D) PROVE FALSE
  OBVIOUS
<1>2. Wrong # {} /\ Wrong \subseteq Nat
  BY <1>1, Parts
<1>3. PICK n \in Wrong : \A m \in Wrong : n <= m
  <2> HIDE DEF Wrong
  <2>1. QED
    BY <1>2, LeastMember
<1>4. PICK S \in SUBSET D : Cardinality(S) = n /\ ~Right(S)
  BY <1>3
<1>5. CASE S = {}
  <2>1. SumFunctionOnSet(g, S) = 0
    BY <1>5, SumOfNone
  <2>2. \A k \in Kinds : KindSums(g, S)[k] = 0
    <3>1. \A k \in Kinds : OfKind(S, k) = {}
      BY <1>5 DEF OfKind
    <3>2. QED
      BY <3>1, SumOfNone DEF KindSums
  <2>3. SumFunctionOnSet(KindSums(g, S), Kinds) = 0
    BY <2>2, SumOfZeros
  <2>4. QED
    BY <1>4, <2>1, <2>3
<1>6. ASSUME NEW x \in S PROVE FALSE
  <2>1. PICK less \in SUBSET D : less = S \ {x}
    OBVIOUS
  <2>2. Cardinality(less) \in Nat /\ Cardinality(less) = n - 1 /\ n \in Nat
    BY <2>1, <1>2, <1>4, Parts, Smaller
  <2>3. Cardinality(less) \notin Wrong
    <3> HIDE DEF Wrong
    <3>1. Cardinality(less) \in Wrong => n <= n - 1
      BY <1>3, <2>2
    <3>2. QED
      BY <2>2, <3>1
  <2>4. Right(less)
    BY <2>2, <2>3
  <2>5. SumFunctionOnSet(g, S) = g[x] + SumFunctionOnSet(g, less)
    BY <2>1, Parts, SumTakesOut
  <2>6. SumFunctionOnSet(KindSums(g, S), Kinds)
          = g[x] + SumFunctionOnSet(KindSums(g, less), Kinds)
    BY <2>1, OneMore
  <2>7. QED
    BY <1>4, <2>4, <2>5, <2>6
<1>7. QED
  BY <1>5, <1>6

\* The header's total is the sum of the lines, for any finite set of ledger rows.
AddsUp(rows) == Total(rows) = SumFunctionOnSet(LineTotals(rows), Kinds)

Grouped(rows) == IsFiniteSet(rows) /\ \A r \in Charged(rows) : r.kind \in Kinds

LEMMA RowsAddUp ==
  ASSUME IsFiniteSet(Kinds), NEW rows \in SUBSET LedgerRows, Grouped(rows)
  PROVE  AddsUp(rows)
<1>1. PICK D : D = Charged(rows)
  OBVIOUS
<1>2. D \subseteq rows /\ IsFiniteSet(D) /\ \A r \in D : r.kind \in Kinds
  BY <1>1, Parts DEF Charged, Grouped
<1>3. \A r \in D : Signed(r) \in Int
  BY <1>2 DEF Signed, LedgerRows
<1>4. Amounts(D) \in [D -> Int]
  BY <1>3 DEF Amounts
<1>5. Total(rows) = SumFunctionOnSet(Amounts(D), D)
  BY <1>1, <1>2, SignedSum DEF Total
<1>6. ASSUME NEW k \in Kinds
      PROVE  LineTotals(rows)[k] = KindSums(Amounts(D), D)[k]
  <2>1. PICK part : part = OfKind(D, k)
    OBVIOUS
  <2>2. part \subseteq D /\ IsFiniteSet(part)
    BY <2>1, <1>2, Parts DEF OfKind
  <2>3. Charged({r \in rows : r.kind = k}) = part
    BY <2>1, <1>1 DEF Charged, OfKind
  <2>4. LineTotal(rows, k) = SumFunctionOnSet(Amounts(D), part)
    BY <2>2, <2>3, SignedSum DEF LineTotal, Total
  <2>5. QED
    BY <2>1, <2>4 DEF LineTotals, KindSums
<1>7. SumFunctionOnSet(LineTotals(rows), Kinds) = SumFunctionOnSet(KindSums(Amounts(D), D), Kinds)
  BY <1>6, SumSame
<1>8. SumFunctionOnSet(Amounts(D), D) = SumFunctionOnSet(KindSums(Amounts(D), D), Kinds)
  BY <1>2, <1>4, SumByKind
<1>9. QED
  BY <1>5, <1>7, <1>8 DEF AddsUp

(***************************************************************************)
(* Every invoice adds up, as long as it exists: the ledger is finite, and  *)
(* what is charged in it is charged for some usage type.                   *)
(***************************************************************************)
InvoicesAddUp == \A i \in Ids : Exists(i) => AddsUp(invoices[i].rows)

THEOREM HeadersMatchLines == IsFiniteSet(Kinds) => (Spec => []InvoicesAddUp)
<1> SUFFICES ASSUME IsFiniteSet(Kinds) PROVE Spec => []InvoicesAddUp
  OBVIOUS
<1>1. Init => Grouped(ledger)
  BY FS_EmptySet DEF Init, Grouped, Charged
<1>2. IInv /\ Grouped(ledger) /\ [Next]_vars => Grouped(ledger)'
  <2> SUFFICES ASSUME IInv, Grouped(ledger), [Next]_vars PROVE Grouped(ledger')
    BY DEF Grouped, Charged
  <2>1. CASE ledger' = ledger
    BY <2>1
  <2>2. ASSUME NEW r, NewRow(r) PROVE Grouped(ledger')
    <3>1. ledger' = ledger \/ ledger' = ledger \cup {r}
      BY <2>2 DEF NewRow, Inserted
    <3>2. IsFiniteSet(ledger \cup {r})
      BY FS_AddElement DEF Grouped
    <3>3. QED
      BY <2>2, <3>1, <3>2 DEF NewRow, Grouped, Charged
  <2>3. QED
    BY <2>1, <2>2, LedgerSteps DEF IInv, vars
<1>3. IInv /\ Grouped(ledger) => InvoicesAddUp
  <2> SUFFICES ASSUME IInv, Grouped(ledger), NEW i \in Ids, Exists(i)
               PROVE  AddsUp(invoices[i].rows)
    BY DEF InvoicesAddUp
  <2>1. PICK rows : rows = invoices[i].rows
    OBVIOUS
  <2>2. rows \in SUBSET ledger
    BY <2>1 DEF IInv, SlotInv, OfPeriod, EntriesForPeriod
  <2>3. rows \in SUBSET LedgerRows
    BY <2>2 DEF IInv, TypeOK
  <2>4. Grouped(rows)
    BY <2>2, Parts DEF Grouped, Charged
  <2>5. QED
    BY <2>1, <2>3, <2>4, RowsAddUp
<1>4. QED
  BY <1>1, <1>2, <1>3, Invariance, PTL DEF Spec

-----------------------------------------------------------------------------
(* Pricing.                                                                *)

\* A unit belongs to the tier that reaches it when none before does.
LEMMA TierIs ==
  ASSUME NEW list \in Seq(Tier), NEW u \in Int, NEW i \in 1..Len(list),
         Reaches(list[i], u), \A j \in 1..(i - 1) : ~Reaches(list[j], u)
  PROVE  TierOf(list, u) = i
<1> DEFINE First(k) == /\ Reaches(list[k], u)
                       /\ \A j \in 1..(k - 1) : ~Reaches(list[j], u)
<1>1. First(i)
  OBVIOUS
<1>2. ASSUME NEW k \in 1..Len(list), First(k) PROVE k = i
  <2>1. ~(k < i) /\ ~(i < k)
    BY <1>1, <1>2
  <2>2. QED
    BY <2>1
<1>3. TierOf(list, u) = CHOOSE k \in 1..Len(list) : First(k)
  BY DEF TierOf
<1> HIDE DEF First
<1>4. QED
  BY <1>1, <1>2, <1>3

\* A unit that some tier reaches belongs to that tier or to one before.
LEMMA TierAtMost ==
  ASSUME NEW list \in Seq(Tier), NEW u \in Int, NEW k \in 1..Len(list),
         Reaches(list[k], u)
  PROVE  TierOf(list, u) \in 1..k
<1> DEFINE T == {i \in 1..Len(list) : Reaches(list[i], u)}
<1>1. T \subseteq Nat /\ k \in T
  OBVIOUS
<1>2. PICK i \in T : \A j \in T : i <= j
  <2> HIDE DEF T
  <2>1. QED
    BY <1>1, LeastMember
<1>3. i <= k /\ i \in 1..Len(list)
  BY <1>1, <1>2
<1>4. ASSUME NEW j \in 1..(i - 1) PROVE ~Reaches(list[j], u)
  BY <1>2, <1>3
<1>5. TierOf(list, u) = i
  BY <1>2, <1>3, <1>4, TierIs
<1>6. QED
  BY <1>3, <1>5

\* The price of the first n of q units.
Spent(list, q, n) ==
  SumFunctionOnSet(CostPerUnit(list, q), 1..n)
    + SumFunctionOnSet(FeePerTier(list), Entered(list, n))

\* In a list whose last tier has no limit every unit belongs to some tier.
LEMMA EveryUnit ==
  ASSUME NEW list \in Seq(Tier), ValidTiers(list), NEW u \in Int
  PROVE  TierOf(list, u) \in 1..Len(list)
<1>1. Len(list) \in 1..Len(list) /\ Reaches(list[Len(list)], u)
  BY DEF ValidTiers, Reaches
<1>2. QED
  BY <1>1, TierAtMost

LEMMA SumTypes ==
  ASSUME NEW list \in Seq(Tier), ValidTiers(list), NEW q \in Nat, NEW n \in 0..q
  PROVE  /\ CostPerUnit(list, q) \in [1..q -> Int]
         /\ FeePerTier(list) \in [1..Len(list) -> Int]
         /\ Entered(list, n) \subseteq 1..Len(list)
         /\ IsFiniteSet(Entered(list, n))
         /\ SumFunctionOnSet(CostPerUnit(list, q), 1..n) \in Int
         /\ SumFunctionOnSet(FeePerTier(list), Entered(list, n)) \in Int
<1>1. \A i \in 1..Len(list) : list[i].unitCost \in Int /\ list[i].flatFee \in Int
  <2>1. \A i \in 1..Len(list) : list[i] \in Tier
    OBVIOUS
  <2>2. QED
    BY <2>1 DEF Tier
<1>2. \A u \in 1..q : TierOf(list, u) \in 1..Len(list)
  BY EveryUnit
<1>3. CostPerUnit(list, q) \in [1..q -> Int] /\ FeePerTier(list) \in [1..Len(list) -> Int]
  BY <1>1, <1>2 DEF CostPerUnit, FeePerTier
<1>4. Entered(list, n) \subseteq 1..Len(list)
  BY <1>2 DEF Entered
<1>5. IsFiniteSet(Entered(list, n)) /\ IsFiniteSet(1..n) /\ 1..n \subseteq 1..q
  BY <1>4, FS_Interval, FS_Subset
<1>6. QED
  BY <1>3, <1>4, <1>5, SumTakesOut

\* What the next n units cost when tier i, which no unit before is in, holds them all.
LEMMA NextTier ==
  ASSUME NEW list \in Seq(Tier), ValidTiers(list), NEW q \in Nat,
         NEW a \in Nat, NEW n \in Nat, a + n <= q, NEW i \in 1..Len(list),
         \A u \in (a + 1)..(a + n) : TierOf(list, u) = i,
         \A u \in 1..a : TierOf(list, u) # i
  PROVE  Spent(list, q, a + n) = Spent(list, q, a) + TierCost(list[i], n)
<1>a. a \in 0..q /\ a + n \in 0..q
  OBVIOUS
<1>b. list[i].unitCost \in Int /\ list[i].flatFee \in Int
  <2>1. list[i] \in Tier
    OBVIOUS
  <2>2. QED
    BY <2>1 DEF Tier
<1>1. PICK g : g = CostPerUnit(list, q)
  OBVIOUS
<1>2. PICK fee : fee = FeePerTier(list)
  OBVIOUS
<1>3. /\ g \in [1..q -> Int]
      /\ fee \in [1..Len(list) -> Int]
  BY <1>a, <1>1, <1>2, SumTypes
<1>4. \A u \in (a + 1)..(a + n) : g[u] = list[i].unitCost
  <2>1. (a + 1)..(a + n) \subseteq 1..q
    OBVIOUS
  <2>2. QED
    BY <2>1, <1>1 DEF CostPerUnit
<1>c. PICK c \in Int : c = list[i].unitCost
  BY <1>b
<1>5. SumFunctionOnSet(g, 1..(a + n)) = SumFunctionOnSet(g, 1..a) + n * c
  <2>1. PICK b \in Nat : b = a + n /\ b <= q
    OBVIOUS
  <2>2. \A u \in (a + 1)..b : g[u] = c
    BY <1>4, <1>c, <2>1
  <2>3. SumFunctionOnSet(g, 1..b) = SumFunctionOnSet(g, 1..a) + n * c
    <3>1. g \in [1..q -> Int] /\ b <= q
      BY <2>1, <1>3
    <3>2. Level(g, c, a, b, n)
      BY <2>1, <2>2 DEF Level
    <3>3. QED
      BY <3>1, <3>2, SumOfEqual
  <2>4. QED
    BY <2>1, <2>3
<1>6. SumFunctionOnSet(fee, Entered(list, a + n))
        = SumFunctionOnSet(fee, Entered(list, a)) + (IF n > 0 THEN list[i].flatFee ELSE 0)
  <2>1. CASE n = 0
    <3>1. SumFunctionOnSet(fee, Entered(list, a)) \in Int
      BY <1>a, <1>2, SumTypes
    <3>2. a + n = a /\ (IF n > 0 THEN list[i].flatFee ELSE 0) = 0
      BY <2>1
    <3>3. QED
      BY <3>1, <3>2
  <2>2. CASE n > 0
    <3>1. i \in Entered(list, a + n)
      <4>1. a + 1 \in 1..(a + n) /\ TierOf(list, a + 1) = i
        BY <2>2
      <4>2. QED
        BY <4>1 DEF Entered
    <3>2. Entered(list, a + n) \ {i} = Entered(list, a)
      <4>1. \A u \in 1..(a + n) : u \in 1..a \/ u \in (a + 1)..(a + n)
        OBVIOUS
      <4>2. 1..a \subseteq 1..(a + n)
        OBVIOUS
      <4>3. QED
        BY <4>1, <4>2 DEF Entered
    <3>3. Entered(list, a + n) \subseteq 1..Len(list) /\ IsFiniteSet(Entered(list, a + n))
      BY <1>a, SumTypes
    <3>4. SumFunctionOnSet(fee, Entered(list, a + n))
            = fee[i] + SumFunctionOnSet(fee, Entered(list, a))
      <4>1. PICK entered : entered = Entered(list, a + n)
        OBVIOUS
      <4>2. SumFunctionOnSet(fee, entered)
              = fee[i] + SumFunctionOnSet(fee, entered \ {i})
        <5>1. PICK all : all = 1..Len(list)
          OBVIOUS
        <5>2. entered \subseteq all /\ fee \in [all -> Int]
          BY <4>1, <5>1, <3>3, <1>3
        <5>3. IsFiniteSet(entered) /\ i \in entered
          BY <4>1, <3>1, <3>3
        <5>4. QED
          BY <5>2, <5>3, SumTakesOut
      <4>3. QED
        BY <4>1, <4>2, <3>2
    <3>5. fee[i] = list[i].flatFee
      BY <1>2 DEF FeePerTier
    <3>6. SumFunctionOnSet(fee, Entered(list, a)) \in Int
      BY <1>a, <1>2, SumTypes
    <3>7. QED
      BY <3>4, <3>5, <3>6, <1>b, <2>2
  <2>3. QED
    BY <2>1, <2>2
<1>7. PICK units \in Int : units = SumFunctionOnSet(g, 1..a)
  BY <1>a, <1>1, SumTypes
<1>8. PICK fees \in Int : fees = SumFunctionOnSet(fee, Entered(list, a))
  BY <1>a, <1>2, SumTypes
<1>9. PICK cost \in Int : cost = n * list[i].unitCost
  BY <1>b
<1>10. PICK extra \in Int : extra = IF n > 0 THEN list[i].flatFee ELSE 0
  BY <1>b
<1>11. Spent(list, q, a) = units + fees
  BY <1>1, <1>2, <1>7, <1>8 DEF Spent
<1>12. Spent(list, q, a + n) = (units + cost) + (fees + extra)
  BY <1>1, <1>2, <1>c, <1>5, <1>6, <1>7, <1>8, <1>9, <1>10 DEF Spent
<1>13. TierCost(list[i], n) = cost + extra
  BY <1>9, <1>10 DEF TierCost
<1>14. QED
  BY <1>11, <1>12, <1>13

-----------------------------------------------------------------------------
(***************************************************************************)
(* The inductive invariant of the loop.  Behind a tier the limits only     *)
(* rise, so that prevLimit says how many units are behind, as long as any  *)
(* remain; "total" is their price.                                         *)
(***************************************************************************)
Behind ==
  remaining > 0 =>
    /\ asked - remaining = prevLimit
    /\ \A j \in 1..(next - 1) : tiers[j].upTo # Unlimited /\ tiers[j].upTo <= prevLimit
    /\ prevLimit = IF next > 1 THEN tiers[next - 1].upTo ELSE 0

LoopInv ==
  /\ remaining \in 0..asked
  /\ Behind
  /\ total = Spent(tiers, asked, asked - remaining)

PricingInv ==
  /\ PricingTypeOK
  /\ phase # "exceeds"
  /\ phase = "validate" =>
       next = 1 /\ remaining = asked /\ prevLimit = 0 /\ total = 0
  /\ phase \in {"loop", "priced"} => ValidTiers(tiers)
  /\ phase = "loop" /\ next > Len(tiers) => remaining <= 0
  /\ phase = "loop" /\ Sensible(tiers) => LoopInv
  /\ phase = "priced" /\ Sensible(tiers) => total = Spent(tiers, asked, asked)

\* Before the first unit nothing is spent.
LEMMA SpentNothing ==
  ASSUME NEW list, NEW q PROVE Spent(list, q, 0) = 0
<1>1. 1..0 = {} /\ Entered(list, 0) = {}
  BY DEF Entered
<1>2. QED
  BY <1>1, SumOfNone DEF Spent

\* The instance sums as this module does.
LEMMA SameSum ==
  ASSUME NEW g, NEW S PROVE SumFunctionOnSet(g, S) = SumFunctionOnSet(g, S)
<1>1. SumFunctionOnSet(g, S) = (CHOOSE f : Sums(f, g, S))[S]
  BY DEF SumFunctionOnSet, FoldFunctionOnSet, MapThenFoldSet, Sums, Member
<1>2. QED
  BY <1>1, SumsBody

LEMMA PriceIsSpent ==
  ASSUME NEW list, NEW q \in Nat PROVE PriceOf(list, q) = Spent(list, q, q)
<1>1. DOMAIN CostPerUnit(list, q) = 1..q
  BY DEF CostPerUnit
<1>2. SumFunction(CostPerUnit(list, q)) = SumFunctionOnSet(CostPerUnit(list, q), 1..q)
  BY <1>1 DEF SumFunction
<1>3. QED
  BY <1>2, SameSum DEF PriceOf, SumFunction, Spent

LEMMA PricingInit == InitPricing => PricingInv
<1> SUFFICES ASSUME InitPricing PROVE PricingInv
  OBVIOUS
<1>1. tiers \in Seq(Tier) /\ asked \in Int
  BY InputsAssumption DEF InitPricing
<1>2. Len(tiers) \in Nat
  BY <1>1
<1>3. QED
  BY <1>1, <1>2 DEF InitPricing, PricingInv, PricingTypeOK

\* What one round of the loop does to the parts of its invariant.
LEMMA TierStep ==
  ASSUME PricingInv, Sensible(tiers), CalculateTier
  PROVE  LoopInv'
<1> DEFINE t == tiers[next]
           n == TierUsage(t)
           done == asked - remaining
<1>1. /\ tiers \in Seq(Tier) /\ ValidTiers(tiers)
      /\ asked \in Nat /\ next \in 1..Len(tiers)
      /\ remaining \in 1..asked /\ prevLimit \in Int
      /\ LoopInv /\ done \in Nat /\ done = prevLimit
  <2>1. /\ tiers \in Seq(Tier) /\ Len(tiers) \in Nat
        /\ phase = "loop" /\ asked \in Nat /\ prevLimit \in Int
        /\ next \in 1..Len(tiers) /\ remaining > 0
    BY InputsAssumption DEF PricingInv, PricingTypeOK, CalculateTier
  <2>2. ValidTiers(tiers) /\ LoopInv
    BY <2>1 DEF PricingInv
  <2>3. remaining \in 1..asked /\ asked - remaining = prevLimit
    BY <2>1, <2>2 DEF LoopInv, Behind
  <2>4. QED
    BY <2>1, <2>2, <2>3
<1>2. /\ t \in Tier /\ t.upTo \in Int /\ t.upTo >= -1
      /\ \A j \in 1..Len(tiers) : tiers[j].upTo \in Int
  <2>1. \A j \in 1..Len(tiers) : tiers[j] \in Tier
    BY <1>1
  <2>2. QED
    BY <2>1, <1>1 DEF Sensible, Tier, Unlimited
<1>3. /\ \A j \in 1..(next - 1) : tiers[j].upTo # -1 /\ tiers[j].upTo <= prevLimit
      /\ prevLimit = IF next > 1 THEN tiers[next - 1].upTo ELSE 0
  BY <1>1 DEF LoopInv, Behind, Unlimited
<1>4. t.upTo # -1 => t.upTo >= prevLimit
  <2>1. CASE next = 1
    BY <1>2, <1>3, <2>1
  <2>2. CASE next > 1
    <3>1. next \in 2..Len(tiers)
      BY <1>1, <2>2
    <3>2. tiers[next].upTo # -1 => tiers[next].upTo > tiers[next - 1].upTo
      BY <1>1, <3>1 DEF ValidTiers, Increasing, Unlimited
    <3>3. tiers[next - 1].upTo \in Int
      BY <1>2, <3>1
    <3>4. QED
      BY <1>2, <1>3, <2>2, <3>2, <3>3
  <2>3. QED
    BY <1>1, <2>1, <2>2
<1>5. n = IF t.upTo = -1 \/ remaining <= t.upTo - prevLimit THEN remaining
          ELSE t.upTo - prevLimit
  BY <1>1, <1>2 DEF TierUsage, Unlimited
<1> HIDE DEF n
<1>6. n \in 0..remaining
  BY <1>1, <1>2, <1>4, <1>5
<1>7. ASSUME NEW u \in (done + 1)..(done + n) PROVE TierOf(tiers, u) = next
  <2>1. Reaches(tiers[next], u)
    BY <1>1, <1>2, <1>5, <1>6 DEF Reaches, Unlimited
  <2>2. ASSUME NEW j \in 1..(next - 1) PROVE ~Reaches(tiers[j], u)
    <3>1. u > prevLimit
      BY <1>1, <1>6
    <3>2. j \in 1..Len(tiers)
      BY <1>1
    <3>3. QED
      BY <3>1, <3>2, <1>1, <1>2, <1>3 DEF Reaches, Unlimited
  <2>3. u \in Int
    BY <1>1
  <2>4. QED
    BY <2>1, <2>2, <2>3, <1>1, TierIs
<1>8. ASSUME NEW u \in 1..done PROVE TierOf(tiers, u) # next
  <2>1. next > 1
    BY <1>1, <1>3
  <2>2. next - 1 \in 1..Len(tiers) /\ u \in Int
    BY <1>1, <2>1
  <2>3. Reaches(tiers[next - 1], u)
    BY <1>1, <1>3, <2>1 DEF Reaches
  <2>4. TierOf(tiers, u) \in 1..(next - 1)
    BY <2>2, <2>3, <1>1, TierAtMost
  <2>5. QED
    BY <2>4, <1>1
<1>9. Spent(tiers, asked, done + n) = Spent(tiers, asked, done) + TierCost(t, n)
  <2>1. PICK a \in Nat : a = done
    BY <1>1
  <2>2. PICK k \in Nat : k = n
    BY <1>1, <1>6
  <2>3. a + k <= asked
    BY <2>1, <2>2, <1>1, <1>6
  <2>4. \A u \in (a + 1)..(a + k) : TierOf(tiers, u) = next
    BY <1>7, <2>1, <2>2
  <2>5. \A u \in 1..a : TierOf(tiers, u) # next
    BY <1>8, <2>1
  <2>6. Spent(tiers, asked, a + k) = Spent(tiers, asked, a) + TierCost(t, k)
    BY <2>3, <2>4, <2>5, <1>1, NextTier
  <2>7. QED
    BY <2>1, <2>2, <2>6
<1>10. /\ total' = total + TierCost(t, n)
       /\ remaining' = remaining - n
       /\ prevLimit' = IF t.upTo = -1 THEN prevLimit ELSE t.upTo
       /\ next' = next + 1 /\ tiers' = tiers /\ asked' = asked
  BY DEF CalculateTier, LimitAfter, Unlimited, n
<1>11. remaining' \in 0..asked'
  BY <1>1, <1>6, <1>10
<1>12. total' = Spent(tiers', asked', asked' - remaining')
  <2>1. asked' - remaining' = done + n
    BY <1>1, <1>6, <1>10
  <2>2. total = Spent(tiers, asked, done)
    BY <1>1 DEF LoopInv
  <2>3. QED
    BY <2>1, <2>2, <1>9, <1>10
<1>13. Behind'
  <2>1. SUFFICES ASSUME remaining' > 0
                 PROVE  /\ asked' - remaining' = prevLimit'
                        /\ \A j \in 1..next : tiers[j].upTo # -1 /\ tiers[j].upTo <= prevLimit'
                        /\ prevLimit' = tiers[next].upTo
    BY <1>1, <1>10 DEF Behind, Unlimited
  <2>2. t.upTo # -1 /\ n = t.upTo - prevLimit /\ prevLimit' = t.upTo
    BY <2>1, <1>1, <1>5, <1>10
  <2>3. asked - remaining' = prevLimit'
    <3>1. asked - remaining = prevLimit /\ remaining' = remaining - (t.upTo - prevLimit)
      BY <2>2, <1>1, <1>10
    <3>2. asked \in Int /\ remaining \in Int /\ prevLimit \in Int /\ t.upTo \in Int
      BY <1>1, <1>2
    <3>3. QED
      BY <2>2, <3>1, <3>2
  <2>4. ASSUME NEW j \in 1..next PROVE tiers[j].upTo # -1 /\ tiers[j].upTo <= prevLimit'
    <3>1. CASE j = next
      BY <3>1, <2>2, <1>2
    <3>2. CASE j \in 1..(next - 1)
      <4>1. j \in 1..Len(tiers)
        BY <1>1
      <4>2. QED
        BY <4>1, <3>2, <2>2, <1>1, <1>2, <1>3, <1>4
    <3>3. QED
      BY <3>1, <3>2, <1>1
  <2>5. QED
    BY <2>2, <2>3, <2>4, <1>10
<1>14. QED
  BY <1>11, <1>12, <1>13 DEF LoopInv

LEMMA PricingStep == PricingInv /\ [NextPricing]_pricingVars => PricingInv'
<1> SUFFICES ASSUME PricingInv, [NextPricing]_pricingVars PROVE PricingInv'
  OBVIOUS
<1>a. /\ tiers \in Seq(Tier) /\ Len(tiers) \in Nat /\ asked \in Int
      /\ next \in 1..(Len(tiers) + 1) /\ remaining \in Int /\ prevLimit \in Int /\ total \in Int
      /\ PricingTypeOK
  BY InputsAssumption DEF PricingInv, PricingTypeOK
<1>1. CASE ValidateTiers
  <2>1. CASE phase' = "loop"
    <3>1. /\ ValidTiers(tiers) /\ asked \in Nat /\ UNCHANGED <<tiers, asked>>
          /\ next' = 1 /\ remaining' = asked /\ prevLimit' = 0 /\ total' = 0
          /\ PricingTypeOK'
      BY <1>1, <2>1, <1>a DEF ValidateTiers, Admissible, PricingInv, PricingTypeOK
    <3>2. Behind'
      BY <3>1 DEF Behind
    <3>3. total' = Spent(tiers', asked', asked' - remaining')
      <4>1. asked' - remaining' = 0
        BY <3>1
      <4>2. QED
        BY <3>1, <4>1, SpentNothing
    <3>4. LoopInv'
      BY <3>1, <3>2, <3>3 DEF LoopInv
    <3>5. Len(tiers) > 0
      BY <3>1 DEF ValidTiers
    <3>6. QED
      BY <2>1, <3>1, <3>4, <3>5, <1>a DEF PricingInv
  <2>2. CASE phase' # "loop"
    BY <1>1, <2>2, <1>a DEF ValidateTiers, PricingInv, PricingTypeOK
  <2>3. QED
    BY <2>1, <2>2
<1>2. CASE CalculateTier
  <2>1. /\ phase = "loop" /\ phase' = "loop" /\ UNCHANGED <<tiers, asked>>
        /\ next \in 1..Len(tiers) /\ next' = next + 1 /\ ValidTiers(tiers)
    BY <1>2, <1>a DEF CalculateTier, PricingInv
  <2>2. tiers[next] \in Tier
    BY <1>a, <2>1
  <2>3. /\ tiers[next].upTo \in Int /\ tiers[next].unitCost \in Int
        /\ tiers[next].flatFee \in Int
    BY <2>2 DEF Tier
  <2>4. PICK n \in Int : n = TierUsage(tiers[next])
    BY <2>3, <1>a DEF TierUsage
  <2>5. TierCost(tiers[next], n) \in Int
    BY <2>3 DEF TierCost
  <2>6. remaining' \in Int /\ total' \in Int /\ prevLimit' \in Int
    <3>1. /\ total' = total + TierCost(tiers[next], n)
          /\ remaining' = remaining - n
          /\ prevLimit' = LimitAfter(tiers[next])
      BY <1>2, <2>4 DEF CalculateTier
    <3>2. LimitAfter(tiers[next]) \in Int
      BY <1>a, <2>3 DEF LimitAfter
    <3>3. QED
      BY <3>1, <3>2, <1>a, <2>4, <2>5
  <2>7. PricingTypeOK'
    BY <1>a, <2>1, <2>6 DEF PricingTypeOK
  <2>8. next' > Len(tiers) => remaining' <= 0
    <3>1. next' > Len(tiers) => tiers[next].upTo = Unlimited
      BY <2>1, <1>a DEF ValidTiers
    <3>2. tiers[next].upTo = Unlimited => remaining' = 0
      BY <1>2, <1>a DEF CalculateTier, TierUsage
    <3>3. QED
      BY <3>1, <3>2
  <2>9. Sensible(tiers) => LoopInv'
    BY <1>2, TierStep
  <2>10. QED
    BY <2>1, <2>7, <2>8, <2>9 DEF PricingInv, Sensible
<1>3. CASE CalculateEnds
  <2>1. /\ phase = "loop" /\ UNCHANGED <<tiers, asked, next, remaining, prevLimit, total>>
        /\ next > Len(tiers) \/ remaining <= 0
        /\ phase' = IF remaining > 0 THEN "exceeds" ELSE "priced"
    BY <1>3 DEF CalculateEnds
  <2>2. remaining <= 0 /\ phase' = "priced"
    BY <2>1, <1>a DEF PricingInv
  <2>3. Sensible(tiers) => total = Spent(tiers, asked, asked)
    <3>1. SUFFICES ASSUME Sensible(tiers) PROVE total = Spent(tiers, asked, asked)
      OBVIOUS
    <3>2. LoopInv
      BY <2>1, <3>1 DEF PricingInv
    <3>3. asked - remaining = asked
      BY <3>2, <2>2, <1>a DEF LoopInv
    <3>4. QED
      BY <3>2, <3>3 DEF LoopInv
  <2>4. PricingTypeOK'
    BY <1>a, <2>1, <2>2 DEF PricingTypeOK
  <2>5. QED
    BY <2>1, <2>2, <2>3, <2>4 DEF PricingInv, Sensible
<1>4. CASE UNCHANGED pricingVars
  BY <1>4 DEF pricingVars, PricingInv, PricingTypeOK, LoopInv, Behind
<1>5. QED
  BY <1>1, <1>2, <1>3, <1>4 DEF NextPricing

(***************************************************************************)
(* For every list of tiers that ValidateTiers passes and that has no limit *)
(* below zero, and for every quantity, CalculateCost charges what pricing  *)
(* each unit by itself charges; and it never runs out of tiers.            *)
(***************************************************************************)
THEOREM UnitByUnit == PricingSpec => []PricedUnitByUnit
<1>1. InitPricing => PricingInv
  BY PricingInit
<1>2. PricingInv /\ [NextPricing]_pricingVars => PricingInv'
  BY PricingStep
<1>3. PricingInv => PricedUnitByUnit
  <2>1. SUFFICES ASSUME PricingInv, phase = "priced", Sensible(tiers)
                 PROVE  total = PriceOf(tiers, asked)
    BY DEF PricingInv, PricedUnitByUnit, NeverExceeds
  <2>2. asked \in Nat
    BY <2>1, InputsAssumption DEF PricingInv, PricingTypeOK
  <2>3. QED
    BY <2>1, <2>2, PriceIsSpent DEF PricingInv
<1>4. QED
  BY <1>1, <1>2, <1>3, PTL DEF PricingSpec
=============================================================================
