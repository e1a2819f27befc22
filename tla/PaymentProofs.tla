--------------------------- MODULE PaymentProofs ---------------------------
(***************************************************************************)
(* Proofs about Payment, for every set of processes, workers, invoices and *)
(* attempts, every retry limit and any number of crashes.                  *)
(***************************************************************************)
EXTENDS Payment, TLAPS

(***************************************************************************)
(* The inductive invariant.  RowInv: what a row of payment_attempts, once  *)
(* there, says of its invoice and of Stripe.  JobInv: what a goroutine may *)
(* rely on at each step of its job.  KeyInv: an attempt id belongs to one  *)
(* call.  ProviderInv: a provider id appears only together with SUCCEEDED, *)
(* which is why no webhook job and no successful reconciliation exists     *)
(* (ReconInv, JobInv).  BatchInv, ReconInv: what the reconciler took up    *)
(* belonged to no live call, and no row gains one.                         *)
(***************************************************************************)
RowInv ==
  \A a \in Attempts :
    /\ attempts[a].status # "absent" =>
         attempts[a].invoice \in Invoices /\ invoice[attempts[a].invoice] # "DRAFT"
    /\ attempts[a].status = "absent" => stripe[a] = "none" /\ a \notin wire
    /\ attempts[a].status = "SUCCEEDED" => Captured(a) /\ attempts[a].provider = a

InvoiceInv ==
  \A i \in Invoices :
    /\ invoice[i] = "PAID" /\ TotalCents[i] > 0 =>
         /\ paidBy[i] \in Attempts
         /\ Captured(paidBy[i])
         /\ attempts[paidBy[i]].invoice = i
    /\ credits[i] # 0 => invoice[i] = "PAID"

HasRow(t) == /\ t.attempt \in Attempts
             /\ attempts[t.attempt].status # "absent"
             /\ attempts[t.attempt].invoice = t.invoice

JobOK(w) ==
  LET t == task[w] IN
  /\ pc[w] = "idle" => t.attempt = None
  /\ pc[w] # "idle" => t.invoice \in Invoices /\ invoice[t.invoice] # "DRAFT"
  /\ pc[w] = "create" => t.attempt \in Attempts /\ attempts[t.attempt].status = "absent"
  /\ pc[w] \in {"charge", "calling", "update"} => HasRow(t)
  /\ pc[w] \in {"create", "charge", "calling", "markPaid", "credit"} => t.kind = "pay"
  /\ pc[w] = "update" /\ t.status = "SUCCEEDED" =>
       t.kind = "pay" /\ t.tx = t.attempt /\ Captured(t.attempt)
  /\ pc[w] = "update" /\ t.status # "SUCCEEDED" =>
       t.status = "FAILED" /\ t.tx = None
  /\ pc[w] = "markPaid" /\ TotalCents[t.invoice] > 0 =>
       HasRow(t) /\ t.tx = t.attempt /\ Captured(t.attempt)
  /\ pc[w] = "credit" => invoice[t.invoice] = "PAID"

JobInv == \A w \in Workers : JobOK(w)

KeyInv ==
  \A w, v \in Workers :
    /\ task[w].kind = "pay" /\ task[v].kind = "pay"
    /\ task[w].attempt = task[v].attempt /\ task[w].attempt # None
    => w = v

NoLiveCall(a) ==
  \A w \in Workers : task[w].kind = "pay" /\ live[w] => task[w].attempt # a

ProviderInv ==
  \A a \in Attempts : attempts[a].provider # None => attempts[a].status = "SUCCEEDED"

BatchInv ==
  \A p \in Procs : \A r \in batch[p] : /\ r.provider = None
                                        /\ attempts[r.attempt].status # "absent"
                                        /\ NoLiveCall(r.attempt)

ReconInv ==
  \A w \in Workers : Busy(w) =>
    /\ task[w].kind # "hook"
    /\ task[w].kind = "recon" => NoLiveCall(task[w].attempt)

IInv == TypeOK /\ RowInv /\ InvoiceInv /\ JobInv /\ KeyInv
             /\ ProviderInv /\ BatchInv /\ ReconInv /\ LiveCallKeepsItsRow

-----------------------------------------------------------------------------
(* Type correctness.                                                       *)

LocalOK ==
  /\ pc \in [Workers -> Steps]
  /\ task \in [Workers -> Tasks]
  /\ live \in [Workers -> BOOLEAN]
  /\ tries \in [Workers -> 0..MaxRetries]

LEMMA NoTaskType == NoTask \in Tasks
  BY DEF NoTask, Task, Tasks, Statuses

LEMMA GotoType ==
  ASSUME LocalOK, NEW w \in Workers, NEW step \in Steps, Goto(w, step)
  PROVE  LocalOK'
  BY DEF LocalOK, Goto

LEMMA StartType ==
  ASSUME LocalOK, NEW w \in Workers, NEW step \in Steps, NEW t \in Tasks,
         Start(w, step, t)
  PROVE  LocalOK'
  BY DEF LocalOK, Start

LEMMA FinishType ==
  ASSUME LocalOK, NEW w \in Workers, Finish(w)
  PROVE  LocalOK'
  BY NoTaskType, BoundAssumption DEF LocalOK, Finish, Steps

LEMMA TaskType ==
  ASSUME NEW k \in {"pay", "hook", "recon"}, NEW i \in Invoices \cup {None},
         NEW a \in Attempts \cup {None}, NEW s \in Statuses,
         NEW tx \in Attempts \cup {None}
  PROVE  Task(k, i, a, s, tx) \in Tasks
  BY DEF Task, Tasks

(***************************************************************************)
(* Every variable keeps its type in every step: a charge is only sent for  *)
(* an attempt id, which is what JobInv is needed for.                      *)
(***************************************************************************)
LEMMA TypeStep == TypeOK /\ JobInv /\ [Next]_vars => TypeOK'
<1> SUFFICES ASSUME TypeOK, JobInv, [Next]_vars PROVE TypeOK'
  OBVIOUS
<1>0. LocalOK
  BY DEF TypeOK, LocalOK
<1>a. \A w \in Workers : task[w] \in Tasks
  BY <1>0 DEF LocalOK
<1>1. ASSUME NEW w \in Workers, NEW i \in Invoices, NEW a \in Attempts,
             BeginPayment(w, i, a)
      PROVE TypeOK'
  <2>1. LocalOK'
    <3>1. Task("pay", i, a, "PENDING", None) \in Tasks
      BY TaskType DEF Statuses
    <3>2. QED
      BY <1>0, <1>1, <3>1, StartType DEF BeginPayment, Steps
  <2>2. QED
    BY <1>1, <2>1 DEF BeginPayment, TypeOK, LocalOK, database, external
<1>2. ASSUME NEW w \in Workers, NEW i \in Invoices, BeginZeroPayment(w, i)
      PROVE TypeOK'
  <2>1. LocalOK'
    <3>1. Task("pay", i, None, "PENDING", None) \in Tasks
      BY TaskType DEF Statuses
    <3>2. QED
      BY <1>0, <1>2, <3>1, StartType DEF BeginZeroPayment, Steps
  <2>2. QED
    BY <1>2, <2>1 DEF BeginZeroPayment, TypeOK, LocalOK, database, external
<1>3. ASSUME NEW w \in Workers, NEW o \in Outcomes, CreatePaymentAttempt(w, o)
      PROVE TypeOK'
  <2>1. LocalOK'
    BY <1>0, <1>3, GotoType, FinishType DEF CreatePaymentAttempt, Steps
  <2>2. InsertedRow(task[w].invoice, task[w].attempt) \in AttemptRows
    BY <1>a DEF InsertedRow, AttemptRows, Tasks, Statuses
  <2>3. attempts' \in [Attempts -> AttemptRows]
    BY <1>3, <2>2 DEF CreatePaymentAttempt, TypeOK
  <2>4. QED
    BY <1>3, <2>1, <2>3 DEF CreatePaymentAttempt, TypeOK, LocalOK, external
<1>4. ASSUME NEW w \in Workers, Charge(w)
      PROVE TypeOK'
  <2>1. CASE SendCharge(w)
    <3>1. LocalOK'
      BY <1>0, <2>1, GotoType DEF SendCharge, Steps
    <3>2. task[w].attempt \in Attempts
      BY <2>1 DEF SendCharge, JobInv, JobOK, HasRow
    <3>3. QED
      BY <2>1, <3>1, <3>2 DEF SendCharge, TypeOK, LocalOK, database
  <2>2. CASE ChargeSucceeds(w)
    <3>1. Task("pay", task[w].invoice, task[w].attempt, "SUCCEEDED", task[w].attempt)
            \in Tasks
      BY <1>a, TaskType DEF Tasks, Statuses
    <3>2. LocalOK'
      BY <1>0, <2>2, <3>1, StartType DEF ChargeSucceeds, Steps
    <3>3. QED
      BY <2>2, <3>2 DEF ChargeSucceeds, TypeOK, LocalOK, database, external
  <2>3. CASE ChargeRetries(w)
    <3>1. LocalOK'
      BY <1>0, <2>3, BoundAssumption DEF ChargeRetries, RetryLeft, LocalOK, Steps
    <3>2. QED
      BY <2>3, <3>1 DEF ChargeRetries, TypeOK, LocalOK, database, external
  <2>4. CASE ChargeFails(w)
    <3>1. Task("pay", task[w].invoice, task[w].attempt, "FAILED", None) \in Tasks
      BY <1>a, TaskType DEF Tasks, Statuses
    <3>2. LocalOK'
      BY <1>0, <2>4, <3>1, StartType DEF ChargeFails, Steps
    <3>3. QED
      BY <2>4, <3>2 DEF ChargeFails, TypeOK, LocalOK, database, external
  <2>5. QED
    BY <1>4, <2>1, <2>2, <2>3, <2>4 DEF Charge
<1>5. ASSUME NEW w \in Workers, NEW o \in Outcomes, UpdateAttemptStatus(w, o)
      PROVE TypeOK'
  <2>1. LocalOK'
    BY <1>0, <1>5, GotoType, FinishType DEF UpdateAttemptStatus, Steps
  <2> DEFINE t == task[w]
             row == attempts[t.attempt]
             new == [status |-> t.status, invoice |-> row.invoice,
                     provider |-> IF t.tx = None THEN row.provider ELSE t.tx,
                     code |-> ErrorCode(t)]
  <2>2. t.attempt \in Attempts
    BY <1>5 DEF UpdateAttemptStatus, JobInv, JobOK, HasRow
  <2>3. row \in AttemptRows
    BY <2>2 DEF TypeOK
  <2>4. new \in AttemptRows
    <3>1. ErrorCode(t) \in ErrorCodes \cup {None}
      BY DEF ErrorCode, ErrorCodes
    <3>2. QED
      BY <1>a, <2>3, <3>1 DEF AttemptRows, Tasks, Statuses
  <2>5. attempts' = attempts \/ attempts' = [attempts EXCEPT ![t.attempt] = new]
    BY <1>5 DEF UpdateAttemptStatus
  <2>6. attempts' \in [Attempts -> AttemptRows]
    BY <2>4, <2>5 DEF TypeOK
  <2>7. QED
    BY <1>5, <2>1, <2>6 DEF UpdateAttemptStatus, TypeOK, LocalOK, external
<1>6. ASSUME NEW w \in Workers, NEW o \in Outcomes, MarkInvoicePaid(w, o)
      PROVE TypeOK'
  <2>1. LocalOK'
    BY <1>0, <1>6, GotoType, FinishType DEF MarkInvoicePaid, Steps
  <2>2. task[w].tx \in Attempts \cup {None}
    BY <1>a DEF Tasks
  <2>3. invoice' \in [Invoices -> {"DRAFT", "FINALIZED", "PAID"}]
    BY <1>6 DEF MarkInvoicePaid, TypeOK
  <2>4. paidBy' \in [Invoices -> Attempts \cup {None}]
    BY <1>6, <2>2 DEF MarkInvoicePaid, TypeOK
  <2>5. QED
    BY <1>6, <2>1, <2>3, <2>4 DEF MarkInvoicePaid, TypeOK, LocalOK, external
<1>7. ASSUME NEW w \in Workers, NEW o \in Outcomes, RecordCredit(w, o)
      PROVE TypeOK'
  <2>1. LocalOK'
    BY <1>0, <1>7, FinishType DEF RecordCredit
  <2>2. credits' \in [Invoices -> {0, 1}]
    BY <1>7 DEF RecordCredit, TypeOK
  <2>3. QED
    BY <1>7, <2>1, <2>2 DEF RecordCredit, TypeOK, LocalOK, external
<1>8. ASSUME NEW w \in Workers, ContextExpires(w)
      PROVE TypeOK'
  BY <1>8 DEF ContextExpires, TypeOK, database, external
<1>9. ASSUME NEW w \in Workers, NEW e \in events, NEW a \in Attempts,
             HandleAsyncResult(w, e, a)
      PROVE TypeOK'
  <2>1. /\ e.intent \in Attempts /\ e.status \in Statuses
        /\ attempts[a].invoice \in Invoices \cup {None}
    BY DEF TypeOK, AttemptRows, Statuses
  <2>2. Task("hook", attempts[a].invoice, a, e.status, e.intent) \in Tasks
    BY <2>1, TaskType
  <2>3. LocalOK'
    <3>1. CASE UNCHANGED local
      BY <1>0, <3>1 DEF LocalOK, local
    <3>2. QED
      BY <1>0, <1>9, <2>2, <3>1, StartType DEF HandleAsyncResult, Steps
  <2>4. QED
    BY <1>9, <2>3 DEF HandleAsyncResult, TypeOK, LocalOK, database
<1>10. ASSUME NEW w \in Workers, NEW r \in batch[Home[w]], NEW s \in Statuses,
              SyncAttempt(w, r, s)
       PROVE TypeOK'
  <2>1. Home[w] \in Procs /\ r \in Snapshots
    BY HomeAssumption DEF TypeOK
  <2>2. Task("recon", attempts[r.attempt].invoice, r.attempt, s, r.provider) \in Tasks
    <3>1. attempts[r.attempt] \in AttemptRows
      BY <2>1 DEF TypeOK, Snapshots
    <3>2. QED
      BY <2>1, <3>1, TaskType DEF AttemptRows, Snapshots
  <2>3. LocalOK'
    <3>1. CASE UNCHANGED local
      BY <1>0, <3>1 DEF LocalOK, local
    <3>2. QED
      BY <1>0, <1>10, <2>2, <3>1, StartType DEF SyncAttempt, Steps
  <2>4. QED
    BY <1>10, <2>1, <2>3 DEF SyncAttempt, TypeOK, LocalOK, database, external
<1>11. ASSUME NEW i \in Invoices, FinalizeInvoice(i)
       PROVE TypeOK'
  BY <1>11 DEF FinalizeInvoice, TypeOK, external, local
<1>12. ASSUME NEW p \in Procs, GetPendingAttempts(p)
       PROVE TypeOK'
  BY <1>12 DEF GetPendingAttempts, TypeOK, Snapshots, AttemptRows, database, external,
               local
<1>13. ASSUME NEW p \in Procs, Crash(p)
       PROVE TypeOK'
  <2>1. LocalOK'
    <3>1. pc' \in [Workers -> Steps]
      BY <1>0, <1>13 DEF Crash, LocalOK, Steps
    <3>2. task' \in [Workers -> Tasks]
      BY <1>0, <1>13, NoTaskType DEF Crash, LocalOK
    <3>3. live' \in [Workers -> BOOLEAN]
      BY <1>0, <1>13 DEF Crash, LocalOK
    <3>4. tries' \in [Workers -> 0..MaxRetries]
      BY <1>0, <1>13, BoundAssumption DEF Crash, LocalOK
    <3>5. QED
      BY <3>1, <3>2, <3>3, <3>4 DEF LocalOK
  <2>2. crashes' \in 0..MaxCrashes
    BY <1>13, BoundAssumption DEF Crash, TypeOK
  <2>3. QED
    BY <1>13, <2>1, <2>2 DEF Crash, TypeOK, LocalOK, database, external
<1>14. ASSUME NEW a \in Attempts, RequestLost(a)
       PROVE TypeOK'
  BY <1>14 DEF RequestLost, TypeOK, database, local
<1>15. ASSUME NEW a \in Attempts, NEW s \in IntentStates, StripeProcesses(a, s)
       PROVE TypeOK'
  BY <1>15 DEF StripeProcesses, EventsOf, TypeOK, database, local
<1>16. ASSUME NEW a \in Attempts, NEW s \in IntentStates, StripeSettles(a, s)
       PROVE TypeOK'
  BY <1>16 DEF StripeSettles, EventsOf, TypeOK, database, local
<1>17. ASSUME UNCHANGED vars PROVE TypeOK'
  BY <1>17 DEF vars, TypeOK
<1>18. QED
  BY <1>1, <1>2, <1>3, <1>4, <1>5, <1>6, <1>7, <1>8, <1>9, <1>10, <1>11, <1>12,
     <1>13, <1>14, <1>15, <1>16, <1>17 DEF Next, JobStep

-----------------------------------------------------------------------------
(* The inductive invariant.                                                *)

(***************************************************************************)
(* A call that starts draws an attempt id that no row has, so no row gains *)
(* a live call; and an expired context never comes back to life.           *)
(***************************************************************************)
CallsOnlyEnd ==
  \A a \in Attempts : attempts[a].status # "absent" /\ NoLiveCall(a) => NoLiveCall(a)'

LEMMA BatchStep ==
  ASSUME TypeOK, BatchInv, CallsOnlyEnd, TypeOK',
         \A p \in Procs : batch'[p] \subseteq batch[p],
         \A a \in Attempts : attempts[a].status # "absent" =>
                                attempts'[a].status # "absent"
  PROVE  BatchInv'
<1> SUFFICES ASSUME NEW p \in Procs, NEW r \in batch'[p]
             PROVE  /\ r.provider = None
                    /\ attempts'[r.attempt].status # "absent"
                    /\ NoLiveCall(r.attempt)'
  BY DEF BatchInv
<1>1. r \in batch[p] /\ r.attempt \in Attempts
  BY DEF TypeOK, Snapshots
<1>2. QED
  BY <1>1 DEF BatchInv, CallsOnlyEnd

LEMMA ReconStep ==
  ASSUME TypeOK, JobInv, ReconInv, CallsOnlyEnd,
         \A w \in Workers : pc'[w] # "idle" /\ task'[w].kind # "pay" =>
                              pc[w] # "idle" /\ task'[w] = task[w]
  PROVE  ReconInv'
<1> SUFFICES ASSUME NEW w \in Workers, Busy(w)'
             PROVE  (/\ task[w].kind # "hook"
                     /\ task[w].kind = "recon" => NoLiveCall(task[w].attempt))'
  BY DEF ReconInv
<1>1. CASE task'[w].kind = "pay"
  BY <1>1
<1>2. CASE task'[w].kind # "pay"
  <2>1. pc[w] # "idle" /\ task'[w] = task[w]
    BY <1>2 DEF Busy
  <2>2. /\ task[w].kind # "hook"
        /\ task[w].kind = "recon" => NoLiveCall(task[w].attempt)
    BY <2>1 DEF ReconInv, Busy
  <2>3. pc[w] = "update"
    BY <1>2, <2>1 DEF JobInv, JobOK, TypeOK, Steps
  <2>4. task[w].attempt \in Attempts /\ attempts[task[w].attempt].status # "absent"
    BY <2>3 DEF JobInv, JobOK, HasRow
  <2>5. NoLiveCall(task[w].attempt) => NoLiveCall(task[w].attempt)'
    BY <2>1, <2>4 DEF CallsOnlyEnd, NoLiveCall
  <2>6. QED
    BY <2>1, <2>2, <2>5
<1>3. QED
  BY <1>1, <1>2

(***************************************************************************)
(* The invariant is kept by every step.                                    *)
(***************************************************************************)
LEMMA Inductive == IInv /\ [Next]_vars => IInv'
<1> SUFFICES ASSUME IInv, [Next]_vars PROVE IInv'
  OBVIOUS
<1> USE NoneAssumption, HomeAssumption
    DEF IInv, Goto, Start, Finish, Task, NoTask, Busy, HasRow, database, external, local
<1>0. TypeOK'
  BY TypeStep
<1>1. ASSUME NEW w \in Workers, NEW i \in Invoices, NEW a \in Attempts,
             BeginPayment(w, i, a)
      PROVE IInv'
  <2>1. RowInv' /\ InvoiceInv' /\ ProviderInv'
    BY <1>1
       DEF BeginPayment, Unused, InFlight, RowInv, Captured, InvoiceInv, ProviderInv
  <2>2. CallsOnlyEnd
    BY <1>1
       DEF BeginPayment, Unused, InFlight, CallsOnlyEnd, NoLiveCall, JobInv, JobOK,
           TypeOK
  <2>3. JobInv'
    BY <1>0, <1>1
       DEF BeginPayment, Unused, InFlight, JobInv, JobOK, TypeOK, Captured, RowInv,
           KeyInv, AttemptRows
  <2>4. KeyInv'
    BY <1>0, <1>1 DEF BeginPayment, Unused, InFlight, KeyInv, JobInv, JobOK, TypeOK
  <2>5. ReconInv'
    BY <1>0, <1>1, <2>2, ReconStep DEF BeginPayment, Unused, InFlight, TypeOK
  <2>6. LiveCallKeepsItsRow'
    BY <1>0, <1>1
       DEF BeginPayment, Unused, InFlight, LiveCallKeepsItsRow, KeyInv, ReconInv,
           NoLiveCall, JobInv, JobOK, TypeOK, AttemptRows
  <2>7. BatchInv'
    BY <1>0, <1>1, <2>2, BatchStep
       DEF BeginPayment, Unused, InFlight, TypeOK, AttemptRows, Statuses
  <2>8. QED
    BY <1>0, <2>1, <2>3, <2>4, <2>5, <2>6, <2>7
<1>2. ASSUME NEW w \in Workers, NEW i \in Invoices, BeginZeroPayment(w, i)
      PROVE IInv'
  <2>1. RowInv' /\ InvoiceInv' /\ ProviderInv'
    BY <1>2 DEF BeginZeroPayment, InFlight, RowInv, Captured, InvoiceInv, ProviderInv
  <2>2. CallsOnlyEnd
    BY <1>2
       DEF BeginZeroPayment, InFlight, CallsOnlyEnd, NoLiveCall, JobInv, JobOK, TypeOK
  <2>3. JobInv'
    BY <1>0, <1>2
       DEF BeginZeroPayment, InFlight, JobInv, JobOK, TypeOK, Captured, RowInv,
           KeyInv, AttemptRows
  <2>4. KeyInv'
    BY <1>0, <1>2 DEF BeginZeroPayment, InFlight, KeyInv, JobInv, JobOK, TypeOK
  <2>5. ReconInv'
    BY <1>0, <1>2, <2>2, ReconStep DEF BeginZeroPayment, InFlight, TypeOK
  <2>6. LiveCallKeepsItsRow'
    BY <1>0, <1>2
       DEF BeginZeroPayment, InFlight, LiveCallKeepsItsRow, KeyInv, ReconInv,
           NoLiveCall, JobInv, JobOK, TypeOK, AttemptRows
  <2>7. BatchInv'
    BY <1>0, <1>2, <2>2, BatchStep
       DEF BeginZeroPayment, InFlight, TypeOK, AttemptRows, Statuses
  <2>8. QED
    BY <1>0, <2>1, <2>3, <2>4, <2>5, <2>6, <2>7
<1>3. ASSUME NEW w \in Workers, NEW o \in Outcomes, CreatePaymentAttempt(w, o)
      PROVE IInv'
  <2>1. CallsOnlyEnd
    BY <1>3
       DEF CreatePaymentAttempt, InsertedRow, Inserted, Applied, CallsOnlyEnd,
           NoLiveCall, JobInv, JobOK, TypeOK
  <2>2. RowInv'
    BY <1>0, <1>3
       DEF CreatePaymentAttempt, InsertedRow, Inserted, Applied, RowInv, Captured,
           JobInv, JobOK, TypeOK, AttemptRows
  <2>3. InvoiceInv'
    BY <1>0, <1>3
       DEF CreatePaymentAttempt, InsertedRow, Inserted, Applied, InvoiceInv, Captured,
           RowInv, JobInv, JobOK, TypeOK
  <2>4. JobInv'
    BY <1>0, <1>3
       DEF CreatePaymentAttempt, InsertedRow, Inserted, Applied, JobInv, JobOK,
           TypeOK, Captured, RowInv, KeyInv, AttemptRows
  <2>5. KeyInv'
    BY <1>0, <1>3
       DEF CreatePaymentAttempt, InsertedRow, Inserted, Applied, KeyInv, JobInv,
           JobOK, TypeOK
  <2>6. ProviderInv'
    BY <1>0, <1>3
       DEF CreatePaymentAttempt, InsertedRow, Inserted, Applied, ProviderInv, JobInv,
           JobOK, TypeOK, AttemptRows
  <2>7. ReconInv'
    BY <1>0, <1>3, <2>1, ReconStep
       DEF CreatePaymentAttempt, InsertedRow, Inserted, Applied, TypeOK
  <2>8. LiveCallKeepsItsRow'
    BY <1>0, <1>3
       DEF CreatePaymentAttempt, InsertedRow, Inserted, Applied, LiveCallKeepsItsRow,
           KeyInv, ReconInv, NoLiveCall, JobInv, JobOK, TypeOK, AttemptRows
  <2>9. BatchInv'
    BY <1>0, <1>3, <2>1, BatchStep
       DEF CreatePaymentAttempt, InsertedRow, Inserted, Applied, TypeOK, AttemptRows,
           Statuses
  <2>10. QED
    BY <1>0, <2>2, <2>3, <2>4, <2>5, <2>6, <2>7, <2>8, <2>9
<1>4. ASSUME NEW w \in Workers, SendCharge(w)
      PROVE IInv'
  <2>1. InvoiceInv' /\ ProviderInv' /\ KeyInv' /\ ReconInv'
    BY <1>4
       DEF SendCharge, InvoiceInv, Captured, ProviderInv, KeyInv, ReconInv, NoLiveCall
  <2>2. CallsOnlyEnd
    BY <1>4 DEF SendCharge, CallsOnlyEnd, NoLiveCall, JobInv, JobOK, TypeOK
  <2>3. RowInv'
    BY <1>0, <1>4 DEF SendCharge, RowInv, Captured, JobInv, JobOK, TypeOK, AttemptRows
  <2>4. JobInv'
    BY <1>0, <1>4
       DEF SendCharge, JobInv, JobOK, TypeOK, Captured, RowInv, KeyInv, AttemptRows
  <2>5. LiveCallKeepsItsRow'
    BY <1>0, <1>4
       DEF SendCharge, LiveCallKeepsItsRow, KeyInv, ReconInv, NoLiveCall, JobInv,
           JobOK, TypeOK, AttemptRows
  <2>6. BatchInv'
    BY <1>0, <1>4, <2>2, BatchStep DEF SendCharge, TypeOK, AttemptRows, Statuses
  <2>7. QED
    BY <1>0, <2>1, <2>3, <2>4, <2>5, <2>6
<1>5. ASSUME NEW w \in Workers, ChargeSucceeds(w)
      PROVE IInv'
  <2>1. RowInv' /\ InvoiceInv' /\ ProviderInv'
    BY <1>5
       DEF ChargeSucceeds, AnswersSucceeded, RowInv, Captured, InvoiceInv, ProviderInv
  <2>2. CallsOnlyEnd
    BY <1>5
       DEF ChargeSucceeds, AnswersSucceeded, CallsOnlyEnd, NoLiveCall, JobInv, JobOK,
           TypeOK
  <2>3. JobInv'
    BY <1>0, <1>5
       DEF ChargeSucceeds, AnswersSucceeded, JobInv, JobOK, TypeOK, Captured, RowInv,
           KeyInv, AttemptRows
  <2>4. KeyInv'
    BY <1>0, <1>5 DEF ChargeSucceeds, AnswersSucceeded, KeyInv, JobInv, JobOK, TypeOK
  <2>5. ReconInv'
    BY <1>0, <1>5, <2>2, ReconStep DEF ChargeSucceeds, AnswersSucceeded, TypeOK
  <2>6. LiveCallKeepsItsRow'
    BY <1>0, <1>5
       DEF ChargeSucceeds, AnswersSucceeded, LiveCallKeepsItsRow, KeyInv, ReconInv,
           NoLiveCall, JobInv, JobOK, TypeOK, AttemptRows
  <2>7. BatchInv'
    BY <1>0, <1>5, <2>2, BatchStep
       DEF ChargeSucceeds, AnswersSucceeded, TypeOK, AttemptRows, Statuses
  <2>8. QED
    BY <1>0, <2>1, <2>3, <2>4, <2>5, <2>6, <2>7
<1>6. ASSUME NEW w \in Workers, ChargeRetries(w)
      PROVE IInv'
  <2>1. RowInv' /\ InvoiceInv' /\ ProviderInv' /\ KeyInv' /\ ReconInv'
    BY <1>6
       DEF ChargeRetries, RowInv, Captured, InvoiceInv, ProviderInv, KeyInv, ReconInv,
           NoLiveCall
  <2>2. CallsOnlyEnd
    BY <1>6 DEF ChargeRetries, CallsOnlyEnd, NoLiveCall, JobInv, JobOK, TypeOK
  <2>3. JobInv'
    BY <1>0, <1>6
       DEF ChargeRetries, JobInv, JobOK, TypeOK, Captured, RowInv, KeyInv, AttemptRows
  <2>4. LiveCallKeepsItsRow'
    BY <1>0, <1>6
       DEF ChargeRetries, LiveCallKeepsItsRow, KeyInv, ReconInv, NoLiveCall, JobInv,
           JobOK, TypeOK, AttemptRows
  <2>5. BatchInv'
    BY <1>0, <1>6, <2>2, BatchStep DEF ChargeRetries, TypeOK, AttemptRows, Statuses
  <2>6. QED
    BY <1>0, <2>1, <2>3, <2>4, <2>5
<1>7. ASSUME NEW w \in Workers, ChargeFails(w)
      PROVE IInv'
  <2>1. RowInv' /\ InvoiceInv' /\ ProviderInv'
    BY <1>7 DEF ChargeFails, MayGiveUp, RowInv, Captured, InvoiceInv, ProviderInv
  <2>2. CallsOnlyEnd
    BY <1>7
       DEF ChargeFails, MayGiveUp, CallsOnlyEnd, NoLiveCall, JobInv, JobOK, TypeOK
  <2>3. JobInv'
    BY <1>0, <1>7
       DEF ChargeFails, MayGiveUp, JobInv, JobOK, TypeOK, Captured, RowInv, KeyInv,
           AttemptRows
  <2>4. KeyInv'
    BY <1>0, <1>7 DEF ChargeFails, MayGiveUp, KeyInv, JobInv, JobOK, TypeOK
  <2>5. ReconInv'
    BY <1>0, <1>7, <2>2, ReconStep DEF ChargeFails, MayGiveUp, TypeOK
  <2>6. LiveCallKeepsItsRow'
    BY <1>0, <1>7
       DEF ChargeFails, MayGiveUp, LiveCallKeepsItsRow, KeyInv, ReconInv, NoLiveCall,
           JobInv, JobOK, TypeOK, AttemptRows
  <2>7. BatchInv'
    BY <1>0, <1>7, <2>2, BatchStep
       DEF ChargeFails, MayGiveUp, TypeOK, AttemptRows, Statuses
  <2>8. QED
    BY <1>0, <2>1, <2>3, <2>4, <2>5, <2>6, <2>7
<1>8. ASSUME NEW w \in Workers, NEW o \in Outcomes, UpdateAttemptStatus(w, o)
      PROVE IInv'
  <2>1. CallsOnlyEnd
    BY <1>8 DEF UpdateAttemptStatus, CallsOnlyEnd, NoLiveCall, JobInv, JobOK, TypeOK
  <2>2. RowInv'
    BY <1>0, <1>8
       DEF UpdateAttemptStatus, RowInv, Captured, JobInv, JobOK, TypeOK, AttemptRows
  <2>3. InvoiceInv'
    BY <1>0, <1>8
       DEF UpdateAttemptStatus, InvoiceInv, Captured, RowInv, JobInv, JobOK, TypeOK
  <2>4. JobInv'
    BY <1>0, <1>8
       DEF UpdateAttemptStatus, JobInv, JobOK, TypeOK, Captured, RowInv, KeyInv,
           AttemptRows
  <2>5. KeyInv'
    BY <1>0, <1>8 DEF UpdateAttemptStatus, KeyInv, JobInv, JobOK, TypeOK
  <2>6. ProviderInv'
    BY <1>0, <1>8
       DEF UpdateAttemptStatus, ProviderInv, JobInv, JobOK, TypeOK, AttemptRows
  <2>7. ReconInv'
    BY <1>0, <1>8, <2>1, ReconStep DEF UpdateAttemptStatus, TypeOK
  <2>8. \A b \in Attempts : /\ b # task[w].attempt => attempts'[b] = attempts[b]
                            /\ attempts[b].status # "absent" => attempts'[b].status # "absent"
    BY <1>8 DEF UpdateAttemptStatus, JobInv, JobOK, TypeOK, Tasks, Statuses
  <2>9. LiveCallKeepsItsRow'
    <3> SUFFICES ASSUME NEW v \in Workers, task'[v].kind = "pay", live'[v],
                        pc'[v] \in {"charge", "calling", "update"}
                 PROVE  attempts'[task'[v].attempt].status = "PENDING"
      BY DEF LiveCallKeepsItsRow
    <3>1. v # w
      BY <1>8 DEF UpdateAttemptStatus, TypeOK
    <3>2. pc'[v] = pc[v] /\ task'[v] = task[v] /\ live'[v] = live[v]
      BY <1>8, <3>1 DEF UpdateAttemptStatus, TypeOK
    <3>3. attempts[task[v].attempt].status = "PENDING" /\ task[v].attempt \in Attempts
      BY <3>2 DEF LiveCallKeepsItsRow, JobInv, JobOK
    <3>4. task[w].attempt # task[v].attempt
      <4>1. CASE task[w].kind = "pay"
        BY <3>1, <3>2, <3>3, <4>1 DEF KeyInv
      <4>2. CASE task[w].kind # "pay"
        <5>1. task[w].kind = "recon" /\ pc[w] = "update"
          BY <1>8, <4>2 DEF UpdateAttemptStatus, ReconInv, TypeOK, Tasks
        <5>2. QED
          BY <3>2, <5>1 DEF ReconInv, NoLiveCall
      <4>3. QED
        BY <4>1, <4>2
    <3>5. QED
      BY <2>8, <3>2, <3>3, <3>4
  <2>10. BatchInv'
    BY <1>0, <1>8, <2>1, <2>8, BatchStep DEF UpdateAttemptStatus
  <2>11. QED
    BY <1>0, <2>2, <2>3, <2>4, <2>5, <2>6, <2>7, <2>9, <2>10
<1>9. ASSUME NEW w \in Workers, NEW o \in Outcomes, MarkInvoicePaid(w, o)
      PROVE IInv'
  <2>1. ProviderInv'
    BY <1>9 DEF MarkInvoicePaid, Marked, Payable, ProviderInv
  <2>2. CallsOnlyEnd
    BY <1>9
       DEF MarkInvoicePaid, Marked, Payable, CallsOnlyEnd, NoLiveCall, JobInv, JobOK,
           TypeOK
  <2>3. RowInv'
    BY <1>0, <1>9
       DEF MarkInvoicePaid, Marked, Payable, RowInv, Captured, JobInv, JobOK, TypeOK,
           AttemptRows
  <2>4. InvoiceInv'
    BY <1>0, <1>9
       DEF MarkInvoicePaid, Marked, Payable, InvoiceInv, Captured, RowInv, JobInv,
           JobOK, TypeOK
  <2>5. JobInv'
    <3> SUFFICES ASSUME NEW v \in Workers PROVE JobOK(v)'
      BY DEF JobInv
    <3>1. /\ JobOK(w) /\ JobOK(v)
          /\ pc[w] = "markPaid"
          /\ \A i \in Invoices : invoice[i] \in {"DRAFT", "FINALIZED", "PAID"}
      BY <1>9 DEF MarkInvoicePaid, JobInv, TypeOK
    <3>2. \A i \in Invoices : /\ invoice[i] # "DRAFT" => invoice'[i] # "DRAFT"
                              /\ invoice[i] = "PAID" => invoice'[i] = "PAID"
      BY <1>9 DEF MarkInvoicePaid, TypeOK
    <3>3. CASE v # w
      <4>1. pc'[v] = pc[v] /\ task'[v] = task[v]
        BY <1>9, <3>3 DEF MarkInvoicePaid, TypeOK
      <4>2. QED
        BY <1>9, <3>1, <3>2, <4>1 DEF MarkInvoicePaid, JobOK, Captured
    <3>4. CASE v = w /\ Marked(o, task[w].invoice)
      <4>1. /\ pc'[v] = "credit"
            /\ task'[v] = task[v] /\ invoice'[task[v].invoice] = "PAID"
        BY <1>9, <3>1, <3>4 DEF MarkInvoicePaid, Marked, Applied, JobOK, TypeOK
      <4>2. QED
        BY <3>1, <3>2, <3>4, <4>1 DEF JobOK
    <3>5. CASE v = w /\ ~Marked(o, task[w].invoice)
      <4>1. pc'[v] = "idle" /\ task'[v] = NoTask
        BY <1>9, <3>5 DEF MarkInvoicePaid, TypeOK
      <4>2. QED
        BY <4>1 DEF JobOK
    <3>6. QED
      BY <3>3, <3>4, <3>5
  <2>6. KeyInv'
    BY <1>0, <1>9 DEF MarkInvoicePaid, Marked, Payable, KeyInv, JobInv, JobOK, TypeOK
  <2>7. ReconInv'
    BY <1>0, <1>9, <2>2, ReconStep DEF MarkInvoicePaid, Marked, Payable, TypeOK
  <2>8. LiveCallKeepsItsRow'
    BY <1>0, <1>9
       DEF MarkInvoicePaid, Marked, Payable, LiveCallKeepsItsRow, KeyInv, ReconInv,
           NoLiveCall, JobInv, JobOK, TypeOK, AttemptRows
  <2>9. BatchInv'
    BY <1>0, <1>9, <2>2, BatchStep
       DEF MarkInvoicePaid, Marked, Payable, TypeOK, AttemptRows, Statuses
  <2>10. QED
    BY <1>0, <2>1, <2>3, <2>4, <2>5, <2>6, <2>7, <2>8, <2>9
<1>10. ASSUME NEW w \in Workers, NEW o \in Outcomes, RecordCredit(w, o)
      PROVE IInv'
  <2>1. RowInv' /\ ProviderInv'
    BY <1>10 DEF RecordCredit, RowInv, Captured, ProviderInv
  <2>2. CallsOnlyEnd
    BY <1>10 DEF RecordCredit, CallsOnlyEnd, NoLiveCall, JobInv, JobOK, TypeOK
  <2>3. InvoiceInv'
    BY <1>0, <1>10
       DEF RecordCredit, InvoiceInv, Captured, RowInv, JobInv, JobOK, TypeOK
  <2>4. JobInv'
    BY <1>0, <1>10
       DEF RecordCredit, JobInv, JobOK, TypeOK, Captured, RowInv, KeyInv, AttemptRows
  <2>5. KeyInv'
    BY <1>0, <1>10 DEF RecordCredit, KeyInv, JobInv, JobOK, TypeOK
  <2>6. ReconInv'
    BY <1>0, <1>10, <2>2, ReconStep DEF RecordCredit, TypeOK
  <2>7. LiveCallKeepsItsRow'
    BY <1>0, <1>10
       DEF RecordCredit, LiveCallKeepsItsRow, KeyInv, ReconInv, NoLiveCall, JobInv,
           JobOK, TypeOK, AttemptRows
  <2>8. BatchInv'
    BY <1>0, <1>10, <2>2, BatchStep DEF RecordCredit, TypeOK, AttemptRows, Statuses
  <2>9. QED
    BY <1>0, <2>1, <2>3, <2>4, <2>5, <2>6, <2>7, <2>8
<1>11. ASSUME NEW w \in Workers, ContextExpires(w)
      PROVE IInv'
  <2>1. RowInv' /\ InvoiceInv' /\ ProviderInv' /\ JobInv' /\ KeyInv'
    BY <1>11
       DEF ContextExpires, RowInv, Captured, InvoiceInv, ProviderInv, JobInv, JobOK,
           KeyInv
  <2>2. CallsOnlyEnd
    BY <1>11 DEF ContextExpires, CallsOnlyEnd, NoLiveCall, JobInv, JobOK, TypeOK
  <2>3. ReconInv'
    BY <1>0, <1>11, <2>2, ReconStep DEF ContextExpires, TypeOK
  <2>4. LiveCallKeepsItsRow'
    BY <1>0, <1>11
       DEF ContextExpires, LiveCallKeepsItsRow, KeyInv, ReconInv, NoLiveCall, JobInv,
           JobOK, TypeOK, AttemptRows
  <2>5. BatchInv'
    BY <1>0, <1>11, <2>2, BatchStep DEF ContextExpires, TypeOK, AttemptRows, Statuses
  <2>6. QED
    BY <1>0, <2>1, <2>3, <2>4, <2>5
<1>12. ASSUME NEW w \in Workers, NEW e \in events, NEW a \in Attempts,
             HandleAsyncResult(w, e, a)
      PROVE IInv'
  <2>1. attempts[a].provider # None
    BY <1>12 DEF HandleAsyncResult, TypeOK
  <2>2. attempts[a].status = "SUCCEEDED"
    BY <2>1 DEF ProviderInv
  <2>3. UNCHANGED <<database, stripe, wire, local, batch, crashes>>
    BY <1>12, <2>2 DEF HandleAsyncResult
  <2>4. QED
    BY <1>0, <2>3
       DEF RowInv, Captured, InvoiceInv, ProviderInv, JobInv, JobOK, KeyInv,
                      BatchInv, ReconInv, NoLiveCall, LiveCallKeepsItsRow
<1>13. ASSUME NEW w \in Workers, NEW r \in batch[Home[w]], NEW s \in Statuses,
             SyncAttempt(w, r, s)
      PROVE IInv'
  <2>1. /\ r.attempt \in Attempts /\ r.provider = None
        /\ attempts[r.attempt].status # "absent"
        /\ NoLiveCall(r.attempt)
    BY DEF BatchInv, TypeOK, Snapshots
  <2>2. s = "FAILED"
    BY <1>13, <2>1 DEF SyncAttempt, Verdicts
  <2> DEFINE t == Task("recon", attempts[r.attempt].invoice, r.attempt, "FAILED", None)
  <2>3. /\ UNCHANGED <<database, external, crashes, live, tries>>
        /\ pc[w] = "idle"
        /\ pc' = [pc EXCEPT ![w] = "update"]
        /\ task' = [task EXCEPT ![w] = t]
        /\ batch' = [batch EXCEPT ![Home[w]] = @ \ {r}]
    BY <1>13, <2>1, <2>2 DEF SyncAttempt
  <2>4. RowInv' /\ InvoiceInv' /\ ProviderInv'
    BY <2>3 DEF RowInv, Captured, InvoiceInv, ProviderInv
  <2>5. \A v \in Workers : IF v = w THEN pc'[v] = "update" /\ task'[v] = t
                                      ELSE pc'[v] = pc[v] /\ task'[v] = task[v]
    BY <2>3 DEF TypeOK
  <2>6. CallsOnlyEnd
    BY <2>3, <2>5 DEF CallsOnlyEnd, NoLiveCall
  <2>7. JobInv'
    <3>1. /\ t.attempt \in Attempts /\ t.status = "FAILED" /\ t.tx = None
          /\ HasRow(t)'
          /\ t.invoice \in Invoices /\ invoice'[t.invoice] # "DRAFT"
      BY <2>1, <2>3 DEF RowInv
    <3>2. QED
      BY <2>3, <2>5, <3>1 DEF JobInv, JobOK, Captured
  <2>8. KeyInv'
    BY <2>5 DEF KeyInv
  <2>9. ReconInv'
    <3>1. NoLiveCall(r.attempt)'
      BY <2>1, <2>6 DEF CallsOnlyEnd
    <3>2. QED
      BY <2>3, <2>5, <2>6, <3>1
         DEF ReconInv, CallsOnlyEnd, JobInv, JobOK, TypeOK, Steps
  <2>10. LiveCallKeepsItsRow'
    BY <2>3, <2>5 DEF LiveCallKeepsItsRow
  <2>11. BatchInv'
    <3>1. \A p \in Procs : batch'[p] \subseteq batch[p]
      BY <2>3 DEF TypeOK
    <3>2. QED
      BY <1>0, <2>3, <2>6, <3>1, BatchStep
  <2>12. QED
    BY <1>0, <2>4, <2>7, <2>8, <2>9, <2>10, <2>11
<1>14. ASSUME NEW i \in Invoices, FinalizeInvoice(i)
      PROVE IInv'
  <2>1. ProviderInv' /\ KeyInv' /\ ReconInv' /\ LiveCallKeepsItsRow' /\ BatchInv'
    BY <1>14
       DEF FinalizeInvoice, ProviderInv, KeyInv, ReconInv, NoLiveCall,
           LiveCallKeepsItsRow, BatchInv
  <2>2. RowInv'
    BY <1>0, <1>14
       DEF FinalizeInvoice, RowInv, Captured, JobInv, JobOK, TypeOK, AttemptRows
  <2>3. InvoiceInv'
    BY <1>0, <1>14
       DEF FinalizeInvoice, InvoiceInv, Captured, RowInv, JobInv, JobOK, TypeOK
  <2>4. JobInv'
    BY <1>0, <1>14
       DEF FinalizeInvoice, JobInv, JobOK, TypeOK, Captured, RowInv, KeyInv,
           AttemptRows
  <2>5. QED
    BY <1>0, <2>1, <2>2, <2>3, <2>4
<1>15. ASSUME NEW p \in Procs, GetPendingAttempts(p)
      PROVE IInv'
  <2>1. /\ RowInv' /\ InvoiceInv' /\ ProviderInv'
        /\ JobInv' /\ KeyInv' /\ ReconInv' /\ LiveCallKeepsItsRow'
    BY <1>15
       DEF GetPendingAttempts, Stuck, RowInv, Captured, InvoiceInv, ProviderInv,
           JobInv, JobOK, KeyInv, ReconInv, NoLiveCall, LiveCallKeepsItsRow
  <2>2. BatchInv'
    BY <1>0, <1>15
       DEF GetPendingAttempts, Stuck, BatchInv, NoLiveCall, ProviderInv, TypeOK
  <2>3. QED
    BY <1>0, <2>1, <2>2
<1>16. ASSUME NEW p \in Procs, Crash(p)
      PROVE IInv'
  <2>1. RowInv' /\ InvoiceInv' /\ ProviderInv'
    BY <1>16 DEF Crash, RowInv, Captured, InvoiceInv, ProviderInv
  <2>2. CallsOnlyEnd
    BY <1>16 DEF Crash, CallsOnlyEnd, NoLiveCall, JobInv, JobOK, TypeOK
  <2>3. JobInv'
    BY <1>0, <1>16
       DEF Crash, JobInv, JobOK, TypeOK, Captured, RowInv, KeyInv, AttemptRows
  <2>4. KeyInv'
    BY <1>0, <1>16 DEF Crash, KeyInv, JobInv, JobOK, TypeOK
  <2>5. ReconInv'
    BY <1>0, <1>16, <2>2, ReconStep DEF Crash, TypeOK
  <2>6. LiveCallKeepsItsRow'
    BY <1>0, <1>16
       DEF Crash, LiveCallKeepsItsRow, KeyInv, ReconInv, NoLiveCall, JobInv, JobOK,
           TypeOK, AttemptRows
  <2>7. BatchInv'
    BY <1>0, <1>16, <2>2, BatchStep DEF Crash, TypeOK, AttemptRows, Statuses
  <2>8. QED
    BY <1>0, <2>1, <2>3, <2>4, <2>5, <2>6, <2>7
<1>17. ASSUME NEW a \in Attempts, RequestLost(a)
      PROVE IInv'
  <2>1. /\ InvoiceInv' /\ ProviderInv' /\ JobInv'
        /\ KeyInv' /\ ReconInv' /\ LiveCallKeepsItsRow' /\ BatchInv'
    BY <1>17
       DEF RequestLost, InvoiceInv, Captured, ProviderInv, JobInv, JobOK, KeyInv,
           ReconInv, NoLiveCall, LiveCallKeepsItsRow, BatchInv
  <2>2. RowInv'
    BY <1>0, <1>17
       DEF RequestLost, RowInv, Captured, JobInv, JobOK, TypeOK, AttemptRows
  <2>3. QED
    BY <1>0, <2>1, <2>2
<1>18. ASSUME NEW a \in Attempts, NEW s \in IntentStates, StripeProcesses(a, s)
      PROVE IInv'
  <2>1. ProviderInv' /\ KeyInv' /\ ReconInv' /\ LiveCallKeepsItsRow' /\ BatchInv'
    BY <1>18
       DEF StripeProcesses, ProviderInv, KeyInv, ReconInv, NoLiveCall,
           LiveCallKeepsItsRow, BatchInv
  <2>2. RowInv'
    BY <1>0, <1>18
       DEF StripeProcesses, RowInv, Captured, JobInv, JobOK, TypeOK, AttemptRows
  <2>3. InvoiceInv'
    BY <1>0, <1>18
       DEF StripeProcesses, InvoiceInv, Captured, RowInv, JobInv, JobOK, TypeOK
  <2>4. JobInv'
    BY <1>0, <1>18
       DEF StripeProcesses, JobInv, JobOK, TypeOK, Captured, RowInv, KeyInv,
           AttemptRows
  <2>5. QED
    BY <1>0, <2>1, <2>2, <2>3, <2>4
<1>19. ASSUME NEW a \in Attempts, NEW s \in IntentStates, StripeSettles(a, s)
      PROVE IInv'
  <2>1. ProviderInv' /\ KeyInv' /\ ReconInv' /\ LiveCallKeepsItsRow' /\ BatchInv'
    BY <1>19
       DEF StripeSettles, ProviderInv, KeyInv, ReconInv, NoLiveCall,
           LiveCallKeepsItsRow, BatchInv
  <2>2. RowInv'
    BY <1>0, <1>19
       DEF StripeSettles, RowInv, Captured, JobInv, JobOK, TypeOK, AttemptRows
  <2>3. InvoiceInv'
    BY <1>0, <1>19
       DEF StripeSettles, InvoiceInv, Captured, RowInv, JobInv, JobOK, TypeOK
  <2>4. JobInv'
    BY <1>0, <1>19
       DEF StripeSettles, JobInv, JobOK, TypeOK, Captured, RowInv, KeyInv, AttemptRows
  <2>5. QED
    BY <1>0, <2>1, <2>2, <2>3, <2>4
<1>20. ASSUME UNCHANGED vars PROVE IInv'
  BY <1>0, <1>20
     DEF vars, RowInv, InvoiceInv, JobInv, JobOK, KeyInv, BatchInv, ReconInv,
         NoLiveCall, ProviderInv, LiveCallKeepsItsRow, Captured
<1>21. QED
  BY <1>1, <1>2, <1>3, <1>4, <1>5, <1>6, <1>7, <1>8, <1>9, <1>10, <1>11, <1>12, <1>13,
     <1>14, <1>15, <1>16, <1>17, <1>18, <1>19, <1>20
     DEF Next, JobStep, Charge

LEMMA InitIInv == Init => IInv
<1> SUFFICES ASSUME Init PROVE IInv
  OBVIOUS
<1> USE NoneAssumption DEF Init
<1>1. TypeOK
  BY BoundAssumption, NoTaskType
     DEF TypeOK, AttemptRows, NoRow, IntentStates, Steps, Snapshots
<1>2. RowInv /\ InvoiceInv /\ ProviderInv
  BY DEF RowInv, InvoiceInv, ProviderInv, NoRow
<1>3. JobInv /\ KeyInv /\ ReconInv /\ LiveCallKeepsItsRow
  BY DEF JobInv, JobOK, KeyInv, ReconInv, Busy, LiveCallKeepsItsRow, NoTask, Task
<1>4. BatchInv
  BY DEF BatchInv
<1>5. QED
  BY <1>1, <1>2, <1>3, <1>4 DEF IInv

(***************************************************************************)
(* The inductive invariant holds in every reachable state.                 *)
(***************************************************************************)
THEOREM Invariance == Spec => []IInv
  BY InitIInv, Inductive, PTL DEF Spec

-----------------------------------------------------------------------------
(* What the invariant gives.                                               *)

(***************************************************************************)
(* Rows, Stripe's state and every goroutine's variables stay of their type *)
(* and the retries of a charge within maxRetries, whatever fails.          *)
(***************************************************************************)
THEOREM TypeCorrect == Spec => []TypeOK
<1>1. IInv => TypeOK
  BY DEF IInv
<1>2. QED
  BY <1>1, Invariance, PTL

(***************************************************************************)
(* UpdateAttemptStatus and MarkInvoicePaid never record money that Stripe  *)
(* does not hold.                                                          *)
(***************************************************************************)
THEOREM RecordsAreBacked == Spec => []MoneyBehindRecords
<1>1. IInv => MoneyBehindRecords
  BY DEF IInv, RowInv, InvoiceInv, MoneyBehindRecords
<1>2. QED
  BY <1>1, Invariance, PTL

(***************************************************************************)
(* PayInvoiceExecution inserts the attempt before ChargeAttempt sends its  *)
(* key, and no failure or crash undoes that order.                         *)
(***************************************************************************)
THEOREM ChargesAreTraceable == Spec => []IntentBeforeNetwork
<1>1. IInv => IntentBeforeNetwork
  BY DEF IInv, RowInv, IntentBeforeNetwork
<1>2. QED
  BY <1>1, Invariance, PTL

(***************************************************************************)
(* The reconciler's cutoff keeps it away from the row of a PayInvoice call *)
(* that may still write.                                                   *)
(***************************************************************************)
THEOREM LiveCallsAreUndisturbed == Spec => []LiveCallKeepsItsRow
<1>1. IInv => LiveCallKeepsItsRow
  BY DEF IInv
<1>2. QED
  BY <1>1, Invariance, PTL

(***************************************************************************)
(* The compare-and-set of MarkInvoicePaid settles an invoice once, for     *)
(* good, by one transaction.                                               *)
(***************************************************************************)
LEMMA PaidStays ==
  ASSUME IInv, [Next]_vars, NEW i \in Invoices, invoice[i] = "PAID"
  PROVE  invoice'[i] = "PAID" /\ paidBy'[i] = paidBy[i]
<1>1. CASE \E w \in Workers, o \in Outcomes : MarkInvoicePaid(w, o)
  BY <1>1 DEF MarkInvoicePaid, Payable, IInv, TypeOK
<1>2. CASE \E j \in Invoices : FinalizeInvoice(j)
  BY <1>2 DEF FinalizeInvoice, IInv, TypeOK
<1>3. CASE UNCHANGED <<invoice, paidBy>>
  BY <1>3
<1>4. QED
  BY <1>1, <1>2, <1>3
     DEF Next, vars, JobStep, Charge, BeginPayment, BeginZeroPayment, CreatePaymentAttempt,
         SendCharge, ChargeSucceeds, ChargeRetries, ChargeFails, ContextExpires,
         UpdateAttemptStatus, RecordCredit, HandleAsyncResult, SyncAttempt,
         GetPendingAttempts, Crash, RequestLost, StripeProcesses, StripeSettles, database

THEOREM SettledForGood == Spec => PaidOnce
<1>1. IInv /\ [Next]_vars =>
        [\A i \in Invoices : invoice[i] = "PAID" =>
           invoice'[i] = "PAID" /\ paidBy'[i] = paidBy[i]]_vars
  BY PaidStays
<1>2. QED
  BY <1>1, Invariance, PTL DEF Spec, PaidOnce

-----------------------------------------------------------------------------
(* The service implements InvoiceSettlement.                               *)

receipts == [i \in Invoices |-> CollectedFor(i)]

\* Nothing that the promise speaks of changes in a step that captures no money
\* and leaves every row that Stripe knows with its invoice.
LEMMA SameReceipts ==
  ASSUME UNCHANGED stripe,
         \A a \in Attempts : Captured(a) => attempts'[a].invoice = attempts[a].invoice
  PROVE  UNCHANGED receipts
  BY DEF receipts, CollectedFor, Captured

\* A capture is a Collect of the invoice the attempt was made for.
LEMMA CaptureCollects ==
  ASSUME IInv, NEW a \in Attempts, ~Captured(a), attempts[a].status # "absent",
         NEW s \in {"captured", "settled"}, stripe' = [stripe EXCEPT ![a] = s],
         UNCHANGED database
  PROVE  Promise!Collect(attempts[a].invoice, a)
<1> DEFINE i == attempts[a].invoice
<1>1. i \in Invoices /\ invoice[i] # "DRAFT"
  BY DEF IInv, RowInv
<1>2. \A b \in Attempts : Captured(b)' = (Captured(b) \/ b = a)
  BY DEF IInv, TypeOK, Captured
<1>3. a \notin CollectedFor(i)
  BY DEF CollectedFor
<1>4. \A j \in Invoices :
        CollectedFor(j)' = IF j = i THEN CollectedFor(j) \cup {a} ELSE CollectedFor(j)
  BY <1>2 DEF CollectedFor, database
<1>5. receipts' = [receipts EXCEPT ![i] = @ \cup {a}]
  BY <1>1, <1>4 DEF receipts
<1>6. QED
  BY <1>1, <1>3, <1>5 DEF Promise!Collect, receipts, database

LEMMA StepRefines ==
  ASSUME IInv, [Next]_vars
  PROVE  [Promise!Next]_(Promise!vars)
<1> USE DEF Promise!vars
<1> SUFFICES Promise!Next \/ UNCHANGED <<invoice, receipts, credits>>
  BY DEF receipts
<1>1. ASSUME NEW i \in Invoices, FinalizeInvoice(i)
      PROVE  Promise!Next
  <2>1. UNCHANGED receipts
    BY <1>1, SameReceipts DEF FinalizeInvoice, external
  <2>2. Promise!Finalize(i)
    BY <1>1, <2>1 DEF FinalizeInvoice, Promise!Finalize, receipts
  <2>3. QED
    BY <2>2 DEF Promise!Next
<1>2. ASSUME NEW w \in Workers, NEW o \in Outcomes, CreatePaymentAttempt(w, o)
      PROVE  UNCHANGED <<invoice, receipts, credits>>
  <2>1. task[w].attempt \in Attempts /\ attempts[task[w].attempt].status = "absent"
    BY <1>2 DEF CreatePaymentAttempt, IInv, JobInv, JobOK
  <2>2. ~Captured(task[w].attempt)
    BY <2>1 DEF IInv, RowInv, Captured
  <2>3. QED
    BY <1>2, <2>2, SameReceipts DEF CreatePaymentAttempt, IInv, TypeOK, external
<1>3. ASSUME NEW w \in Workers, NEW o \in Outcomes, UpdateAttemptStatus(w, o)
      PROVE  UNCHANGED <<invoice, receipts, credits>>
  BY <1>3, SameReceipts DEF UpdateAttemptStatus, IInv, TypeOK, external
<1>4. ASSUME NEW w \in Workers, NEW o \in Outcomes, MarkInvoicePaid(w, o)
      PROVE  Promise!Next \/ UNCHANGED <<invoice, receipts, credits>>
  <2> DEFINE i == task[w].invoice
  <2>1. UNCHANGED receipts
    BY <1>4, SameReceipts DEF MarkInvoicePaid, external
  <2>2. CASE Applied(o) /\ Payable(i)
    <3>1. /\ i \in Invoices
          /\ TotalCents[i] > 0 => task[w].attempt \in CollectedFor(i)
      BY <1>4 DEF MarkInvoicePaid, IInv, JobInv, JobOK, HasRow, CollectedFor
    <3>2. TotalCents[i] = 0 \/ CollectedFor(i) # {}
      BY <3>1, TotalCentsAssumption
    <3>3. Promise!Settle(i)
      BY <1>4, <2>1, <2>2, <3>1, <3>2
         DEF MarkInvoicePaid, Payable, Promise!Settle, receipts
    <3>4. QED
      BY <3>1, <3>3 DEF Promise!Next
  <2>3. QED
    BY <1>4, <2>1, <2>2 DEF MarkInvoicePaid
<1>5. ASSUME NEW w \in Workers, NEW o \in Outcomes, RecordCredit(w, o)
      PROVE  Promise!Next \/ UNCHANGED <<invoice, receipts, credits>>
  <2> DEFINE i == task[w].invoice
  <2>1. UNCHANGED receipts
    BY <1>5, SameReceipts DEF RecordCredit, external
  <2>2. CASE Applied(o) /\ credits[i] = 0
    <3>1. i \in Invoices /\ invoice[i] = "PAID"
      BY <1>5 DEF RecordCredit, IInv, JobInv, JobOK
    <3>2. Promise!Credit(i)
      BY <1>5, <2>1, <2>2, <3>1 DEF RecordCredit, Promise!Credit, receipts
    <3>3. QED
      BY <3>1, <3>2 DEF Promise!Next
  <2>3. QED
    BY <1>5, <2>1, <2>2 DEF RecordCredit
<1>6. ASSUME NEW a \in Attempts, NEW s \in IntentStates, StripeProcesses(a, s)
      PROVE  Promise!Next \/ UNCHANGED <<invoice, receipts, credits>>
  <2>1. attempts[a].status # "absent" /\ attempts[a].invoice \in Invoices
    BY <1>6 DEF StripeProcesses, IInv, RowInv
  <2>2. CASE stripe[a] = "none" /\ s = "captured"
    BY <1>6, <2>1, <2>2, CaptureCollects DEF StripeProcesses, Captured, Promise!Next
  <2>3. CASE ~(stripe[a] = "none" /\ s = "captured")
    <3>1. \A b \in Attempts : Captured(b)' = Captured(b)
      BY <1>6, <2>3 DEF StripeProcesses, Captured, IInv, TypeOK
    <3>2. QED
      BY <1>6, <3>1 DEF StripeProcesses, receipts, CollectedFor, database
  <2>4. QED
    BY <2>2, <2>3
<1>7. ASSUME NEW a \in Attempts, NEW s \in IntentStates, StripeSettles(a, s)
      PROVE  Promise!Next \/ UNCHANGED <<invoice, receipts, credits>>
  <2>1. attempts[a].status # "absent" /\ attempts[a].invoice \in Invoices
    BY <1>7 DEF StripeSettles, IInv, RowInv
  <2>2. CASE s = "settled"
    BY <1>7, <2>1, <2>2, CaptureCollects DEF StripeSettles, Captured, Promise!Next
  <2>3. CASE s = "canceled"
    <3>1. \A b \in Attempts : Captured(b)' = Captured(b)
      BY <1>7, <2>3 DEF StripeSettles, Captured, IInv, TypeOK
    <3>2. QED
      BY <1>7, <3>1 DEF StripeSettles, receipts, CollectedFor, database
  <2>4. QED
    BY <1>7, <2>2, <2>3 DEF StripeSettles
<1>8. CASE UNCHANGED <<database, stripe>>
  BY <1>8, SameReceipts DEF database
<1>9. QED
  BY <1>1, <1>2, <1>3, <1>4, <1>5, <1>6, <1>7, <1>8
     DEF Next, vars, JobStep, Charge, BeginPayment, BeginZeroPayment,
         SendCharge, ChargeSucceeds, ChargeRetries, ChargeFails, ContextExpires,
         HandleAsyncResult, SyncAttempt, GetPendingAttempts, Crash, RequestLost,
         database, external

(***************************************************************************)
(* Collection, with its processes, retries, crashes, webhooks and          *)
(* reconciler, keeps the promise of InvoiceSettlement.                     *)
(***************************************************************************)
THEOREM Refinement == Spec => Settlement
<1>1. Init => Promise!Init
  BY DEF Init, Promise!Init, CollectedFor, Captured
<1>2. IInv /\ [Next]_vars => [Promise!Next]_(Promise!vars)
  BY StepRefines
<1>3. QED
  BY <1>1, <1>2, Invariance, PTL DEF Spec, Settlement, Promise!Spec
=============================================================================
