------------------------------ MODULE Payment ------------------------------
(***************************************************************************)
(* Collection of finalized invoices by the billing service:                *)
(*   - PaymentService.PayInvoice / PayInvoiceExecution, the retry loop and *)
(*     FinalizeSuccessfulPayment (payment/Payment_Service.go),             *)
(*   - PaymentService.HandleAsyncResult, fed by Stripe's webhooks,         *)
(*   - the Reconciler of attempts stuck in PENDING,                        *)
(*   - the Postgres rows they share: invoices, payment_attempts and the    *)
(*     payment rows of billing_ledger.                                     *)
(*                                                                         *)
(* A worker is a goroutine of a service process.  It holds one job: a      *)
(* PayInvoice call, a webhook delivery or a reconciliation.  Every         *)
(* database statement is one atomic step and may fail, or may take effect  *)
(* although the caller sees an error ("lost").  Requests to Stripe travel  *)
(* on "wire", may be delayed or lost, and their answers may be lost too.   *)
(* A process may crash between any two steps.                              *)
(***************************************************************************)
EXTENDS Integers

CONSTANTS Procs,        \* service processes
          Workers,      \* goroutines, each living in the process Home[w]
          Home,
          Invoices,
          Attempts,     \* payment attempt ids; also the Stripe idempotency keys
          TotalCents,   \* amount of each invoice
          MaxRetries,   \* maxRetries of executeWithRetry (3 in the code)
          MaxCrashes,   \* bound: crashes in a behaviour
          None

ASSUME HomeAssumption == Home \in [Workers -> Procs]
ASSUME TotalCentsAssumption == TotalCents \in [Invoices -> Nat]
ASSUME BoundAssumption == MaxRetries \in Nat /\ MaxCrashes \in Nat
ASSUME NoneAssumption == None \notin Attempts /\ None \notin Invoices

VARIABLES
  invoice,    \* invoices.status
  paidBy,     \* invoices.payment_intent_id
  attempts,   \* rows of payment_attempts
  credits,    \* how many payment rows billing_ledger has for each invoice
  stripe,     \* Stripe's PaymentIntent for each idempotency key
  wire,       \* charge requests on their way to Stripe
  events,     \* webhook events Stripe has not been acknowledged for
  pc,         \* the step each goroutine is about to take
  task,       \* the variables of its job
  live,       \* whether the context of its call has not expired
  tries,      \* retries it made so far
  batch,      \* attempts fetched by a process' reconciler, not yet synced
  crashes

vars == <<invoice, paidBy, attempts, credits, stripe, wire, events, pc, task,
          live, tries, batch, crashes>>

external == <<stripe, wire, events>>
database == <<invoice, paidBy, attempts, credits>>
local == <<pc, task, live, tries>>

-----------------------------------------------------------------------------
(* The data.  A PaymentIntent is named by the idempotency key it was       *)
(* created with, since Stripe makes at most one intent per key.            *)

Statuses == {"PENDING", "SUCCEEDED", "FAILED"}

\* error_code: who closed the attempt; what a webhook reports is left out.
ErrorCodes == {"payment_failed", "system_crash_pre_flight"}

AttemptRows ==
  [status : Statuses \cup {"absent"}, invoice : Invoices \cup {None},
   provider : Attempts \cup {None}, code : ErrorCodes \cup {None}]

NoRow == [status |-> "absent", invoice |-> None, provider |-> None, code |-> None]

\* "processing" stands for every answer that is not "succeeded": Stripe saves
\* it under the key, and may still capture ("settled") or cancel later.
IntentStates ==
  {"none", "captured", "declined", "processing", "settled", "canceled"}

Captured(a) == stripe[a] \in {"captured", "settled"}

\* The webhook ignores the cancellation of an intent.
EventsOf(a, state) ==
  [intent : {a},
   status : (IF state \in {"captured", "settled"} THEN {"SUCCEEDED"} ELSE {})
              \cup (IF state = "declined" THEN {"FAILED"} ELSE {})]

Steps == {"idle", "create", "charge", "calling", "update", "markPaid", "credit"}

\* status and tx are what the next UpdateAttemptStatus writes (tx None for "").
Task(kind, i, a, s, tx) ==
  [kind |-> kind, invoice |-> i, attempt |-> a, status |-> s, tx |-> tx]

Tasks ==
  [kind : {"pay", "hook", "recon"}, invoice : Invoices \cup {None},
   attempt : Attempts \cup {None}, status : Statuses, tx : Attempts \cup {None}]

NoTask == Task("pay", None, None, "PENDING", None)

Snapshots == [attempt : Attempts, provider : Attempts \cup {None}]

Init ==
  /\ invoice \in [Invoices -> {"DRAFT", "FINALIZED"}]
  /\ paidBy = [i \in Invoices |-> None]
  /\ attempts = [a \in Attempts |-> NoRow]
  /\ credits = [i \in Invoices |-> 0]
  /\ stripe = [a \in Attempts |-> "none"]
  /\ wire = {}
  /\ events = {}
  /\ pc = [w \in Workers |-> "idle"]
  /\ task = [w \in Workers |-> NoTask]
  /\ live = [w \in Workers |-> TRUE]
  /\ tries = [w \in Workers |-> 0]
  /\ batch = [p \in Procs |-> {}]
  /\ crashes = 0

Busy(w) == pc[w] # "idle"

Goto(w, step) == /\ pc' = [pc EXCEPT ![w] = step]
                 /\ UNCHANGED <<task, live, tries>>

Start(w, step, t) == /\ pc' = [pc EXCEPT ![w] = step]
                     /\ task' = [task EXCEPT ![w] = t]
                     /\ UNCHANGED <<live, tries>>

Finish(w) == /\ pc' = [pc EXCEPT ![w] = "idle"]
             /\ task' = [task EXCEPT ![w] = NoTask]
             /\ live' = [live EXCEPT ![w] = TRUE]
             /\ tries' = [tries EXCEPT ![w] = 0]

\* How a statement may end: an expired context never reaches the database.
Outcomes == {"ok", "error", "lost"}
CanEnd(w, o) == live[w] \/ o = "error"
Applied(o) == o \in {"ok", "lost"}

-----------------------------------------------------------------------------
(* PayInvoice.                                                             *)

\* The singleflight group of a process runs one call per invoice; callers that
\* join it only share its result.
InFlight(p, i) ==
  \E w \in Workers : /\ Home[w] = p /\ Busy(w)
                     /\ task[w].kind = "pay" /\ task[w].invoice = i

Unused(a) == /\ attempts[a].status = "absent"
             /\ \A w \in Workers : task[w].attempt # a

\* FinalizeInvoice: the compare-and-set DRAFT -> FINALIZED.
FinalizeInvoice(i) ==
  /\ invoice[i] = "DRAFT"
  /\ invoice' = [invoice EXCEPT ![i] = "FINALIZED"]
  /\ UNCHANGED <<paidBy, attempts, credits, external, local, batch, crashes>>

\* PayInvoiceExecution up to the first write: the invoice is read once; a call
\* that finds it PAID, not FINALIZED, or cannot read it or its account returns.
BeginPayment(w, i, a) ==
  /\ ~Busy(w)
  /\ ~InFlight(Home[w], i)
  /\ invoice[i] = "FINALIZED"
  /\ TotalCents[i] > 0
  /\ Unused(a)
  /\ Start(w, "create", Task("pay", i, a, "PENDING", None))
  /\ UNCHANGED <<database, external, batch, crashes>>

\* An invoice with nothing to pay goes straight to FinalizeSuccessfulPayment
\* (tx None stands for "system-zero-amount").
BeginZeroPayment(w, i) ==
  /\ ~Busy(w)
  /\ ~InFlight(Home[w], i)
  /\ invoice[i] = "FINALIZED"
  /\ TotalCents[i] = 0
  /\ Start(w, "markPaid", Task("pay", i, None, "PENDING", None))
  /\ UNCHANGED <<database, external, batch, crashes>>

\* Mutant: an insert that failed does not stop the call.
InsertedAlways(o) == TRUE

Inserted(o) == o = "ok"

\* The insert names no provider_payment_id.
InsertedRow(i, a) ==
  [status |-> "PENDING", invoice |-> i, provider |-> None, code |-> None]

\* The intent is persisted before the network call; an error ends the call.
CreatePaymentAttempt(w, o) ==
  /\ pc[w] = "create"
  /\ CanEnd(w, o)
  /\ attempts' = IF Applied(o)
                   THEN [attempts EXCEPT ![task[w].attempt] =
                           InsertedRow(task[w].invoice, task[w].attempt)]
                   ELSE attempts
  /\ IF Inserted(o) THEN Goto(w, "charge") ELSE Finish(w)
  /\ UNCHANGED <<invoice, paidBy, credits, external, batch, crashes>>

\* One pass of executeWithRetry: the request leaves for Stripe.
SendCharge(w) ==
  /\ pc[w] = "charge"
  /\ live[w]
  /\ wire' = wire \cup {task[w].attempt}
  /\ Goto(w, "calling")
  /\ UNCHANGED <<database, stripe, events, batch, crashes>>

\* Mutant: an answer without an error is taken for a payment.
AnswersSucceededUnchecked(a) == stripe[a] \in {"captured", "processing"}

\* The saved answer to the key is an intent whose status is "succeeded".
AnswersSucceeded(a) == stripe[a] = "captured"

\* Stripe answers "succeeded", and the answer arrives.
ChargeSucceeds(w) ==
  /\ pc[w] = "calling"
  /\ live[w]
  /\ task[w].attempt \notin wire
  /\ AnswersSucceeded(task[w].attempt)
  /\ Start(w, "update", Task("pay", task[w].invoice, task[w].attempt, "SUCCEEDED",
                            task[w].attempt))
  /\ UNCHANGED <<database, external, batch, crashes>>

RetryLeft(w) == tries[w] < MaxRetries

\* The errors of stripe-go, by what the code tells apart: what Stripe says of the
\* card, once it decided; how it refuses; how the network fails.
Refusals == {"card_declined", "expired_card", "balance_insufficient"}

StripeErrors(a) ==
  {"key_in_use", "rate_limit", "lock_timeout", "invalid_request", "server_error",
   "timeout", "connection_reset", "no_such_host"}
    \cup (IF a \notin wire /\ stripe[a] = "declined" THEN Refusals ELSE {})

\* Only the default keeps the error it wraps.
MapStripeError(e) ==
  CASE e \in Refusals -> "ErrPaymentFailed"
    [] e = "key_in_use" -> "key collision"
    [] e = "server_error" -> "ErrProviderDown"
    [] OTHER -> e

\* What ChargeAttempt returns for a request; an intent that is not final is a
\* failure without an error of Stripe's.
Failures(a) ==
  {MapStripeError(e) : e \in StripeErrors(a)}
    \cup (IF stripe[a] = "processing" THEN {"ErrPaymentFailed"} ELSE {})

\* A server error would be retried, but never gets here under its own name.
IsRetryAbleError(e) ==
  e \in {"server_error", "rate_limit", "lock_timeout", "timeout", "connection_reset"}

\* The same key is sent again, also when it was the context that expired.
ChargeRetries(w) ==
  /\ pc[w] = "calling"
  /\ \E e \in Failures(task[w].attempt) : IsRetryAbleError(e)
  /\ RetryLeft(w)
  /\ pc' = [pc EXCEPT ![w] = "charge"]
  /\ tries' = [tries EXCEPT ![w] = @ + 1]
  /\ UNCHANGED <<task, live>>
  /\ UNCHANGED <<database, external, batch, crashes>>

\* Mutant: a call that was sent waits for its answer.
MayGiveUpBeforeSending(w) == pc[w] = "charge"

MayGiveUp(w) ==
  \/ pc[w] = "charge"
  \/ /\ pc[w] = "calling"
     /\ \E e \in Failures(task[w].attempt) : IsRetryAbleError(e) => ~RetryLeft(w)

\* Any other end of the loop: a refusal before the call (open circuit, no
\* payment method, expired context), an error that is not retried, or no retry left.
\* What Stripe did with the requests already sent is not known here.
ChargeFails(w) ==
  /\ MayGiveUp(w)
  /\ Start(w, "update", Task("pay", task[w].invoice, task[w].attempt, "FAILED", None))
  /\ UNCHANGED <<database, external, batch, crashes>>

\* The 30 second context of PayInvoiceExecution runs out.
ContextExpires(w) ==
  /\ Busy(w)
  /\ task[w].kind = "pay"
  /\ live[w]
  /\ live' = [live EXCEPT ![w] = FALSE]
  /\ UNCHANGED <<pc, task, tries, database, external, batch, crashes>>

-----------------------------------------------------------------------------
(* Steps that all three kinds of job share.                                *)

\* The error_code a job writes: a call that gave up has one, and so has what the
\* reconciler closes without a provider id.
ErrorCode(t) ==
  CASE t.status = "FAILED" /\ t.kind = "pay" -> "payment_failed"
    [] t.status = "FAILED" /\ t.kind = "recon" /\ t.tx = None -> "system_crash_pre_flight"
    [] OTHER -> None

\* UpdateAttemptStatus writes only over PENDING, and a call that matches no
\* row is a success.  PayInvoice goes on to the invoice whatever happened;
\* the webhook and the reconciler stop at an error.
UpdateAttemptStatus(w, o) ==
  LET t == task[w]
      row == attempts[t.attempt] IN
  /\ pc[w] = "update"
  /\ CanEnd(w, o)
  /\ attempts' = IF Applied(o) /\ row.status = "PENDING"
                   THEN [attempts EXCEPT ![t.attempt] =
                           [status |-> t.status, invoice |-> row.invoice,
                            provider |-> IF t.tx = None THEN row.provider ELSE t.tx,
                            code |-> ErrorCode(t)]]
                   ELSE attempts
  /\ IF t.status = "SUCCEEDED" /\ (t.kind = "pay" \/ o = "ok")
       THEN Goto(w, "markPaid")
       ELSE Finish(w)
  /\ UNCHANGED <<invoice, paidBy, credits, external, batch, crashes>>

\* Mutant: an error of the update does not stop FinalizeSuccessfulPayment.
MarkedAlways(o, i) == TRUE

\* ... WHERE invoice_id = i AND status = 'FINALIZED'
Payable(i) == invoice[i] = "FINALIZED"

Marked(o, i) == o = "ok" /\ Payable(i)

\* MarkInvoicePaid: the compare-and-set FINALIZED -> PAID.  No row is an error,
\* and an error ends FinalizeSuccessfulPayment before the ledger is written.
MarkInvoicePaid(w, o) ==
  LET i == task[w].invoice
      paid == Applied(o) /\ Payable(i) IN
  /\ pc[w] = "markPaid"
  /\ CanEnd(w, o)
  /\ invoice' = IF paid THEN [invoice EXCEPT ![i] = "PAID"] ELSE invoice
  /\ paidBy' = IF paid THEN [paidBy EXCEPT ![i] = task[w].tx] ELSE paidBy
  /\ IF Marked(o, i) THEN Goto(w, "credit") ELSE Finish(w)
  /\ UNCHANGED <<attempts, credits, external, batch, crashes>>

\* RecordCreditTransaction: insert, ON CONFLICT (tenant, invoice) DO NOTHING.
\* Its error is logged and dropped.
RecordCredit(w, o) ==
  LET i == task[w].invoice IN
  /\ pc[w] = "credit"
  /\ CanEnd(w, o)
  /\ credits' = IF Applied(o) /\ credits[i] = 0 THEN [credits EXCEPT ![i] = 1]
                                                ELSE credits
  /\ Finish(w)
  /\ UNCHANGED <<invoice, paidBy, attempts, external, batch, crashes>>

-----------------------------------------------------------------------------
(* Webhooks.                                                               *)

\* HandleAsyncResult looks the attempt up by provider id.  Without a row it
\* returns an error, and Stripe keeps the event: no step.  A row that already
\* has the event's status, or SUCCEEDED, acknowledges the event.  Any other is
\* to be updated first; Stripe repeats the event until that is seen.
HandleAsyncResult(w, e, a) ==
  LET row == attempts[a]
      settled == row.status \in {e.status, "SUCCEEDED"} IN
  /\ ~Busy(w)
  /\ e \in events
  /\ row.provider = e.intent
  /\ events' = IF settled THEN events \ {e} ELSE events
  /\ IF settled
       THEN UNCHANGED local
       ELSE Start(w, "update", Task("hook", row.invoice, a, e.status, e.intent))
  /\ UNCHANGED <<database, stripe, wire, batch, crashes>>

-----------------------------------------------------------------------------
(* The reconciler.                                                         *)

\* Mutants: the cutoff on the age is forgotten; only rows with a provider id.
StuckAtAnyAge(a) == attempts[a].status = "PENDING"
StuckWithProvider(a) == attempts[a].status = "PENDING" /\ attempts[a].provider # None

\* PENDING for more than five minutes: by then the 30 second context of the
\* call that created the row has expired.
Stuck(a) == /\ attempts[a].status = "PENDING"
            /\ \A w \in Workers : ~(/\ task[w].attempt = a /\ task[w].kind = "pay"
                                    /\ live[w])

\* processBatch reads the stuck rows; the next tick waits for the last worker.
GetPendingAttempts(p) ==
  LET stuck == {a \in Attempts : Stuck(a)} IN
  /\ batch[p] = {}
  /\ \A w \in Workers : Home[w] = p => ~(Busy(w) /\ task[w].kind = "recon")
  /\ stuck # {}
  /\ batch' = [batch EXCEPT ![p] =
                 {[attempt |-> a, provider |-> attempts[a].provider] : a \in stuck}]
  /\ UNCHANGED <<database, external, local, crashes>>

\* What Stripe says of an intent when it is asked.
GetPaymentStatus(a) ==
  CASE Captured(a) -> "SUCCEEDED"
    [] stripe[a] \in {"declined", "canceled"} -> "FAILED"
    [] OTHER -> "PENDING"

\* What syncAttempt may conclude from a snapshot: FAILED, without asking, when
\* the row has no provider id; else what Stripe says of the intent, where
\* PENDING (not final, or Stripe did not answer) means that nothing is written.
Verdicts(r) ==
  IF r.provider = None
    THEN {"FAILED"}
    ELSE {"PENDING", GetPaymentStatus(r.provider)}

SyncAttempt(w, r, s) ==
  /\ ~Busy(w)
  /\ r \in batch[Home[w]]
  /\ s \in Verdicts(r)
  /\ batch' = [batch EXCEPT ![Home[w]] = @ \ {r}]
  /\ IF s = "PENDING"
       THEN UNCHANGED local
       ELSE Start(w, "update", Task("recon", attempts[r.attempt].invoice, r.attempt,
                                    s, r.provider))
  /\ UNCHANGED <<database, external, crashes>>

-----------------------------------------------------------------------------
(* Stripe and the environment.                                             *)

\* The first request of a key decides; a repeated key gets the saved answer.
StripeProcesses(a, s) ==
  /\ a \in wire
  /\ s \in {"captured", "declined", "processing"}
  /\ wire' = wire \ {a}
  /\ stripe' = IF stripe[a] = "none" THEN [stripe EXCEPT ![a] = s] ELSE stripe
  /\ events' = IF stripe[a] = "none" THEN events \cup EventsOf(a, s) ELSE events
  /\ UNCHANGED <<database, local, batch, crashes>>

\* An intent that was not final is captured or canceled later.
StripeSettles(a, s) ==
  /\ stripe[a] = "processing"
  /\ s \in {"settled", "canceled"}
  /\ stripe' = [stripe EXCEPT ![a] = s]
  /\ events' = events \cup EventsOf(a, s)
  /\ UNCHANGED <<database, wire, local, batch, crashes>>

RequestLost(a) ==
  /\ a \in wire
  /\ wire' = wire \ {a}
  /\ UNCHANGED <<database, stripe, events, local, batch, crashes>>

\* A process dies: what its goroutines held in memory is gone.
Crash(p) ==
  /\ crashes < MaxCrashes
  /\ crashes' = crashes + 1
  /\ pc' = [w \in Workers |-> IF Home[w] = p THEN "idle" ELSE pc[w]]
  /\ task' = [w \in Workers |-> IF Home[w] = p THEN NoTask ELSE task[w]]
  /\ live' = [w \in Workers |-> IF Home[w] = p THEN TRUE ELSE live[w]]
  /\ tries' = [w \in Workers |-> IF Home[w] = p THEN 0 ELSE tries[w]]
  /\ batch' = [batch EXCEPT ![p] = {}]
  /\ UNCHANGED <<database, external>>

-----------------------------------------------------------------------------
Charge(w) == SendCharge(w) \/ ChargeSucceeds(w) \/ ChargeRetries(w) \/ ChargeFails(w)

JobStep(w) ==
  \/ Charge(w)
  \/ \E o \in Outcomes : \/ CreatePaymentAttempt(w, o)
                         \/ UpdateAttemptStatus(w, o)
                         \/ MarkInvoicePaid(w, o)
                         \/ RecordCredit(w, o)

Next ==
  \/ \E w \in Workers :
       \/ JobStep(w)
       \/ ContextExpires(w)
       \/ \E i \in Invoices : BeginZeroPayment(w, i)
       \/ \E i \in Invoices, a \in Attempts : BeginPayment(w, i, a)
       \/ \E e \in events, a \in Attempts : HandleAsyncResult(w, e, a)
       \/ \E r \in batch[Home[w]], s \in Statuses : SyncAttempt(w, r, s)
  \/ \E i \in Invoices : FinalizeInvoice(i)
  \/ \E p \in Procs : GetPendingAttempts(p) \/ Crash(p)
  \/ \E a \in Attempts :
       \/ RequestLost(a)
       \/ \E s \in IntentStates : StripeProcesses(a, s) \/ StripeSettles(a, s)

Spec == Init /\ [][Next]_vars

(***************************************************************************)
(* Fairness.  A goroutine that can run runs, and every call it makes ends, *)
(* if only because its context expires.  The reconciler's ticker never     *)
(* stops, its jobs are taken up by some goroutine again and again free,    *)
(* and the database does not refuse the same statement forever.  Nothing   *)
(* is asked of Stripe, of the network or of those who call PayInvoice.     *)
(***************************************************************************)
Fairness ==
  /\ \A w \in Workers : /\ WF_vars(JobStep(w))
                        /\ SF_vars(UpdateAttemptStatus(w, "ok"))
                        /\ SF_vars(\E r \in batch[Home[w]], s \in Statuses :
                                     SyncAttempt(w, r, s))
  /\ \A p \in Procs : WF_vars(GetPendingAttempts(p))

FairSpec == Spec /\ Fairness

-----------------------------------------------------------------------------
(* Properties.                                                             *)

(***************************************************************************)
(* The variables hold what the code's types and columns allow; the retry   *)
(* counter stays within maxRetries.                                        *)
(***************************************************************************)
TypeOK ==
  /\ invoice \in [Invoices -> {"DRAFT", "FINALIZED", "PAID"}]
  /\ paidBy \in [Invoices -> Attempts \cup {None}]
  /\ attempts \in [Attempts -> AttemptRows]
  /\ credits \in [Invoices -> {0, 1}]
  /\ stripe \in [Attempts -> IntentStates]
  /\ wire \subseteq Attempts
  /\ events \subseteq [intent : Attempts, status : {"SUCCEEDED", "FAILED"}]
  /\ pc \in [Workers -> Steps]
  /\ task \in [Workers -> Tasks]
  /\ live \in [Workers -> BOOLEAN]
  /\ tries \in [Workers -> 0..MaxRetries]
  /\ batch \in [Procs -> SUBSET Snapshots]
  /\ crashes \in 0..MaxCrashes

(***************************************************************************)
(* The database never claims money that Stripe does not hold: an attempt   *)
(* is SUCCEEDED only when its own intent was captured, and an invoice with *)
(* something to pay is PAID only by a captured attempt made for it.        *)
(***************************************************************************)
MoneyBehindRecords ==
  /\ \A a \in Attempts : attempts[a].status = "SUCCEEDED" =>
       Captured(a) /\ attempts[a].provider = a
  /\ \A i \in Invoices : invoice[i] = "PAID" /\ TotalCents[i] > 0 =>
       /\ paidBy[i] \in Attempts
       /\ Captured(paidBy[i])
       /\ attempts[paidBy[i]].invoice = i

(***************************************************************************)
(* Nothing is sent to Stripe under a key that the database does not know:  *)
(* whatever is lost later, every charge can be traced to a row.            *)
(***************************************************************************)
IntentBeforeNetwork ==
  \A a \in Attempts :
    a \in wire \/ stripe[a] # "none" => attempts[a].status # "absent"

(***************************************************************************)
(* While a PayInvoice call may still write, nobody else decides its        *)
(* attempt: the reconciler never takes the row from under a running call.  *)
(***************************************************************************)
LiveCallKeepsItsRow ==
  \A w \in Workers :
    /\ task[w].kind = "pay" /\ live[w]
    /\ pc[w] \in {"charge", "calling", "update"}
    => attempts[task[w].attempt].status = "PENDING"

(***************************************************************************)
(* A PAID invoice stays PAID, by the transaction that paid it first, even  *)
(* when two calls charged the customer for it.                             *)
(***************************************************************************)
PaidOnce ==
  [][\A i \in Invoices : invoice[i] = "PAID" =>
       invoice'[i] = "PAID" /\ paidBy'[i] = paidBy[i]]_vars

(***************************************************************************)
(* The service keeps the promise of InvoiceSettlement, with the captured   *)
(* intents of an invoice's attempts as its receipts.                       *)
(***************************************************************************)
CollectedFor(i) == {a \in Attempts : Captured(a) /\ attempts[a].invoice = i}

Promise == INSTANCE InvoiceSettlement WITH
             Receipts <- Attempts, status <- invoice, credited <- credits,
             collected <- [i \in Invoices |-> CollectedFor(i)]

Settlement == Promise!Spec

(***************************************************************************)
(* Every job ends: a call returns even when Stripe never answers.          *)
(***************************************************************************)
EveryJobEnds == \A w \in Workers : Busy(w) ~> ~Busy(w)

(***************************************************************************)
(* No attempt stays PENDING: what its call leaves undecided, by a crash,   *)
(* an expired context or a failed write, the reconciler decides.           *)
(***************************************************************************)
EveryAttemptDecided ==
  \A a \in Attempts :
    attempts[a].status = "PENDING" ~> attempts[a].status \in {"SUCCEEDED", "FAILED"}

-----------------------------------------------------------------------------
(* What the code's comments say and the code does not do (see README).     *)

(***************************************************************************)
(* reconciliation.payment.go:27: the reconciler "asks Stripe what REALLY   *)
(* happened", and 129: what it marks FAILED is "Safe to retry".  An        *)
(* invoice is not charged again when the attempt that the reconciler       *)
(* closed for a crash before the charge is one that Stripe captured.       *)
(***************************************************************************)
ChargedAtMostOnce ==
  \A i \in Invoices : \A a, b \in CollectedFor(i) :
    attempts[a].code = "system_crash_pre_flight" => a = b
=============================================================================
