# LogiSynapse in TLA+

A formal model of the LogiSynapse platform: specifications of its services, small instances
that TLC checks, and theorems that TLAPS proves for every instance. The code is the
reference; every definition that models code is listed in `PROJECT.json` ("map") with the
lines it stands for. Paths below are relative to `src/services/` unless they begin with `src/`.

## 1. The system

| Component | State | Operations | Talks to |
|---|---|---|---|
| **Payment collection** `billing-service/internal/payment` | `invoices.status`, `payment_attempts`, payment rows of `billing_ledger`; the singleflight group and the circuit breaker of each process | `PayInvoice`, `executeWithRetry`, `FinalizeSuccessfulPayment`, `HandleAsyncResult`, the gateway's `Charge` | Postgres, Stripe (requests, webhooks) |
| **Payment reconciler** `billing-service/internal/worker` | the batch of stuck attempts it fetched | `processBatch`, `syncAttempt` | Postgres, Stripe, payment collection (`HandleAsyncResult`'s writes) |
| **Usage aggregator** `billing-service/internal/usage` | `eventChan`, the map of buckets, `flush_history`, `usage_aggregates` | `Ingest`, `Worker`, `Process`, `Flush`, `Flusher`, `Stop` | Postgres |
| **Billing calculator, ledger, pricing** `billing-service/internal/{billing,pricing}`, `store/postgres` | `billing_ledger`, `pricing_rules` | `BillPeriod`, `CreateLedgerEntry`, `GetPriceRules`, `CalculateCost` | reads usage, writes the ledger |
| **Invoice generation and finalization** `billing-service/internal/invoice` | `invoices`, `invoice_lines` | `GenerateInvoiceForTenant`, `FinalizeInvoice` | reads the ledger; finalized invoices are what payment collects |
| **Tenant membership and ownership** `authentication-service/internal/app/commands` | `memberships`, `tenants.owner_user_id`, `audit_logs` | invite, accept, revoke, transfer ownership; `ValidateAccessToken` reads them for every request of a tenant | Postgres, one command in a transaction |
| **Tenant requests** (same package) | `tenant_creation_requests`, `tenants`, `audit_logs` | request, approve, reject, create by the platform | Postgres |
| **Accounts, sessions and tokens** `transport/authapi`, `domain/session`, `ports/crypto` | `users`, `refresh_tokens` and their families | `RegisterUser`, `LoginUser`, `RefreshSession`, `LogoutUser` | every other service, through its access tokens |
| **Shipment service and outbox** `shipment-service` | `shipments`, `shipment_outbox` | `CreateShipment`, `Updateshipment`, `DeleteShipment`, `GetShipments` | starts Temporal workflows |
| **Shipment workflow** `workflow-orchestrator` | Temporal's history; the circuit breaker in front of Shippo | `CallShippoAPI`, `SaveShipmentToDB`, `PublishKafkaEvent` | Shippo, the shipment store, Kafka |
| **Communications** `communications-service`, `src/shared/{kafka,rabbitmq}` | consumer offsets, two job queues and their dead-letter queues | `bridgeHandler`, `processWithRetryOrDLQ`, shutdown | Kafka, RabbitMQ, e-mail and SMS |
| **GraphQL gateway** `graphql-gateway` | none of its own but the requests under way | queries and mutations over shipments, status conversion, marshalling | authentication and shipment service, gRPC |
| **Configuration, access tokens, generated messages** | none | | |

Data flows one way through billing: events are *ingested* and aggregated per month
(`usage_aggregates`), *billed* into the ledger, *invoiced* (DRAFT), *finalized* (FINALIZED) and
*paid* (PAID). Each arrow is a separate job, with its own idempotency key, run by any number
of processes on one database.

### What is hard

* **Payment.** The money moves outside the database. A charge's request or answer can be
  lost or late, the 30 second deadline can pass between any two statements, a process can
  die, two processes can pay one invoice, webhooks arrive in any order and the reconciler
  works on rows that calls are still using. Correct means: records never claim money that
  is not there, every charge can be traced to a row, an invoice is settled once, and nothing
  stays undecided.
* **Aggregation.** Workers, the ticker's flush and the flush of `Stop` swap, store, retry and
  merge back the same map; a transaction may commit and still report an error. Correct
  means: no accepted usage lost, none counted twice, and an orderly `Stop`.
* **Invoicing.** Drafts are deleted and regenerated by unconditional statements, while
  finalization and payment are compare-and-set. Correct means: what left DRAFT stays as it is
  while it exists, no row is charged twice, and a total is that of the ledger.
* **Tenancy and sessions.** Checks and writes in separate statements at READ COMMITTED, row
  locks that other connections wait for, contexts that die between two statements. Correct
  means: nobody gets through without an authority the tenant gave at some moment of the call,
  former owners keep their access, each request is decided once, rotation leaves one usable
  token, and what is revoked stays dead.
* **Shipments.** Retried activities around a carrier call without a key, an outbox that only
  the run itself empties, a producer that asks for no acknowledgement, edits that write back what
  they read. Correct means: what is announced is stored, what completed was handed to the producer,
  a cancellation stays.
* **Communications.** At-least-once delivery on both sides, offsets committed past failed
  messages, publishings without confirms, a shutdown with three goroutines in select loops.
  Correct means: no job vanishes but by a cut nobody noticed, and a stop ends.
* **Gateway.** Concurrent fields of a query, mutations in order, nulls that spread, failures
  before and after the effect, paging over rows that change. Correct means: a response shows
  what is there, and a page-wise reader misses nothing that stays in the listing.

`PROJECT.json` lists every hazard we know of at the line where it bites, with the property
that covers it or the reason why none does yet.

## 2. The modules

| Module | Models | Role |
|---|---|---|
| `InvoiceSettlement` | what collection promises | abstract specification |
| `Payment` | payment collection and reconciler, with Stripe, webhooks and crashes | detailed specification, implements `InvoiceSettlement` |
| `MCPayment` | instances of `Payment` | TLC |
| `PaymentProofs` | theorems about `Payment` | TLAPS |
| `UsageAggregator` | usage aggregation and `PostgresUsageStore.Flush` | detailed specification |
| `MCUsageAggregator` | instances of `UsageAggregator` | TLC |
| `UsageProofs` | theorems about `UsageAggregator` | TLAPS |
| `Invoicing` | calculator, ledger, prices, invoice generation and finalization | detailed specification |
| `MCInvoicing` | instances of `Invoicing` | TLC |
| `InvoicingProofs` | theorems about `Invoicing` and `Pricing`, and the sums both speak of | TLAPS |
| `Pricing` | the pricing engine's tiers, a loop over them | checked against a unit-by-unit reference |
| `ServiceCalls` | what the commands of the authentication service share: calls, what they remember, the log | extended by `Tenancy` and `TenantRequests` |
| `Tenancy` | membership, ownership, authorization in one tenant | detailed specification |
| `RequestDecision` | what the request workflow promises | abstract specification |
| `TenantRequests` | requests for tenants, their decision, creation by the platform | detailed specification, implements `RequestDecision` |
| `Sessions` | accounts, logins, refresh tokens | detailed specification |
| `Shipments` | creation workflow, circuit breaker, outbox, edits | detailed specification |
| `Communications` | the bridge from Kafka to RabbitMQ, its workers | detailed specification |
| `Gateway` | GraphQL requests over the shipment service | detailed specification |
| `TenancyProofs` | theorems about `Tenancy` and `TenantRequests` | TLAPS |
| `SessionsProofs`, `ShipmentsProofs`, `CommunicationsProofs`, `GatewayProofs` | theorems about the module each is named after | TLAPS |
| `MCPricing`, `MCTenancy`, `MCTenantRequests`, `MCSessions`, `MCShipments`, `MCCommunications`, `MCGateway` | instances of these | TLC |

The modules meet where the code meets: in the database. `UsageAggregator` fills `usage_aggregates`,
which `Invoicing` takes as given (`AddUsage`); `Invoicing` ends with FINALIZED invoices, which
`Payment` takes as given (`FinalizeInvoice`); and what a payment writes back appears in `Invoicing`
as `MarkInvoicePaid` and `RecordCredit`. `Shipments` ends at the Kafka topic, where `Communications`
begins with whatever events the topic holds: its theorems are about any topic, its run about shipments
alone, beside an event of another kind, and beside one that cannot be read. `Gateway` has the shipments
rows as its back end, created and edited as `Shipments` allows. What `Tenancy` decides in
`ValidateAccessToken`, the gateway's middleware asks for before a POST gets in; it lets every GET pass
without asking (`graphql-gateway/cmd/main.go:71`).

### Payment

A *worker* is a goroutine. It is `idle` or holds one job, `task[w]`: a PayInvoice call
(`pay`), a webhook delivery (`hook`) or a reconciliation (`recon`), and `pc[w]` is the
statement it is about to execute. `live[w]` says whether the context of its call has not
expired, `Home[w]` which process it belongs to.

| Code | Model |
|---|---|
| `PayInvoice` + singleflight, the checks of `PayInvoiceExecution` (`Payment_Service.go`) | `InFlight`, `BeginPayment`, `BeginZeroPayment` |
| insert of the PENDING attempt | `CreatePaymentAttempt` |
| `executeWithRetry`, `Charge` | `SendCharge`, `ChargeSucceeds`, `ChargeRetries`, `ChargeFails` |
| `UpdateAttemptStatus` (`WHERE status = 'PENDING'`) | `UpdateAttemptStatus` |
| `MarkInvoicePaid` (`WHERE status = 'FINALIZED'`), `RecordCreditTransaction` | `MarkInvoicePaid`, `RecordCredit` |
| `HandleAsyncResult` | `HandleAsyncResult`, then the shared steps |
| `processBatch`, `syncAttempt` | `GetPendingAttempts`, `SyncAttempt` with `Verdicts` and `GetPaymentStatus`, then the shared steps |
| `FinalizeInvoice` (the store's compare-and-set) | `FinalizeInvoice` |
| Stripe, the network, a process dying | `StripeProcesses`, `StripeSettles`, `RequestLost`, `Crash` |

A database statement ends `ok`, in `error` (it did nothing) or `lost` (it took effect, and the
caller sees an error). A statement under an expired context can only end in `error`. Stripe
makes at most one PaymentIntent per idempotency key, which is the attempt id, so an intent is
named by the key. "processing" is every answer other than "succeeded" (3-D Secure, manual
capture, processing): Stripe saves it under the key, and may capture or cancel the intent later.

Abstractions and assumptions:

* The reconciler's five minute cutoff compares `created_at`, set by the database, with a time
  computed from the clock of the service. The model takes what that achieves when the two
  agree within the minutes between 30 seconds and 5 minutes: a row is stuck only when the
  context of the call that made it has expired.
* `GetPendingAttempts` reads 50 rows at most; the model has fewer attempts than that.
* An open circuit, a missing payment method and an account that cannot be read are one
  alternative of `ChargeFails` (or no step at all, before the attempt is written).
* What a call may fail with is `Failures`: the errors of Stripe and of the network, as
  `mapStripeError` renames them. `IsRetryAbleError` decides on the renamed error, which is why a
  server error is never retried (section 5). The kinds matter for that decision and for nothing else.
* Of the error codes that are stored the model has those of the code itself (`ErrorCode`), which say
  whether a call or the reconciler closed an attempt; what a webhook reports is left out.
* SQL statements are taken to do what they say. (`MarkInvoicePaid` sets `updated_at`, a column
  that no migration gives to `invoices`; against the migrations alone it would always fail.)
* A finalized invoice is not deleted here. That the invoice generator may delete one is in
  `Invoicing` (`DeleteInvoice`) and in section 5.

### UsageAggregator

A counter is modelled by the *set of events* it counts, so that loss and double counting can be
told for each event. `queue` is `eventChan`, `held[w]` the event a worker has received and not
yet processed, `buckets` what is counted in the map. `Flush` has two callers, the Flusher's
ticker and `Stop`; each has its `fpc`, the `batch` it swapped out, the `tries` it made and whether
its BatchID is `recorded` in `flush_history`. `added[e]` is how often `usage_aggregates` has event
`e` added to it.

| Code | Model |
|---|---|
| `Ingest` (non-blocking send) | `Ingest` |
| `Worker` (select, drain), `Process` | `Receive`, `Process`, `QuitSeen`, `DrainEnds` |
| `Flush`: swap, retry loop, merge-back | `BeginFlush`, `StoreFlush`, `MergeBack` |
| `PostgresUsageStore.Flush` (one transaction) | `StoreFlush` |
| `Flusher`, `Stop`, the owner's cancel | `FlusherQuits`, `Stop`, `CancelRoot` |

Abstractions and assumptions: one transaction stores all buckets of a batch, so tenant and type
play no part; the ids of events (`UsageEvent.ID`) are never looked at by the code, so an event
ingested twice is two events of the model; a crash of the process loses whatever is not in the
database, by the design of the code, and is not modelled; a batch is booked in the month of the
flush, whichever month its events are of.

### Invoicing

A *worker* runs one job: a `BillPeriod`, a `GenerateInvoiceForTenant` or a `FinalizeInvoice`. `pc[w]` is
the database statement it is about to execute and `job[w]` its local variables. An invoice is
modelled by its status, tenant and month, and by the *set of ledger rows* it was made of, from
which its total, lines and currency follow; that tells what it charges, and not just how much.

| Code | Model |
|---|---|
| `BillPeriod`: query, loop (`billing_calculator.go`) | `BillPeriod`, `RecordDone` |
| `ProcessingSingleRecord`, with `GetPriceRules` and `CreateLedgerEntry` | `ProcessingSingleRecord` over `PriceRule` and `Inserted` |
| `GenerateInvoiceForTenant`: check, delete, read and group, create | `GenerateInvoice`, `DeleteInvoice`, `ReadLedger`, `CreateInvoice` |
| constraints and CHECKs of migration 005 | `Storable` |
| `FinalizeInvoice` of the service and of the store | `FinalizeInvoice`, `StoreFinalizeInvoice` |
| `MarkInvoicePaid`, `RecordCreditTransaction` | `MarkInvoicePaid`, `RecordCredit` |
| others who write the ledger, the aggregator, the calendar | `PostEntry`, `AddUsage`, `MonthEnds` |

A statement ends `ok`, in `error`, or `lost` (done, and reported as an error). All three jobs stop at
an error, so a process that dies is one of these outcomes as well.

Abstractions and assumptions:

* `reference_id` is the text that the calculator builds, unique per tenant, as the interface
  `LedgerStore` promises (`store.go:53`). Migration 004 declares the column UUID, and would refuse
  every usage row. `GetEntriesForPeriod` of the interface is `GetLedgerEntriesForPeriod` in the
  Postgres store.
* Nothing in the repository writes DEBIT or CREDIT rows. `PostEntry` stands for callers of
  `CreateLedgerEntry` that do; what they write is the constant `Adjustment`.
* Price lookup and insert are one step: rules do not change in a behaviour. Quantities and unit
  prices of invoice lines are left out: no decision depends on them. Amounts are not cut off at
  64 bits.
* `FinalizeInvoice` of an id that does not exist dereferences nil (`GetInvoiceByID` returns nil
  without an error) and is not a step of the model. VOID is never written by the code.
* An id is drawn once: `uuid.New` does not repeat one that was deleted.
* What the model has and no property excludes: usage that arrives after its month was billed is
  never billed, and a ledger row belongs to the month it is written in, so that a month's
  usage, billed after it ended, is on the next month's invoice or on none.

### Pricing

The engine is one loop, and the model is that loop: `tiers`, `asked` (the argument `usage`), `remaining`,
`prevLimit` and `total` are its variables, `next` the tier it has come to.

| Code (`prricing_engine.go`) | Model |
|---|---|
| `ValidateTiers`, the check of the usage | `ValidTiers`, `ValidateTiers` |
| one turn of the loop of `CalculateCost` | `CalculateTier` over `TierUsage`, `TierCost`, `LimitAfter` |
| the check after the loop | `CalculateEnds` |

`PriceOf` is the reference: each unit looks for its tier (`CostPerUnit`), each tier that is entered adds its flat
fee (`FeePerTier`), and prices and fees are added up. Amounts
are integers that never overflow. Nothing in the repository calls the engine yet.

### Tenancy

A *worker* is one call. `pc[w]` is the SQL statement it is about to execute, `job[w]` its parameters and
what it has read. One tenant is modelled: its `owner`, its membership rows (`members`) and its audit log.

| Code | Model |
|---|---|
| checks of the handlers | `WellFormed`, `Begin` |
| `AddMembershipCmd` | `GetTenantByID`, `GetActor`, `CreateMembership` |
| `AcceptInvitationCmd` | `GetInvitation`, `UpdateMembershipStatus`, `Append` |
| `RevokeMembershipCmd` | `GetTenantByID`, `GetRanks` (in parallel), `Judge`, `UpdateMembershipStatus` |
| `TransTntOwnership` | `GetTenantByID`, `UpdateTenant`, `UpsertMembership`, `Append`, `Commit` |
| `ValidateAccessToken` | `FirstSteps` (a super admin is answered at once), `GetTenantByID`, `GetActor`, `Answer` |
| the role policy | `EffectiveRole`, `MayInvite`, `MayRevoke`, `MayTransfer` |

* READ COMMITTED: a statement sees what is committed. What the transaction wrote shows at `Commit`, and
  until then its row locks keep other writers waiting (`LocksTenant`, `LocksMember`). The log is written on a
  second connection, whose foreign key asks for a key-share lock on the tenant (`KeyShareFree`).
* `ContextOver`: `AddMembershipCmd` and `RevokeMembershipCmd` go on with the context of an errgroup whose
  `Wait` has returned. Every statement after it fails, so that no invitation inserts a row and no revocation
  changes one; the steps are there, and do nothing.
* Since the service inserts no membership, the instances begin with rows that may be there (`FirstRows`).
* `UpdateMemberRole` and `UpdateTenantStatus` have no caller.

### TenantRequests and RequestDecision

`RequestDecision` promises that a request is decided once and that an approved one has founded its tenant.
`TenantRequests` implements it, under the condition the interface of the missing store states.

| Code | Model |
|---|---|
| `ReqTenantCmd` | `RequestTenant`, `GetPendingTntRequestByUser`, `CreateTntRequest`, `AppendLog` |
| `AppTntReqCmd` (one transaction) | `Review`, `GetTntRequestByID`, `UpdateTntRequest`, `CreateTenantInTx`, `AppendInTx`, `CommitTx` |
| `RejectTenantCmd` (no transaction) | `Review`, `GetTntRequestByID`, `UpdateTntRequest`, `AppendLog` |
| `CreateTenantCmdByPlatform` | `CreateTenantByPlatform`, `CreateTenant`, `AppendLog` |
| the partial unique index of the migration | `Unique` |

The repository has a table and an interface for requests but no store. `CompareAndSet` says whether its
`UpdateTntRequest` checks the status it replaces; the run sets it to TRUE, what the interface calls
"atomically updates the status (CAS or transaction)". With FALSE the refinement fails.

### Sessions

`users` maps addresses to password hashes, `tokens` are the `refresh_tokens` rows. A family is one login, on
one device, which presents the token it last received. A token is a bearer token: whoever has the text may
present it, so that anyone may present any token that was ever issued, rotated ones included (`PresentStolen`;
`stolen` remembers the families whose tokens somebody else presented).

| Code | Model |
|---|---|
| `RegisterUser`, `RegisterUserHandler` | `Register`, `CreateUser` (with the unique address, `EmailFree`) |
| `LoginUser`, `LoginUserHandler` | `Login`, `GetUserByEmail`, `CreateRefreshToken` |
| `RefreshSession` | `Present`, `PresentStolen`, `GetTokenByHash`, `RotateToken` or `RevokeTokenFamily` |
| `LogoutUser` | `Present`, `PresentStolen`, `GetTokenByHash`, `RevokeTokenFamily` |
| `argon2` | `HashPassword`, `VerifyPassword`: a hash says only which password matches it |

Access tokens are stateless and left out, as are the audit rows of registrations and logins. Accounts stay
active and keep their passwords, for nothing calls `UpdateStatus` and `SetPasswordHash`. The clock is `Expire`.

### Shipments

`run[k]` is the workflow run of request key `k`: the activity it is in, how often it was attempted, and the
row it saved. `fails` and `open` are the circuit breaker of the worker process.

| Code | Model |
|---|---|
| `ShipmentService.CreateShipment` | `CreateShipment` |
| `CallShippoAPI`, breaker | `CheckCircuit`, `CallShippoAPI`, `CircuitCloses` |
| `SaveShipmentToDB`, `CreateShipmentWithOutbox` | `SaveShipmentToDB` |
| `PublishKafkaEvent` | `PopPendingOutboxEvent`, `Publish`, `MarkOutboxEventPublished` |
| `Updateshipment`, `DeleteShipment` | `UpdateReads`, `DeleteReads`, then `UpdateShipment` or `EditFails` |
| Temporal, the worker's death | `Proceed`, `Retry`, `Failed`, `Crash` |

Temporal is external: one run per workflow id at a time, retries until `MaxAttempts`, a history that
survives crashes. Of a row its status is kept, of an event its state. An answer may be lost after each effect.
A shipment may be stored with any status Shippo reports, CANCELLED included; "PENDING" stands for every
status but the two that edits know.

The Kafka writer (`src/shared/kafka/producer.go:30`) is made without `RequiredAcks`, which in kafka-go v0.4.49
means that no broker acknowledges anything: `WriteMessages` returns nil once an event was written to a
connection. So `Publish` may report success whether or not the topic has the event, and the model tells the two
apart: `handed` has what the producer took, `topic` what Kafka stored. An event is known here by its row. The
payload itself is marshalled before the insert, with the id Shippo gave and not the one the database draws
(`shipment_activities.go:155`, `201`-`209`): the id that is announced names no row. No property is about the ids in
payloads.

### Communications

| Code | Model |
|---|---|
| `Consumer.Start` and the bridge handler | `FetchMessage`, `PublishEmail`, `PublishSms`, `HandlerFails`, `CommitMessages`, `CommitFails` |
| `startEmailWorker`, `startSmsWorker`, `processWithRetryOrDLQ` | `UnwrapFails`, `ProcessJob`, `Retry`, `DeadLetter`, each with an `...Unacked` variant |
| `main`'s shutdown | `StopSignal`, `BridgeExits`, `WorkerExits`, `Shutdown` |
| Kafka and RabbitMQ | `Rebalance`, `Cut`, `Notice`, `Start` |

The topic is one partition with a committed offset. RabbitMQ keeps a job until its ack; acks and publishings
share one channel without confirms, so that a connection that is cut swallows what is written until the
client notices. There is no reconnect in the code: only a restart gives a new connection. What is sent to
customers is a stub in the code and is counted in `sent`. The handler has nothing to do for an event of another
kind and returns no error for it, so that it counts as handled.

### Gateway

`doc[r]` is the operation of HTTP request `r`, `field[r]` what has become of its root fields. Behind them are
the rows of the shipment service.

| Code | Model |
|---|---|
| `authMiddleware`, the HTTP server | `Arrive` (a GET, or a POST that was let in), `Respond`, `Leave` |
| `_Query`, `_Mutation`: the order of fields | `Before`, `Turn` |
| unmarshalling of arguments, resolvers | `Fits`, `BadArguments`, `Request`, `Int32`, `ToProtoShipmentStatus` |
| gRPC client and handlers, the creation's run | `Call...`, `Serve...`, `Creating`, `Fail` |
| `GetShipments` of the store | `Selected`, `Listings`, `Page`, `GetShipments` |
| marshalling, nulls that spread | `Resolved`, `Marshal`, `Invalids`, `Response` |
| a client that pages | `StartReading`, `AskPage`, `Turned` |

A call may fail before it took effect or after. Concurrent creations with equal input join one workflow run and
are answered with the same row (`Creating`, `ServeCreateShipment`); equal creations of one mutation run one after
the other and make two. The reader pages through the listing of a status. Int32 is arithmetic modulo `2 * Half`, where `Half` is 2^31 in
the code; `LargestInt` is the largest argument the GraphQL type takes. A shipment is its id, status and
eta; the other columns are copied alike. Introspection answers from the schema and is one step.

## 3. What TLC checks

| Run | Instance | States | Shows |
|---|---|---|---|
| `payment` | 2 processes with a goroutine each, 1 invoice, 2 attempts, 1 retry, 1 crash | 527 000 | `MoneyBehindRecords`, `IntentBeforeNetwork`, `LiveCallKeepsItsRow`, and that `Payment` implements `InvoiceSettlement` (`Settlement`) |
| `payment_liveness` | 1 process with 2 goroutines, 2 invoices (one owes nothing), 1 attempt | 9 700 | `EveryJobEnds`, `EveryAttemptDecided` |
| `usage` | 2 events with a quantity and one without, 2 workers, a channel of 1, 2 attempts, 1 recount | 44 000 | `NoUsageLost`, `AddedOncePerRecount`, `StopDrains`, `UsageIsStored`, `StopReturns` |
| `invoicing` | 1 tenant, 2 months, 2 workers, 2 invoice ids, a debit, a credit, usage of one type with a default price and a tenant's price in another currency | 225 000 | `BilledOnce`, `ChargedOnce`, `FinalizedIsSound`, `InvoiceIsImmutable` |
| `pricing` | every list of up to 3 tiers over 5 limits, 2 unit prices; usage from -1 to 5 | 16 700 | `PricedUnitByUnit` |
| `tenancy` | 3 users, 1 of them a super admin, 2 calls at a time and 3 in all | 1 650 000 | `AuthorityWasReal`, `FormerOwnersStay`, `SomeCallRuns`, `NoUnloggedTransfer`, `RightsAreEarned` |
| `requests` | 2 users, 2 requests, 3 calls at a time | 155 000 | `OnePendingPerUser`, and that `TenantRequests` implements `RequestDecision` (`RequestsDecidedOnce`) |
| `sessions` | 2 families, 3 tokens, thieves, 2 calls at a time, 1 address, 2 passwords | 930 000 | `RevocationIsFinal`, `OneLiveToken`, `SessionSurvives`, `SessionsMatchAccounts` |
| `shipments` | 2 keys with a run each, 2 rows, 1 editor, 2 attempts, a breaker that opens after 2 failures, 1 crash | 193 000 | `OutboxIsTruthful`, `CompletedMeansHandedOver`, `CancelledForGood`, `EveryRunEnds` |
| `communications` | 2 events (shipments, alone or beside another event), or other events with a job left by others, 1 retry, 2 faults | 124 000 | `NoJobLost`, `OnceWhileCalm`, `CommitsAreHandled`, `EventsReachCustomers`, `StopEnds` |
| `gateway` | 2 requests under way out of 5 operations and the reader's pages, 2 shipments, a page of 1 | 701 000 | `ReaderMissesNothing`, `ResponseIsHonest`, `MutationsAreSerial`, no deadlock |
| `payment_double_charge` | 1 process with a goroutine, 1 invoice, 2 attempts, 1 crash | | `ChargedAtMostOnce` is violated: the finding of section 5 |

### Why the bounds are enough

* **Payment.** Two processes are what defeats singleflight, and two attempts are what a double charge
  needs; a third adds no new pair of writers to a row. One retry is enough to have two requests of one
  key on the wire or a late one, and one crash to leave every kind of job half done beside a job that
  goes on.
* **Usage.** Three events put one in the channel, one in a batch and one in the new map at the same time; two
  workers drain concurrently; a channel of one fills up. `MaxRecounts` bounds the only behaviour that can
  go on forever.
* **Invoicing.** Two jobs are a pair that races (generator and finalizer, two generators, two billing
  runs), two months let a row land in the month after its usage, and two ids are an invoice and its
  replacement, or the invoices of two months; the credit is less than the debit, so that totals are
  positive, negative or zero by what is posted when. With a usage of at most 1, a stale quantity of a
  record is not seen by TLC: `UsageIsBilledOnce` proves that case.
* **Tenancy.** Two calls are a pair that races; a third, after one of them, sees what the race left. Of three
  users one owns the tenant, one replaces the owner and one is neither. Every mix of invited, active and absent
  memberships is an initial state.
* **Requests.** Three calls are two deciders of one request beside a requester, or two requesters beside
  a decider.
* **Sessions.** Three tokens give one family two rotations, or two families and a rotation of one; the oldest
  token of a family of three is one that was rotated twice, and a thief may present any of them. Two devices
  show that a revocation spares the other family.
* **Shipments.** Two runs share a breaker that either can open for the other; two attempts make each activity
  fail, succeed on retry, or give up. One editor makes edits one after the other; edits that overlap are what
  `CancelledStaysCancelled` (section 4) covers, for any number of editors.
* **Communications.** Two events are one that is handled and one whose publishing fails or is swallowed, in either
  order: `MCStarts` has a shipment before and after another shipment, before and after an event of another kind, and
  after one that cannot be read. Two faults are a cut and a stop, or a crash in the middle of the recovery from another.
* **Gateway.** The page is smaller than the listing; two creations in one mutation can fail one by one;
  `Half = 16` wraps as 2^31 does. The reader asks for a status; what a reader without one is shown is in section 5.

Symmetry sets are used in runs without liveness only. Deadlock is checked in `gateway`, whose clients go on
for ever; elsewhere jobs, events, ids or retries run out by intention. The proofs of section 4 hold without any
of these bounds.

### Fairness

* `Payment`: a goroutine that can run runs, and every call it makes ends, if only because its
  context expires (weak fairness of `JobStep`); the reconciler's ticker goes on (weak fairness
  of `GetPendingAttempts`), the goroutines it starts run although others of the model may be
  busy at times (strong fairness of `SyncAttempt`); and the database does not refuse the same
  update forever (strong fairness of its success). Nothing is asked of Stripe, the network, or
  the callers of `PayInvoice`.
* `UsageAggregator`: goroutines run; Go's `select` chooses at random between ready cases, so that
  a Flusher that can quit does not tick forever (strong fairness of `FlusherQuits`); and while its
  context lives, the database does not fail every attempt (strong fairness of the successful
  `StoreFlush`). Events are finitely many, so that the drain of `Stop` ends: with an unending
  stream of `Ingest` calls during the stop it need not, since nothing closes the channel.
* `Shipments`: Temporal keeps scheduling the activities of a run (weak fairness of `Step`). Nothing is asked
  of Shippo, the database or Kafka: attempts may all fail.
* `Communications`: goroutines run (weak fairness of their steps); a `select` that finds its context
  cancelled again and again takes that case at last, and a cancelled fetch returns (strong fairness of
  `WorkerExits`, `BridgeExits`); a client notices a cut at last; and a process that is down is started again.

## 4. What is proved

`tlapm` checks every theorem of the eight `...Proofs` modules, for all values of the constants that meet the
assumptions named here. Each specification has one inductive invariant (`IInv`; `RequestInv` for
`TenantRequests`, `PricingInv` for `Pricing`), which TLC checked on the instance of its run before it was
proved; the theorems below follow from it.

**Payment.** Assumptions: every worker has a home process (`HomeAssumption`), totals are natural
numbers (`TotalCentsAssumption`; the column has that CHECK), the bounds are natural
(`BoundAssumption`) and `None` is no id (`NoneAssumption`).
The invariants of the runs are not inductive: that a SUCCEEDED row is backed by money rests on
what the goroutines that are about to write it know. The inductive invariant `IInv` adds to the
properties what that takes: `JobInv`, that what a job in each step remembers of its attempt agrees
with the row and with Stripe (a verdict SUCCEEDED is only held with a captured intent, and a job
about to create a row still owns an unused id); `RowInv` and `InvoiceInv`, that Stripe has seen no key
without a row, and SUCCEEDED and PAID come only with money; `KeyInv`, that no two calls share an
attempt. For `LiveCallKeepsItsRow`, `ProviderInv` adds that a provider id is stored only with
SUCCEEDED, and `BatchInv` and `ReconInv` that what the reconciler took up has neither a provider id
nor a live call, and that webhooks find nothing to do (which is no property: section 5 has it as a
defect). Captured intents stay captured, which makes
remembered knowledge of them safe.
`TypeStep`, `BatchStep` and `ReconStep` prove separate parts, `Inductive` joins them, one step per
action. From it follow `TypeCorrect`, `RecordsAreBacked`,
`ChargesAreTraceable`, `LiveCallsAreUndisturbed`, `SettledForGood`, and
`Refinement`: `Spec` implements `InvoiceSettlement`, where `StripeProcesses` and `StripeSettles`
map to `Collect`, `MarkInvoicePaid` to `Settle`, `RecordCredit` to `Credit`, `FinalizeInvoice` to
`Finalize` and every other action to a stutter.

**UsageAggregator.** Assumptions: finitely many events, at least one worker, positive limits. The
inductive invariant says that an event is in one place at a time (channel, hands of a worker,
map, one of the two batches), that a batch which is recorded has been added exactly once more
than the recounts explain, and that a worker that is done left an empty channel of early
events. From it follow `TypeCorrect`, `UsageIsKept`, `UsageIsNotRepeated` and `StopIsOrderly`.

**Invoicing.** Assumptions: months and quantities are bounded by numbers (`BoundAssumption`); prices
are natural numbers and rules name a tenant or the default (`RulesAssumption`; the column has the
CHECK); adjustments have natural amounts (`AdjustmentAssumption`); `None` is no tenant and no id
(`NoneAssumption`). That what is finalized is sound rests on an argument across jobs: between a
finalizer's check and its update the draft may be deleted, but an id never names another invoice
and an invoice that exists never changes its rows, so that the update finds what was checked or
finds nothing. The inductive invariant `IInv` has four parts: `TypeOK`; `LedgerInv`, one row per tenant
and reference, each usage row at a price in force and for usage that was there; `SlotInv`, one
invoice per tenant and month, its rows among the ledger's rows of that month, and lines that are
not empty once it left DRAFT; and `JobInv`, what each job read and still relies on. `NothingShrinks`
is the other half: usage and ledger only grow and invoices keep what they say, so that `JobInv`,
which talks of the past, stays true when others move. From it follow `TypeCorrect`,
`UsageIsBilledOnce`, `RowsAreChargedOnce`, `FinalizedWasSound` and `InvoicesAreImmutable`.

**Tenancy.** Assumptions: the founder and the super admins are users, `None` is no user, rows begin as
invitations, active or revoked memberships, never as an owner's. What makes the proof more than a look at
each statement is that a command acts on what it read statements ago. `Sound` says what its checks have left
behind: the role it may act with, that an invitation it accepts was pending and can only have become active,
that a transfer about to commit is in the log. `Remembered` ties the locals to the history: an owner it read
has owned the tenant, and the role it computed from two reads is no higher than one its actor held since the
command began, although the two reads may belong to no single state; that is the whole of
`AuthorityWasReal`. `Followed` keeps the history (`seen`, `everOwner`) up to date with the rows. From it follow
`TypeCorrect`, `AuthorityIsReal`, `OwnersStepDown`, and, as properties of steps, `TransfersAreLogged` and
`GrantsAreEarned`: nobody becomes an active member but by an invitation that was pending, with the role it offered,
or, as an admin, by having owned the tenant.

`SomebodyRuns` is the absence of deadlock. `Waits` names the locks a call's next statement waits for: the tenant's,
a membership row's, or the key-share lock that the foreign key of an audit row asks for on a second connection.
`SomeCallIsFree` says that of the calls under way one waits for none of them. The run `tenancy` checks in
`SomeCallRuns` that this is all a call waits for (`ENABLED` of its statement is `~Waits`); the theorem says that
there is always such a call, with any number of them. It needs `OneHolder`: two calls never hold the tenant's row. Its
holder waits for nobody, because the row it writes next is locked by a holder of the tenant only and the key-share
lock of its own log passes; and without a holder nobody waits.

**TenantRequests** (in `TenancyProofs`). Assumptions: a natural bound of tenants (`MaxTenantsAssumption`), `CompareAndSet`
is a truth value, and `None` is neither user nor request (`NoneAssumption`, `RequestsAssumption`). `RequestTypeCorrect`
is its type invariant. `PendingIsUnique` rests on the partial unique index and on nothing else of the store. `RequestRefinement`, that it implements `RequestDecision`
(`RequestsDecidedOnce`), has the hypothesis `CompareAndSet`: the store decides a request only while it is pending, which
its interface promises (`tenant_request_store.go`) and no implementation in the repository shows. `DecidingInv` says that
a request somebody's transaction has decided is locked and still pending for all others, `RowInv` that tenant and log
follow the status of the row. The insert maps to `Submit`, the update of a rejection to `Reject`, the commit of an
approval to `Approve`, every other step to a stutter.

**Sessions.** One assumption: `None` is no id. `IInv` adds to the properties `RowInv`, where rows and devices
point; `JobInv`, that a login is alone with its family, and a token that was drawn and not stored is nobody else's;
`ClosedInv`, that a closed family is revoked to the last token and no call is about to rotate one of them (this is
what makes `RevocationIsFinal` inductive: its statement alone says nothing of a rotation under way); `ChainInv`,
that a family without overlapping calls is one chain, with at most one end; and `DeviceInv`, that the
end of the chain is at its device or in the answer on its way. From it follow `TypeCorrect`, `RevokedForGood`,
`OneTokenWorks`, `DeviceStaysIn` and `SessionsAreEarned`. Thieves are part of all of these: `RevokedForGood`, `OneTokenWorks` and
`SessionsAreEarned` hold whatever tokens anyone presents. `DeviceStaysIn` cannot: a rotated token, presented by
whoever has it, is taken for a replay and revokes the family, as the code intends. It says that a device which alone
presents its tokens keeps its session, whatever is done with those of other families.

**Shipments.** Assumptions: ids are numbers, the retry limit and the breaker's threshold positive ones, `None` is no id.
`RunInv` says of a run in each activity what the activities before it have done, and that it has an attempt left;
`OutboxInv` that row and event exist together and a published event was handed to the producer; `EditInv` that an editor about to
write has read a row, and none is about to write a row that was cancelled for good. Since rows, labels and events
are never taken back (`Grows`), what a run remembers stays true whatever others do, and whatever a crash interrupts.
From it follow `TypeCorrect`, `OutboxTellsTheTruth`, `CompletedIsHandedOver` and `CancelledStaysCancelled`, for any
number of runs and crashes and any retry policy.

**Communications.** Assumptions: the topics and queues it starts with are made of the kinds of events and jobs the
module names, and the bounds are numbers. `KeptInv` adds to `NoJobLost` the event whose e-mail job is out
and whose SMS job is not: it is not handled yet, and is kept or swallowed all the same; `KeepsStep` shows that no step
loses a job, because a job leaves a queue only once it was sent, put back under the same key, or made a dead letter.
`CalmInv` counts each job in at most one place as long as there was no fault, and in none before its event was
fetched. `CommitInv` says that the event about to be committed is one the handler was done with, which gives
`CommitsFollowHandling`: the committed offset is always that of an event that was handled. It says nothing of the
events before it, for a commit may pass one that failed (section 5). From the invariant follow `TypeCorrect`,
`JobsAreKept`, `CalmIsOnce` and `CommitsFollowHandling`, for any topic, with any mix of events.

**Gateway.** Assumptions: the documents are ones the schema lets through (`DocumentsAssumption`), ids and etas are
numbers, the reader's page fits an int32 (`PageAssumption`), `None` is no request and no number. The inductive
invariant has `ShapeInv`, a state for each root field of each document; `ShownInv`, that what an answered field
shows is still in the table, for a row whose status a client can name is never edited and no row goes away; `DistinctInv`,
that two creations of a request show two rows; and `ReaderInv`. `Joined` is what the end of a creation's run does:
one new row, shown by the run's own call and by the calls of other requests that joined it, one of each since a
mutation has one call under way; and as the row is new, no field of these requests shows it already. `ReaderInv` is the argument for the paging reader:
the rank of a row in its listing never falls, since what is there before it stays, and a page covers the ranks from
its offset on; so each row the reader wants has been seen, or is in an answer on its way, or has a rank at or after
the offset of the next page (`Wants` says which rows a reader of a status wants). It holds for listings in which no two rows share an eta (`Spread`), as the property
says: with a tie the two pages may order the rows differently. The lemmas on arithmetic of int32 (`Int32Fits`,
`Int32Wraps`, `Int32Limit`) say when a page is the one asked for: the reader, whose offsets only grow, is refused
before its offset wraps around. `Honest` compares id and eta and leaves out the status that is shown, which is no
name of the schema (section 5). From it follow `TypeCorrect`, `NothingMissed`, `Honest` and `Serial`, for any number
of requests, fields, rows and pages.

**Pricing** (in `InvoicingProofs`). `UnitByUnit`: for every list of tiers that
`ValidateTiers` passes and that has no limit below zero, and every quantity, the loop charges what the unit-by-unit
reference charges; and it never runs out of tiers. The loop invariant `LoopInv` says that what was charged so far is
the price of the units so far and the fees of the tiers they entered, and `Behind` that, with units left, `next` is the
tier they go on in. The only
assumption, `InputsAssumption`, is that lists are sequences of tiers and quantities integers. The library's induction
theorems are out of the prover's reach, for they take an operator; where a fact about all finite sets or numbers
is needed, the proof takes a least counterexample instead (`LeastMember`, from the well-foundedness of the natural
numbers, which the library states for sets). In that way the section "Sums" proves what `SumFunctionOnSet` does:
taking out any element, constants, equal functions.

**Invoices add up.** `HeadersMatchLines`: the generator computes the total of an invoice from its entries, and its
lines by grouping the entries by usage type; the two agree for every invoice, as long as it exists, whatever debits,
credits and entries of unknown type it was made of. The hypothesis is that there are finitely many usage types. No
run checks it: it holds by the lemmas on sums and because every charged entry has one of these types.

**Only model-checked.** Liveness (`EveryJobEnds`, `EveryAttemptDecided`, `UsageIsStored`,
`StopReturns`, `EveryRunEnds`, `EventsReachCustomers`, `StopEnds`) and the half of `SomeCallRuns` that speaks of
`ENABLED`: temporal reasoning under fairness and ENABLED are out of the prover's reach. `ChargedAtMostOnce` is
violated, as its run expects. Every other property of a run is a theorem.

**Only proved.** The type invariants, `PaidOnce` of `Payment` (`SettledForGood`) and `InvoicesAddUp` are part of no
run, for the theorems hold of every instance.

## 5. Findings

One finding is a run: `payment_double_charge`. A provider id is first stored together with SUCCEEDED, so that every
attempt the reconciler takes up lacks one, and it closes these as FAILED without asking Stripe. In the trace the
process dies with a charge on its way; the reconciler closes its row; the next `PayInvoice` call finds the invoice
FINALIZED, draws a new attempt id, which is a new idempotency key, and Stripe captures both. Against that,
`reconciliation.payment.go:27` has the reconciler ask "what REALLY happened" and 129 says "Mark FAILED (Safe to
retry)". (Stripe's two captures come last in the trace; the first may come at any time after its request left.)

The following came up while modelling. The models have them as the code does; properties are stated so that
what remains true is said exactly, and none states a defect as if it were intended.

*Billing* (`billing-service/`)

* Webhooks look attempts up by the provider id that is first written with SUCCEEDED, so that they find nothing to
  settle, and the reconciler settles nothing either (`webhookLogic.payment.go:45`, `Payment_Service.go:167`, "The
  Reconciler will find it and fix it", promise otherwise).
* The same double charge comes about without a crash: a call gives up with a network error while its request is
  under way, writes FAILED, and Stripe captures; the next call charges under a new key. The key protects the
  retries inside one call only (`Payment_Service.go:142`).
* A payment row of the ledger that could not be written is never written again (`Payment_Service.go:199`).
* A server error of Stripe is never retried: `mapStripeError` renames it to an error that `IsRetryAbleError`
  does not know.
* A batch merged back after a commit whose answer was lost gets a new BatchID and is added again
  (`aggregator.usage.go:199`; `002_create_flush_history_table.sql:7` promises otherwise).
* `Stop`'s flush uses the aggregator's cancelled context (`aggregator.usage.go:190`).
* The generator checks for DRAFT in one statement and deletes by id alone in another: an invoice finalized in
  between is deleted, with its lines and, by cascade, its attempts (`invoice_generator.go:49`, "Rule: Immutable
  History", `56`). `InvoiceIsImmutable` is about invoices while they exist.
* The calculator books usage under its usage type (`billing_calculator.go:104` speaks of a debit), and the
  generator skips what is neither DEBIT nor CREDIT: no usage reaches an invoice.
* An upsert that fails shadows the error that the deferred rollback looks at (`usages_store.postgres.go:69`):
  the transaction is left open.
* `ValidateTiers` lets a first limit below zero pass, and then charges it; `PricedUnitByUnit` leaves such lists out.

*Authentication* (`authentication-service/internal/`)

* `add_membership.commands.go:59` and `revoke_membership.commands.go:67` replace the command's context by one that
  is over when `Wait` returns: with the Postgres store no invitation and no revocation takes effect, against
  `revoke_membership.commands.go:129` ("State Transition: Soft Delete") and `add_membership.commands.go:110`
  ("INVITATION STARTS AS PENDING"). The model has it (`ContextOver`); no property asserts it.
* A transfer reads the tenant without a lock: of two concurrent ones the later overwrites the earlier, and the
  owner in between is left with no membership (`displaced` in `FormerOwnersStay`).
* The log of a transfer is written outside its transaction (`transferTenant_ownership.commands.go:144`): a
  transfer that is rolled back is logged all the same.
* A refresh that read its token before a logout rotates it afterwards, and the family lives on, in spite of
  the "Kill Switch" of `session.domain.go` (`closed` in `RevocationIsFinal`).

*Shipments and the gateway*

* The gRPC handler's `toModelShipment` never copies dimensions, without which the carrier call fails: a creation
  over gRPC never completes. `stableCreateKey` leaves the dimensions out as well, so that requests that differ only
  in them join one run.
* An update that read a shipment before it was cancelled writes the old status back.
* The producer asks for no acknowledgement: an event marked published need not be in Kafka, and nothing publishes
  it again (`src/shared/kafka/producer.go:30`; `README.md:119` has "reliable event publishing").
* The announced id is Shippo's and names no row (`shipment_activities.go:155`, `201`).
* No relay reads the outbox (`README.md:441`): an event whose run gave up is never published.
* The circuit breaker is checked before the request and may have opened since; a label may be bought again by
  the retry of a call whose answer was lost, which carries no key.
* The gateway's statuses are the characters with the status's number as code (`schema.resolvers.go:80`), and
  no filter means IN_TRANSIT, although `postgres.go:177` has "empty string means no filter": shipments of another
  status are listed only for who names it, and PRE_TRANSIT and CANCELLED cannot be named. `ReaderMissesNothing` is
  about readers that name a status.
* The middleware lets every GET pass, and gqlgen serves queries over GET (`graphql-gateway/cmd/main.go:71`).
* Limits and offsets are cut to 32 bits; pages sorted by an eta that is not unique may overlap or leave rows out.
* One failed field of a mutation nulls the data of those that succeeded.

*Communications*

* A handler's error leaves the offset uncommitted, but the next commit passes it: the event is read again only
  after a restart or a rebalance before that, although `consumer.go:79`-`82` has "Kafka will send this SAME message
  to us again in a few seconds". `EventsReachCustomers` says so of every event but these (`Skipped`).
* An empty payload is wrapped again as the JSON value `null`, which is then processed: only jobs that arrive
  with their retries used up reach a dead-letter queue.
* Publishings have no confirms and there is no reconnect; the idempotency key of a job is never looked at.

## 6. Not modelled

* **Configuration** and the `cmd` mains of the other services: read once at the start, wiring.
* **Access tokens**: signing and verifying are library calls, and nothing is stored.
* **`GetRates`** only asks the carrier; its answer is stored nowhere and decides nothing.
* **Store methods without a caller**: `ListMembersByUserID`, `UpdateMemberRole`, `UpdateTenantStatus`, `SetPasswordHash`,
  `UpdateStatus` of users and of invoices.
* **Generated code.** More than half of the Go lines are generated. Of `graph/generated/generated.go` the model has
  what decides the order of fields, their nulls and the columns shown; the tables of the introspection types,
  complexity, deferred groups, the stale copy `graph/generated.go` and the messages of `shared/proto` hold no
  behaviour of this program.
* **Hazards without a property.** `payment_attempt_store.go:77` (the 50 oldest rows; needs more than 50 attempts),
  `stripe_gateway.go:45` (the payment breaker, one more refusal here; the same breaker is modelled in `Shipments`),
  `aggregator.usage.go:172` (usage booked in the month of the flush: nothing in the code says which month it
  should be).

## 7. Plan

Done: all modules with their runs, and the theorems of section 4. What is left, in order:

1. A composition in which the FINALIZED/PAID part of `Invoicing` implements `InvoiceSettlement`.
2. An abstract specification of at-least-once delivery that `Communications` implements between faults.
3. Quantities and unit prices of invoice lines, once something in the code decides on them.
