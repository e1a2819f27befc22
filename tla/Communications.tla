--------------------------- MODULE Communications ---------------------------
(***************************************************************************)
(* The communications service: the Kafka consumer and its bridge handler,  *)
(* which turns each shipment.created event into an email job and an SMS    *)
(* job, and the two workers that take the jobs from RabbitMQ, with their   *)
(* retries and dead letter queues.                                         *)
(*                                                                         *)
(* Kafka and RabbitMQ are external.  The topic is one partition with a     *)
(* committed offset per group.  RabbitMQ keeps every job until its ack     *)
(* arrives.  Acks and publishings travel on one channel, without publisher *)
(* confirms: once the connection is cut, what the client still writes is   *)
(* swallowed, in order, until the client notices.                          *)
(***************************************************************************)
EXTENDS Naturals

CONSTANTS Starts,       \* what may be on the topic, and in the queues from others
          MaxRetries,   \* maxDeliveryReties
          MaxEvents,    \* bound: events on the topic
          MaxFaults     \* bound: shutdowns, crashes, connections that break,
                        \* rebalances and failed commits

Queues == {"email", "sms"}
Keys == 0..MaxEvents
Offsets == 1..MaxEvents

Kinds == {"created", "other", "garbage"}

\* A job of the bridge has the number of its event as key, what others left has 0.
\* "null" is what becomes of an empty payload when the job is wrapped again.
OwnJob(n) == [key |-> n, payload |-> "full", retry |-> 0]

LeftJobs == [key : {0}, payload : {"empty", "null", "garbage"}, retry : 0..MaxRetries]

Jobs == {OwnJob(n) : n \in Offsets} \cup LeftJobs

ASSUME StartsAssumption ==
  Starts \subseteq [log : [Offsets -> Kinds], left : [Queues -> SUBSET LeftJobs]]
ASSUME BoundsAssumption == {MaxRetries, MaxEvents, MaxFaults} \subseteq Nat

VARIABLES
  log,        \* the events on the topic
  left,       \* the jobs others left in the queues
  committed,  \* how many events the group has committed
  position,   \* how many events the reader has fetched
  bridge,     \* where the consumer's loop is, and the event it handles
  conn,       \* the connection to RabbitMQ: "up", "cut" or "down"
  held,       \* copies of each job that RabbitMQ holds in each queue
  stuck,      \* copies a worker gave up on without an ack
  worker,     \* each worker: "running" or "exited"
  dlq,        \* keys and retries of the jobs in the dead letter queues
  proc,       \* the process: "up", "stopping" or "down"
  sent,       \* how often the job of each key was processed, up to twice
  handled,    \* history: events whose handler returned without an error
  swallowed,  \* history: events whose publishing a cut connection swallowed
  faults      \* how many faults there were

topic == <<log, left, committed, position>>
rabbit == <<held, dlq>>
workers == <<stuck, worker, sent>>
vars == <<topic, bridge, conn, rabbit, workers, proc, handled, swallowed, faults>>

-----------------------------------------------------------------------------
At(pc, n) == [pc |-> pc, event |-> n]

NoCopies == [q \in Queues |-> [j \in Jobs |-> 0]]

Init ==
  /\ \E start \in Starts :
       /\ log = start.log
       /\ left = start.left
       /\ held = [q \in Queues |-> [j \in Jobs |-> IF j \in left[q] THEN 1 ELSE 0]]
  /\ committed = 0 /\ position = 0
  /\ bridge = At("fetch", 0)
  /\ conn = "up"
  /\ stuck = NoCopies
  /\ worker = [q \in Queues |-> "running"]
  /\ dlq = [q \in Queues |-> {}]
  /\ proc = "up"
  /\ sent = [q \in Queues |-> [k \in Keys |-> 0]]
  /\ handled = {}
  /\ swallowed = [q \in Queues |-> {}]
  /\ faults = 0

-----------------------------------------------------------------------------
(* Kafka: a rebalance takes the reader back to the committed offset.       *)

Fault == faults < MaxFaults /\ faults' = faults + 1

\* Mutant: a group starts at the end of the topic.
StartOffsetLast == MaxEvents

\* Where a new generation of the group starts to read.
StartOffset == committed

Rebalance ==
  /\ proc # "down"
  /\ position' = StartOffset
  /\ Fault
  /\ UNCHANGED <<log, left, committed, bridge, conn, rabbit, workers, proc, handled, swallowed>>

-----------------------------------------------------------------------------
(* Consumer.Start with the bridge handler.                                 *)

\* The top of the loop looks at the context and fetches the next message.
LoopTop == IF proc = "stopping" THEN At("exited", 0) ELSE At("fetch", 0)

\* The handler leaves an event of another kind alone, which is no error; what it
\* cannot read is one, and is not committed.
FetchMessage ==
  /\ bridge.pc = "fetch"
  /\ position < MaxEvents
  /\ position' = position + 1
  /\ LET n == position'
     IN /\ CASE log[n] = "created" -> bridge' = At("email", n)
             [] log[n] = "other"   -> bridge' = At("commit", n)
             [] log[n] = "garbage" -> bridge' = LoopTop
        /\ handled' = IF log[n] = "other" THEN handled \cup {n} ELSE handled
  /\ UNCHANGED <<log, left, committed, conn, rabbit, workers, proc, swallowed, faults>>

\* What a publishing to queue q puts into RabbitMQ.
Put(q, j) == IF conn = "up" THEN [held EXCEPT ![q][j] = @ + 1] ELSE held

\* The handler publishes the job of queue q and goes on at "next".
PublishJob(q, next) ==
  /\ bridge.pc = q
  /\ conn # "down"
  /\ held' = Put(q, OwnJob(bridge.event))
  /\ swallowed' = IF conn = "cut" THEN [swallowed EXCEPT ![q] = @ \cup {bridge.event}]
                                  ELSE swallowed
  /\ bridge' = At(next, bridge.event)
  /\ handled' = IF next = "commit" THEN handled \cup {bridge.event} ELSE handled
  /\ UNCHANGED <<topic, conn, dlq, workers, proc, faults>>

PublishEmail == PublishJob("email", "sms")
PublishSms == PublishJob("sms", "commit")

\* Mutant: a handler's error is logged and the message committed all the same.
HandlerErrorIgnored ==
  /\ bridge.pc \in Queues
  /\ conn = "down"
  /\ bridge' = At("commit", bridge.event)
  /\ UNCHANGED <<topic, conn, rabbit, workers, proc, handled, swallowed, faults>>

\* A handler's error is logged and the loop goes on with the next message.
HandlerFails ==
  /\ bridge.pc \in Queues
  /\ conn = "down"
  /\ bridge' = LoopTop
  /\ UNCHANGED <<topic, conn, rabbit, workers, proc, handled, swallowed, faults>>

Commits(n) == committed' = n

CommitMessages ==
  /\ bridge.pc = "commit"
  /\ Commits(bridge.event)
  /\ bridge' = LoopTop
  /\ UNCHANGED <<log, left, position, conn, rabbit, workers, proc, handled, swallowed, faults>>

\* A failed commit is only logged; after the stop signal the context fails it.
CommitFails ==
  /\ bridge.pc = "commit"
  /\ \/ Fault
     \/ proc = "stopping" /\ UNCHANGED faults
  /\ bridge' = LoopTop
  /\ UNCHANGED <<topic, conn, rabbit, workers, proc, handled, swallowed>>

-----------------------------------------------------------------------------
(* startEmailWorker and startSmsWorker.  A worker takes, processes and acks *)
(* a job in one step, for nobody else sees the job in its hand; what may    *)
(* happen in between are the actions of ...Unacked.                         *)

\* RabbitMQ hands out every copy it holds, for no prefetch limit is set; what it
\* handed out before a cut waits in the client and can still be taken.
Deliverable(q, j) == /\ worker[q] = "running" /\ conn # "down"
                     /\ held[q][j] > stuck[q][j]

\* Mutant: a processed job is not acked.
AckedNever(q, j, copies) == copies

\* What the queue holds after "copies" lost job j.
Acked(q, j, copies) == IF conn = "up" THEN [copies EXCEPT ![q][j] = @ - 1] ELSE copies

\* unwrapJobWithMeta fails: no ack, no nack.
UnwrapFails(q, j) ==
  /\ Deliverable(q, j)
  /\ j.payload = "garbage"
  /\ stuck' = [stuck EXCEPT ![q][j] = @ + 1]
  /\ UNCHANGED <<topic, bridge, conn, rabbit, worker, sent, proc, handled, swallowed, faults>>

\* processJob: only an empty payload fails.
Works(j) == j.payload \in {"full", "null"}

Sent(q, j) == sent' = [sent EXCEPT ![q][j.key] = IF @ < 2 THEN @ + 1 ELSE @]

ProcessJob(q, j) ==
  /\ Deliverable(q, j) /\ Works(j)
  /\ Sent(q, j)
  /\ held' = Acked(q, j, held)
  /\ UNCHANGED <<topic, bridge, conn, dlq, stuck, worker, proc, handled, swallowed, faults>>

\* The connection breaks, or is closed by a crash, before the ack is out.
ProcessedUnacked(q, j) ==
  /\ Deliverable(q, j) /\ Works(j)
  /\ Sent(q, j)
  /\ conn = "up" /\ conn' = "cut"
  /\ Fault
  /\ UNCHANGED <<topic, bridge, rabbit, stuck, worker, proc, handled, swallowed>>

\* wrapJobWithMeta turns an empty payload into the JSON value null.
Again(j) == [j EXCEPT !.payload = "null", !.retry = j.retry + 1]

Retries(q, j) == Deliverable(q, j) /\ ~Works(j) /\ j.payload = "empty" /\ j.retry < MaxRetries
GivesUp(q, j) == Deliverable(q, j) /\ ~Works(j) /\ j.payload = "empty" /\ j.retry >= MaxRetries

Retry(q, j) ==
  /\ Retries(q, j)
  /\ held' = Acked(q, j, Put(q, Again(j)))
  /\ UNCHANGED <<topic, bridge, conn, dlq, workers, proc, handled, swallowed, faults>>

RetryUnacked(q, j) ==
  /\ Retries(q, j)
  /\ held' = Put(q, Again(j))
  /\ conn = "up" /\ conn' = "cut"
  /\ Fault
  /\ UNCHANGED <<topic, bridge, dlq, workers, proc, handled, swallowed>>

\* Mutant: a job given up is acked and dropped.
PutDeadNever(q, j) == UNCHANGED dlq

PutDead(q, j) == dlq' = IF conn = "up" THEN [dlq EXCEPT ![q] = @ \cup {j.key}] ELSE dlq

DeadLetter(q, j) ==
  /\ GivesUp(q, j)
  /\ PutDead(q, j)
  /\ held' = Acked(q, j, held)
  /\ UNCHANGED <<topic, bridge, conn, workers, proc, handled, swallowed, faults>>

DeadLetterUnacked(q, j) ==
  /\ GivesUp(q, j)
  /\ PutDead(q, j)
  /\ conn = "up" /\ conn' = "cut"
  /\ Fault
  /\ UNCHANGED <<topic, bridge, held, workers, proc, handled, swallowed>>

\* Mutant: a worker only looks at its deliveries.
WorkerExitsClosed(q) ==
  /\ worker[q] = "running"
  /\ conn = "down"
  /\ worker' = [worker EXCEPT ![q] = "exited"]
  /\ UNCHANGED <<topic, bridge, conn, rabbit, stuck, sent, proc, handled, swallowed, faults>>

\* A worker returns when the context is cancelled or its deliveries are closed.
WorkerExits(q) ==
  /\ worker[q] = "running"
  /\ proc = "stopping" \/ conn = "down"
  /\ worker' = [worker EXCEPT ![q] = "exited"]
  /\ UNCHANGED <<topic, bridge, conn, rabbit, stuck, sent, proc, handled, swallowed, faults>>

-----------------------------------------------------------------------------
(* The connection, the process and main.                                   *)

\* RabbitMQ queues again what was not acked, for the next connection.
Cut ==
  /\ conn = "up" /\ proc # "down"
  /\ Fault
  /\ conn' = "cut"
  /\ UNCHANGED <<topic, bridge, rabbit, workers, proc, handled, swallowed>>

Notice ==
  /\ conn = "cut"
  /\ conn' = "down"
  /\ UNCHANGED <<topic, bridge, rabbit, workers, proc, handled, swallowed, faults>>

StopSignal ==
  /\ proc = "up" /\ Fault
  /\ proc' = "stopping"
  /\ UNCHANGED <<topic, bridge, conn, rabbit, workers, handled, swallowed>>

\* The loop is in FetchMessage when the context is cancelled.
BridgeExits ==
  /\ proc = "stopping" /\ bridge.pc = "fetch"
  /\ bridge' = At("exited", 0)
  /\ UNCHANGED <<topic, conn, rabbit, workers, proc, handled, swallowed, faults>>

\* What a new connection and a new process start with.
Gone == /\ proc' = "down" /\ conn' = "down"
        /\ bridge' = At("exited", 0)
        /\ worker' = [q \in Queues |-> "exited"]
        /\ stuck' = NoCopies
        /\ UNCHANGED <<topic, rabbit, sent, handled, swallowed>>

AllExited == bridge.pc = "exited" /\ \A q \in Queues : worker[q] = "exited"

\* main waits for the three goroutines, then closes RabbitMQ and Kafka.
Shutdown ==
  /\ proc = "stopping"
  /\ AllExited
  /\ Gone
  /\ UNCHANGED faults

Crash ==
  /\ proc # "down" /\ Fault
  /\ Gone

Start ==
  /\ proc = "down"
  /\ proc' = "up" /\ conn' = "up"
  /\ bridge' = At("fetch", 0)
  /\ position' = StartOffset
  /\ worker' = [q \in Queues |-> "running"]
  /\ UNCHANGED <<log, left, committed, rabbit, stuck, sent, handled, swallowed, faults>>

-----------------------------------------------------------------------------
BridgeStep == \/ FetchMessage \/ PublishEmail \/ PublishSms \/ HandlerFails
              \/ CommitMessages \/ CommitFails \/ BridgeExits

WorkerStep(q) ==
  \/ \E j \in Jobs : \/ UnwrapFails(q, j) \/ ProcessJob(q, j)
                     \/ Retry(q, j) \/ DeadLetter(q, j)
  \/ WorkerExits(q)

UnackedStep(q) ==
  \E j \in Jobs : ProcessedUnacked(q, j) \/ RetryUnacked(q, j) \/ DeadLetterUnacked(q, j)

Next ==
  \/ Rebalance
  \/ BridgeStep
  \/ \E q \in Queues : WorkerStep(q) \/ UnackedStep(q)
  \/ Cut \/ Notice
  \/ StopSignal \/ Shutdown \/ Crash \/ Start

Spec == Init /\ [][Next]_vars

\* Goroutines run, a select that finds the context cancelled again and again
\* takes that case at last, and a stopped process is started again.
Fairness ==
  /\ WF_vars(BridgeStep) /\ SF_vars(BridgeExits)
  /\ \A q \in Queues : WF_vars(WorkerStep(q)) /\ SF_vars(WorkerExits(q))
  /\ WF_vars(Shutdown) /\ WF_vars(Start) /\ WF_vars(Notice)

FairSpec == Spec /\ Fairness

-----------------------------------------------------------------------------
(* Properties.                                                             *)

TypeOK ==
  /\ [log |-> log, left |-> left] \in Starts
  /\ committed \in Keys /\ position \in Keys
  /\ bridge \in [pc : {"fetch", "commit", "exited"} \cup Queues, event : Keys]
  /\ conn \in {"up", "cut", "down"}
  /\ held \in [Queues -> [Jobs -> Nat]] /\ stuck \in [Queues -> [Jobs -> Nat]]
  /\ worker \in [Queues -> {"running", "exited"}]
  /\ dlq \in [Queues -> SUBSET Keys]
  /\ proc \in {"up", "stopping", "down"}
  /\ sent \in [Queues -> [Keys -> 0..2]]
  /\ handled \subseteq Offsets
  /\ swallowed \in [Queues -> SUBSET Offsets]
  /\ faults \in 0..MaxFaults

\* A job under this key is with RabbitMQ, was processed or is a dead letter.
Kept(q, k) == \/ \E j \in Jobs : j.key = k /\ held[q][j] > 0
              \/ sent[q][k] > 0
              \/ k \in dlq[q]

\* The service loses no job: a shipment whose handler returned without an error has
\* both its jobs kept, unless a cut connection swallowed them unseen, and a job
\* found in a queue is kept through every retry, ack and restart.
NoJobLost ==
  \A q \in Queues :
    /\ \A n \in handled : log[n] = "created" => Kept(q, n) \/ n \in swallowed[q]
    /\ left[q] # {} => Kept(q, 0)

\* As long as nothing fails, no customer gets the same message twice.
OnceWhileCalm == faults = 0 => \A q \in Queues, k \in Offsets : sent[q][k] <= 1

\* The offset of the group is always that of an event the handler was done with,
\* in this process or an earlier one, however often the topic was read again.
CommitsAreHandled == committed \in handled \cup {0}

Healthy == proc = "up" /\ conn = "up"

\* The commit of a later event passed an event whose handling had failed.
Skipped(n) == n <= committed /\ n \notin handled

\* Once the service and its connection stay up, every shipment announced on the
\* topic reaches the customer by email and by SMS, save those that were skipped and
\* those whose messages a cut connection swallowed.
EventsReachCustomers ==
  <>[]Healthy => <>(\A q \in Queues, n \in Offsets :
                      log[n] = "created" =>
                        sent[q][n] > 0 \/ n \in swallowed[q] \/ Skipped(n))

\* A stop signal stops the process, whatever the workers are doing.
StopEnds == (proc = "stopping") ~> (proc = "down")
=============================================================================
