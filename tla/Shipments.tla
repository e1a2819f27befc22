----------------------------- MODULE Shipments -----------------------------
(***************************************************************************)
(* Creation of shipments and what may be done with them:                   *)
(*   - ShipmentService.CreateShipment, which starts one Temporal workflow  *)
(*     per request key and waits for it,                                   *)
(*   - CreateShipmentWorkflow of the orchestrator: the activities          *)
(*     CallShippoAPI, SaveShipmentToDB and PublishKafkaEvent, each retried *)
(*     by Temporal, and the circuit breaker in front of Shippo,            *)
(*   - the shipments and shipment_outbox rows,                             *)
(*   - Updateshipment and DeleteShipment.                                  *)
(*                                                                         *)
(* Temporal is external: it runs at most one run per workflow id at a      *)
(* time, remembers which activity a run is in, and retries a failed        *)
(* attempt until MaxAttempts.  An attempt may take effect although its     *)
(* answer is lost, and the worker process may die at any moment.           *)
(***************************************************************************)
EXTENDS Naturals

CONSTANTS Keys,         \* stableCreateKey of the requests
          Ids,          \* ids of shipments rows, drawn by the database: numbers here,
                        \* given out in order, for no id differs from another
          Editors,      \* calls of Updateshipment and DeleteShipment
          MaxAttempts,  \* MaximumAttempts of the retry policy (100 in the code)
          Threshold,    \* failures in a row that open the breaker (5 in the code)
          MaxRuns,      \* bound: runs of one key
          MaxCrashes,   \* bound: deaths of the worker process
          None

ASSUME NumbersAssumption == /\ Ids \subseteq Nat
                            /\ MaxAttempts \in Nat \ {0} /\ Threshold \in Nat \ {0}
                            /\ MaxRuns \in Nat /\ MaxCrashes \in Nat
ASSUME NoneAssumption == None \notin Ids

VARIABLES
  run,        \* the run of each key: its step, attempts of the activity, its row
  runs,       \* runs started for each key
  sold,       \* keys for which Shippo has sold a label, once or more
  rows,       \* shipments rows: the status stored, "absent" without a row
  outbox,     \* the event of each row: "none", "pending" or "published"
  handed,     \* history: rows whose event the producer took without an error
  topic,      \* rows whose event Kafka holds, once or more
  fails,      \* shippoCircuit.consecutiveFails
  open,       \* whether shippoCircuit.openUntil lies ahead
  pc,         \* editors: "idle" or "write"
  edit,       \* the row and the status an editor is about to write
  crashes,
  settled     \* history: rows cancelled while no other edit was under way

circuit == <<fails, open>>
editing == <<pc, edit, settled>>
events == <<handed, topic>>
vars == <<run, runs, sold, rows, outbox, events, circuit, editing, crashes>>

-----------------------------------------------------------------------------
\* "PENDING" stands for every status but the two that edits know by name.
Statuses == {"PENDING", "PRE_TRANSIT", "CANCELLED"}

Steps == {"none", "ship", "send", "save", "pop", "publish", "mark", "completed", "failed"}

\* "dims" says whether the request that started the run carries dimensions.
Run(step, dims) == [step |-> step, attempts |-> 0, row |-> None, dims |-> dims]
RunType == [step : Steps, attempts : 0..MaxAttempts, row : Ids \cup {None}, dims : BOOLEAN]

NoEdit == [row |-> None, status |-> "PENDING"]

Init ==
  /\ run = [k \in Keys |-> Run("none", FALSE)]
  /\ runs = [k \in Keys |-> 0]
  /\ sold = {}
  /\ rows = [i \in Ids |-> "absent"]
  /\ outbox = [i \in Ids |-> "none"]
  /\ handed = {}
  /\ topic = {}
  /\ fails = 0
  /\ open = FALSE
  /\ pc = [e \in Editors |-> "idle"]
  /\ edit = [e \in Editors |-> NoEdit]
  /\ crashes = 0
  /\ settled = {}

Running(k) == run[k].step \notin {"none", "completed", "failed"}

-----------------------------------------------------------------------------
(* Temporal.                                                               *)

\* The first step of the activity a step belongs to.
ActivityOf(step) == CASE step \in {"ship", "send"} -> "ship"
                      [] step = "save" -> "save"
                      [] OTHER -> "pop"

Goto(k, step) == run' = [run EXCEPT ![k].step = step]

\* The activity succeeded: the next one starts with attempts of its own.
Proceed(k, r, step) == run' = [run EXCEPT ![k] = [r EXCEPT !.step = step, !.attempts = 0]]

\* Mutant: the attempts of an activity are not counted.
FailedUncounted(r) == [r EXCEPT !.step = ActivityOf(r.step)]

\* What a run becomes when an attempt of its activity failed.
Failed(r) ==
  [r EXCEPT !.step = IF r.attempts + 1 < MaxAttempts THEN ActivityOf(r.step) ELSE "failed",
            !.attempts = @ + 1]

Retry(k) == run' = [run EXCEPT ![k] = Failed(run[k])]

\* CreateShipment: a second request of a running key joins the run and changes
\* nothing; after the run it starts another one.  Requests of one key may differ in
\* their dimensions, and a request from the gRPC handler never has any.
CreateShipment(k, dims) ==
  /\ ~Running(k)
  /\ runs[k] < MaxRuns
  /\ runs' = [runs EXCEPT ![k] = @ + 1]
  /\ run' = [run EXCEPT ![k] = Run("ship", dims)]
  /\ UNCHANGED <<sold, rows, outbox, events, circuit, editing, crashes>>

-----------------------------------------------------------------------------
(* ACTIVITY_CallShippoAPI.                                                 *)

\* The breaker is looked at first, the dimensions next; only then is the request
\* sent, and the breaker may have opened meanwhile.
CheckCircuit(k) ==
  /\ run[k].step = "ship"
  /\ IF open \/ ~run[k].dims THEN Retry(k) ELSE Goto(k, "send")
  /\ UNCHANGED <<runs, sold, rows, outbox, events, circuit, editing, crashes>>

CountFailure ==
  IF fails + 1 >= Threshold THEN open' = TRUE /\ fails' = 0
                            ELSE fails' = fails + 1 /\ UNCHANGED open

CountSuccess == fails' = 0 /\ UNCHANGED open

Buys(k) == sold' = sold \cup {k}

\* A label may be bought and the answer lost, which counts as a failure, or be
\* unreadable, which counts as nothing.
CallShippoAPI(k) ==
  /\ run[k].step = "send"
  /\ \/ Buys(k) /\ CountSuccess /\ Proceed(k, run[k], "save")
     \/ Buys(k) /\ CountFailure /\ Retry(k)
     \/ Buys(k) /\ Retry(k) /\ UNCHANGED circuit
     \/ CountFailure /\ Retry(k) /\ UNCHANGED sold
  /\ UNCHANGED <<runs, rows, outbox, events, editing, crashes>>

CircuitCloses ==
  /\ open
  /\ open' = FALSE
  /\ UNCHANGED <<run, runs, sold, rows, outbox, events, fails, editing, crashes>>

-----------------------------------------------------------------------------
(* ACTIVITY_SaveShipmentToDB and ACTIVITY_PublishKafkaEvent.               *)

\* CreateShipmentWithOutbox: both rows, in one transaction.
Inserted(i, status) == /\ rows' = [rows EXCEPT ![i] = status]
                       /\ outbox' = [outbox EXCEPT ![i] = "pending"]

IsNext(i) == \A j \in Ids : rows[j] = "absent" <=> i <= j

SaveShipmentToDB(k) ==
  /\ run[k].step = "save"
  /\ \/ \E i \in Ids, status \in Statuses :
          /\ IsNext(i)
          /\ Inserted(i, status)
          /\ \/ Proceed(k, [run[k] EXCEPT !.row = i], "pop")
             \/ Retry(k)
     \/ Retry(k) /\ UNCHANGED <<rows, outbox>>
  /\ UNCHANGED <<runs, sold, events, circuit, editing, crashes>>

\* Mutant: an error of the query counts as no event.
PopIgnoresError(k) ==
  /\ run[k].step = "pop"
  /\ \/ outbox[run[k].row] = "pending" /\ Goto(k, "publish")
     \/ Goto(k, "completed")
  /\ UNCHANGED <<runs, sold, rows, outbox, events, circuit, editing, crashes>>

\* Only the pending event of the run's own row is looked for.
PopPendingOutboxEvent(k) ==
  /\ run[k].step = "pop"
  /\ \/ outbox[run[k].row] = "pending" /\ Goto(k, "publish")
     \/ outbox[run[k].row] # "pending" /\ Goto(k, "completed")
     \/ Retry(k)
  /\ UNCHANGED <<runs, sold, rows, outbox, events, circuit, editing, crashes>>

Sent(k) == topic' = topic \cup {run[k].row}

\* Mutant: the event is marked published although the producer refused it.
PublishIgnoresError(k) ==
  /\ run[k].step = "publish"
  /\ Goto(k, "mark")
  /\ Sent(k) \/ UNCHANGED topic
  /\ handed' = handed \/ handed' = handed \cup {run[k].row}
  /\ UNCHANGED <<runs, sold, rows, outbox, circuit, editing, crashes>>

\* The producer asks the brokers for no acknowledgement: it reports success once
\* the event has left, whether or not a broker stored it.
Publish(k) ==
  /\ run[k].step = "publish"
  /\ Sent(k) \/ UNCHANGED topic
  /\ \/ handed' = handed \cup {run[k].row} /\ Goto(k, "mark")
     \/ handed' = handed \cup {run[k].row} /\ Retry(k)
     \/ UNCHANGED handed /\ Retry(k)
  /\ UNCHANGED <<runs, sold, rows, outbox, circuit, editing, crashes>>

Marked(k) == outbox' = [outbox EXCEPT ![run[k].row] = "published"]

MarkOutboxEventPublished(k) ==
  /\ run[k].step = "mark"
  /\ \/ Marked(k) /\ Goto(k, "completed")
     \/ Marked(k) /\ Retry(k)
     \/ Retry(k) /\ UNCHANGED outbox
  /\ UNCHANGED <<runs, sold, rows, events, circuit, editing, crashes>>

\* The worker process dies: every attempt under way times out and is retried, a
\* request on its way may still buy a label, and the breaker starts afresh.
InFlight(k) == run[k].step \in {"send", "publish", "mark"}

Crash ==
  /\ crashes < MaxCrashes
  /\ crashes' = crashes + 1
  /\ run' = [k \in Keys |-> IF InFlight(k) THEN Failed(run[k]) ELSE run[k]]
  /\ \E served \in SUBSET {k \in Keys : run[k].step = "send"} : sold' = sold \cup served
  /\ fails' = 0 /\ open' = FALSE
  /\ UNCHANGED <<runs, rows, outbox, events, editing>>

-----------------------------------------------------------------------------
(* Updateshipment and DeleteShipment: read, check, then write every column. *)

Editable(i) == rows[i] = "PRE_TRANSIT"

Alone(e, i) == \A f \in Editors \ {e} : edit[f].row # i

BeginEdit(e, i, status) ==
  /\ pc[e] = "idle"
  /\ Editable(i)
  /\ pc' = [pc EXCEPT ![e] = "write"]
  /\ edit' = [edit EXCEPT ![e] = [row |-> i, status |-> status]]
  /\ UNCHANGED <<run, runs, sold, rows, outbox, events, circuit, crashes, settled>>

\* Mutant: an update is not checked and writes the status updates start from.
UpdateUnchecked(e, i) ==
  /\ pc[e] = "idle"
  /\ rows[i] # "absent"
  /\ pc' = [pc EXCEPT ![e] = "write"]
  /\ edit' = [edit EXCEPT ![e] = [row |-> i, status |-> "PRE_TRANSIT"]]
  /\ UNCHANGED <<run, runs, sold, rows, outbox, events, circuit, crashes, settled>>

UpdateReads(e, i) == BeginEdit(e, i, rows[i])
DeleteReads(e, i) == BeginEdit(e, i, "CANCELLED")

EndEdit(e) == /\ pc' = [pc EXCEPT ![e] = "idle"]
              /\ edit' = [edit EXCEPT ![e] = NoEdit]
              /\ UNCHANGED <<run, runs, sold, outbox, events, circuit, crashes>>

UpdateShipment(e) ==
  /\ pc[e] = "write"
  /\ LET i == edit[e].row
     IN /\ rows' = [rows EXCEPT ![i] = edit[e].status]
        /\ settled' = IF edit[e].status = "CANCELLED" /\ Alone(e, i)
                        THEN settled \cup {i} ELSE settled
  /\ EndEdit(e)

EditFails(e) ==
  /\ pc[e] = "write"
  /\ UNCHANGED <<rows, settled>>
  /\ EndEdit(e)

-----------------------------------------------------------------------------
Step(k) == \/ CheckCircuit(k) \/ CallShippoAPI(k) \/ SaveShipmentToDB(k)
           \/ PopPendingOutboxEvent(k) \/ Publish(k) \/ MarkOutboxEventPublished(k)

Next ==
  \/ \E k \in Keys : Step(k) \/ \E dims \in BOOLEAN : CreateShipment(k, dims)
  \/ CircuitCloses
  \/ Crash
  \/ \E e \in Editors : \/ UpdateShipment(e) \/ EditFails(e)
                        \/ \E i \in Ids : UpdateReads(e, i) \/ DeleteReads(e, i)

Spec == Init /\ [][Next]_vars

\* Temporal keeps scheduling the activities of a run that has not ended.
Fairness == \A k \in Keys : WF_vars(Step(k))

FairSpec == Spec /\ Fairness

-----------------------------------------------------------------------------
(* Properties.                                                             *)

TypeOK ==
  /\ run \in [Keys -> RunType]
  /\ runs \in [Keys -> 0..MaxRuns]
  /\ sold \subseteq Keys
  /\ rows \in [Ids -> Statuses \cup {"absent"}]
  /\ outbox \in [Ids -> {"none", "pending", "published"}]
  /\ handed \subseteq Ids
  /\ topic \subseteq Ids
  /\ fails \in 0..(Threshold - 1)
  /\ open \in BOOLEAN
  /\ pc \in [Editors -> {"idle", "write"}]
  /\ edit \in [Editors -> [row : Ids \cup {None}, status : Statuses]]
  /\ crashes \in 0..MaxCrashes
  /\ settled \subseteq Ids

\* What the outbox is for: an event that reached Kafka belongs to a stored
\* shipment, and an event marked published did go out through the producer, whichever
\* answers were lost and wherever the worker died.
OutboxIsTruthful ==
  \A i \in Ids : /\ i \in topic \cup handed => rows[i] # "absent"
                 /\ outbox[i] = "published" => i \in handed

\* A caller of CreateShipment that gets a shipment gets one that is stored, paid
\* for at the carrier, and whose event went out through the producer at least once.
CompletedMeansHandedOver ==
  \A k \in Keys : run[k].step = "completed" =>
    /\ run[k].row # None
    /\ rows[run[k].row] # "absent"
    /\ run[k].row \in handed
    /\ k \in sold

\* A shipment cancelled while no other edit of it was under way stays cancelled.
CancelledForGood == \A i \in settled : rows[i] = "CANCELLED"

\* Every run ends, and its callers get an answer: a retry does not go on for ever,
\* whatever fails and however often the breaker refuses.
EveryRunEnds == \A k \in Keys : Running(k) ~> ~Running(k)
=============================================================================
