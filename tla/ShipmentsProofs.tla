-------------------------- MODULE ShipmentsProofs --------------------------
(***************************************************************************)
(* Proofs about Shipments, for any number of requests, rows and editors,   *)
(* any retry policy and any threshold of the breaker.                      *)
(***************************************************************************)
EXTENDS Shipments, TLAPS

(***************************************************************************)
(* The inductive invariant.  RunInv: an activity under way has an attempt  *)
(* left, and what the activities before it have done is still there.       *)
(* OutboxInv: a shipment and its event are stored together, what Kafka or  *)
(* the producer was given is stored, and what the outbox calls published   *)
(* was given to the producer.  EditInv: an editor about to write has read  *)
(* a row, and nobody is about to overwrite a row cancelled for good.       *)
(***************************************************************************)
Sound(k, r) ==
  /\ r.step \notin {"none", "completed", "failed"} => r.attempts < MaxAttempts
  /\ r.step \in {"save", "pop", "publish", "mark", "completed"} => k \in sold
  /\ r.step \in {"pop", "publish", "mark", "completed"} =>
       r.row \in Ids /\ rows[r.row] # "absent"
  /\ r.step \in {"mark", "completed"} => r.row \in handed

RunInv == \A k \in Keys : Sound(k, run[k])

OutboxInv ==
  \A i \in Ids : /\ rows[i] = "absent" <=> outbox[i] = "none"
                 /\ i \in topic \cup handed => rows[i] # "absent"
                 /\ outbox[i] = "published" => i \in handed

EditInv ==
  /\ \A e \in Editors : IF pc[e] = "write"
                           THEN edit[e].row \in Ids /\ rows[edit[e].row] # "absent"
                           ELSE edit[e] = NoEdit
  /\ \A i \in settled : /\ rows[i] = "CANCELLED"
                        /\ \A e \in Editors : edit[e].row # i

IInv == TypeOK /\ RunInv /\ OutboxInv /\ EditInv

-----------------------------------------------------------------------------
(* What Temporal does to a run.                                            *)

\* Rows, labels and events are never taken back.
Grows == /\ sold \subseteq sold' /\ handed \subseteq handed'
         /\ \A i \in Ids : rows[i] # "absent" => rows'[i] # "absent"

LEMMA SoundGrows ==
  ASSUME Grows, NEW k, NEW r, Sound(k, r)
  PROVE  Sound(k, r)'
  BY DEF Grows, Sound

LEMMA RunBecomes ==
  ASSUME TypeOK, RunInv, Grows, NEW k \in Keys, NEW r \in RunType,
         run' = [run EXCEPT ![k] = r], Sound(k, r)'
  PROVE  run' \in [Keys -> RunType] /\ RunInv'
<1>1. run' \in [Keys -> RunType] /\ run'[k] = r /\ \A l \in Keys \ {k} : run'[l] = run[l]
  BY DEF TypeOK
<1>2. ASSUME NEW l \in Keys PROVE Sound(l, run[l])'
  <2>1. CASE l = k
    BY <1>1, <2>1 DEF Sound
  <2>2. CASE l # k
    <3>1. Sound(l, run[l])
      BY DEF RunInv
    <3>2. QED
      BY <1>1, <2>2, <3>1 DEF Sound, Grows
  <2>3. QED
    BY <2>1, <2>2
<1>3. QED
  BY <1>1, <1>2 DEF RunInv

LEMMA RunStays ==
  ASSUME TypeOK, RunInv, Grows, UNCHANGED run
  PROVE  run' \in [Keys -> RunType] /\ RunInv'
  BY DEF TypeOK, RunInv, Sound, Grows

\* A failed attempt falls back to the start of its activity.
LEMMA FailedIsSound ==
  ASSUME NEW k, NEW r \in RunType, Sound(k, r), r.step \notin {"none", "completed", "failed"}
  PROVE  Failed(r) \in RunType /\ Sound(k, Failed(r))
<1>1. r.attempts \in Nat /\ r.attempts < MaxAttempts
  BY NumbersAssumption DEF RunType, Sound
<1>2. ActivityOf(r.step) \in {"ship", "save", "pop"}
  BY DEF ActivityOf
<1>3. /\ Failed(r).step = IF r.attempts + 1 < MaxAttempts THEN ActivityOf(r.step) ELSE "failed"
      /\ Failed(r).attempts = r.attempts + 1 /\ Failed(r).row = r.row
      /\ Failed(r) \in RunType
  <2>1. r.attempts + 1 \in 0..MaxAttempts
    BY <1>1, NumbersAssumption
  <2>2. PICK step \in Steps :
          step = IF r.attempts + 1 < MaxAttempts THEN ActivityOf(r.step) ELSE "failed"
    BY <1>2 DEF Steps
  <2>3. Failed(r) = [r EXCEPT !.step = step, !.attempts = @ + 1]
    BY <2>2 DEF Failed
  <2>4. QED
    BY <2>1, <2>2, <2>3 DEF RunType
<1>4. /\ ActivityOf(r.step) = "save" => r.step = "save"
      /\ ActivityOf(r.step) = "pop" => r.step \in {"pop", "publish", "mark"}
  BY DEF ActivityOf, RunType, Steps
<1>5. QED
  BY <1>2, <1>3, <1>4 DEF Sound

LEMMA RetryKeeps ==
  ASSUME TypeOK, RunInv, Grows, NEW k \in Keys, Running(k), Retry(k)
  PROVE  run' \in [Keys -> RunType] /\ RunInv'
<1>1. run[k] \in RunType /\ Sound(k, run[k])
  BY DEF TypeOK, RunInv
<1>2. PICK r : r = Failed(run[k])
  OBVIOUS
<1>3. r \in RunType /\ Sound(k, r)
  BY <1>1, <1>2, FailedIsSound DEF Running
<1>4. run' = [run EXCEPT ![k] = r]
  BY <1>2 DEF Retry
<1>5. QED
  BY <1>3, <1>4, SoundGrows, RunBecomes

LEMMA GotoKeeps ==
  ASSUME TypeOK, RunInv, Grows, NEW k \in Keys, NEW step \in Steps, Running(k), Goto(k, step),
         /\ step \in {"save", "pop", "publish", "mark", "completed"} => k \in sold'
         /\ step \in {"pop", "publish", "mark", "completed"} =>
              run[k].row \in Ids /\ rows'[run[k].row] # "absent"
         /\ step \in {"mark", "completed"} => run[k].row \in handed'
  PROVE  run' \in [Keys -> RunType] /\ RunInv'
<1>1. PICK r : r = [run[k] EXCEPT !.step = step]
  OBVIOUS
<1>2. run[k] \in RunType /\ Sound(k, run[k])
  BY DEF TypeOK, RunInv
<1>3. r \in RunType /\ r.step = step /\ r.attempts = run[k].attempts /\ r.row = run[k].row
  BY <1>1, <1>2 DEF RunType
<1>4. Sound(k, r)'
  BY <1>2, <1>3 DEF Sound, Running
<1>5. run' = [run EXCEPT ![k] = r]
  BY <1>1 DEF Goto, TypeOK
<1>6. QED
  BY <1>3, <1>4, <1>5, RunBecomes

LEMMA ProceedKeeps ==
  ASSUME TypeOK, RunInv, Grows, NEW k \in Keys, NEW s \in RunType, NEW step \in {"save", "pop"},
         Proceed(k, s, step), k \in sold',
         step = "pop" => s.row \in Ids /\ rows'[s.row] # "absent"
  PROVE  run' \in [Keys -> RunType] /\ RunInv'
<1>1. PICK r : r = [s EXCEPT !.step = step, !.attempts = 0]
  OBVIOUS
<1>2. r \in RunType /\ r.step = step /\ r.attempts = 0 /\ r.row = s.row
  <2>1. step \in Steps /\ 0 \in 0..MaxAttempts
    BY NumbersAssumption DEF Steps
  <2>2. QED
    BY <1>1, <2>1 DEF RunType
<1>3. Sound(k, r)'
  BY <1>2, NumbersAssumption DEF Sound
<1>4. run' = [run EXCEPT ![k] = r]
  BY <1>1 DEF Proceed
<1>5. QED
  BY <1>2, <1>3, <1>4, RunBecomes

\* A row is stored under an id that has none.
LEMMA SaveEffect ==
  ASSUME TypeOK, NEW i \in Ids, NEW status \in Statuses, IsNext(i), Inserted(i, status)
  PROVE  /\ rows[i] = "absent" /\ rows'[i] = status /\ outbox'[i] = "pending"
         /\ \A l \in Ids \ {i} : rows'[l] = rows[l] /\ outbox'[l] = outbox[l]
         /\ rows' \in [Ids -> Statuses \cup {"absent"}]
         /\ outbox' \in [Ids -> {"none", "pending", "published"}]
<1>1. rows[i] = "absent"
  BY NumbersAssumption DEF IsNext
<1>2. QED
  BY <1>1 DEF TypeOK, Inserted

LEMMA StatusIsNotAbsent == "absent" \notin Statuses
  BY DEF Statuses

-----------------------------------------------------------------------------
(* Every step keeps the invariant.                                         *)

LEMMA StepGrows ==
  ASSUME IInv, [Next]_vars
  PROVE  Grows
<1>1. ASSUME NEW k \in Keys, CheckCircuit(k)
      PROVE  Grows
  BY <1>1 DEF CheckCircuit, Grows, vars, circuit, editing, events
<1>2. ASSUME NEW k \in Keys, CallShippoAPI(k)
      PROVE  Grows
  BY <1>2 DEF CallShippoAPI, Buys, Grows, events
<1>3. ASSUME NEW k \in Keys, SaveShipmentToDB(k)
      PROVE  Grows
  <2>1. CASE UNCHANGED rows
    BY <1>3, <2>1 DEF SaveShipmentToDB, Grows, events
  <2>2. CASE ~UNCHANGED rows
    <3>1. PICK i \in Ids, status \in Statuses : IsNext(i) /\ Inserted(i, status)
      BY <1>3, <2>2 DEF SaveShipmentToDB, Statuses, events
    <3>2. \A l \in Ids : rows[l] # "absent" => rows'[l] # "absent"
      BY <3>1, SaveEffect DEF IInv
    <3>3. QED
      BY <1>3, <3>2 DEF SaveShipmentToDB, Grows, events
  <2>3. QED
    BY <2>1, <2>2
<1>4. ASSUME NEW k \in Keys, PopPendingOutboxEvent(k)
      PROVE  Grows
  BY <1>4 DEF PopPendingOutboxEvent, Grows, vars, circuit, editing, events
<1>5. ASSUME NEW k \in Keys, Publish(k)
      PROVE  Grows
  BY <1>5 DEF Publish, Grows
<1>6. ASSUME NEW k \in Keys, MarkOutboxEventPublished(k)
      PROVE  Grows
  BY <1>6 DEF MarkOutboxEventPublished, Grows, vars, circuit, editing, events
<1>7. ASSUME NEW k \in Keys, NEW dims \in BOOLEAN, CreateShipment(k, dims)
      PROVE  Grows
  BY <1>7 DEF CreateShipment, Grows, vars, circuit, editing, events
<1>8. ASSUME CircuitCloses
      PROVE  Grows
  BY <1>8 DEF CircuitCloses, Grows, vars, circuit, editing, events
<1>9. ASSUME Crash
      PROVE  Grows
  BY <1>9 DEF Crash, editing, Grows, events
<1>10. ASSUME NEW e \in Editors, UpdateShipment(e)
      PROVE  Grows
  BY <1>10, StatusIsNotAbsent DEF UpdateShipment, EndEdit, Grows, IInv, TypeOK, EditInv, events
<1>11. ASSUME NEW e \in Editors, EditFails(e)
      PROVE  Grows
  BY <1>11 DEF EditFails, EndEdit, Grows, events
<1>12. ASSUME NEW e \in Editors, NEW i \in Ids, UpdateReads(e, i)
      PROVE  Grows
  BY <1>12 DEF UpdateReads, BeginEdit, Grows, events
<1>13. ASSUME NEW e \in Editors, NEW i \in Ids, DeleteReads(e, i)
      PROVE  Grows
  BY <1>13 DEF DeleteReads, BeginEdit, Grows, events
<1>14. ASSUME UNCHANGED vars
      PROVE  Grows
  BY <1>14 DEF Grows, vars, events
<1>15. QED
  BY <1>1, <1>2, <1>3, <1>4, <1>5, <1>6, <1>7, <1>8, <1>9, <1>10, <1>11, <1>12, <1>13, <1>14
     DEF Next, Step

LEMMA RunStep ==
  ASSUME IInv, [Next]_vars
  PROVE  run' \in [Keys -> RunType] /\ RunInv'
<1>1. ASSUME NEW k \in Keys, CheckCircuit(k)
      PROVE  run' \in [Keys -> RunType] /\ RunInv'
  <2>1. Grows /\ TypeOK /\ RunInv
    BY StepGrows DEF IInv
  <2>2. run[k].step = "ship" /\ Running(k) /\ Sound(k, run[k])
    BY <1>1, <2>1 DEF CheckCircuit, Running, RunInv, events
  <2>3. CASE Retry(k)
    BY <2>1, <2>2, <2>3, RetryKeeps
  <2>4. CASE Goto(k, "send")
    <3>1. "send" \in Steps
      BY DEF Steps
    <3>2. QED
      BY <2>1, <2>2, <2>4, <3>1, GotoKeeps
  <2>5. QED
    BY <1>1, <2>3, <2>4 DEF CheckCircuit, events
<1>2. ASSUME NEW k \in Keys, CallShippoAPI(k)
      PROVE  run' \in [Keys -> RunType] /\ RunInv'
  <2>1. Grows /\ TypeOK /\ RunInv
    BY StepGrows DEF IInv
  <2>2. run[k].step = "send" /\ Running(k) /\ Sound(k, run[k])
    BY <1>2, <2>1 DEF CallShippoAPI, Running, RunInv, events
  <2>3. CASE Retry(k)
    BY <2>1, <2>2, <2>3, RetryKeeps
  <2>4. CASE Buys(k) /\ Proceed(k, run[k], "save")
    <3>1. run[k] \in RunType /\ k \in sold'
      BY <2>1, <2>4 DEF TypeOK, Buys
    <3>2. QED
      BY <2>1, <2>4, <3>1, ProceedKeeps
  <2>5. QED
    BY <1>2, <2>3, <2>4 DEF CallShippoAPI, events
<1>3. ASSUME NEW k \in Keys, SaveShipmentToDB(k)
      PROVE  run' \in [Keys -> RunType] /\ RunInv'
  <2>1. Grows /\ TypeOK /\ RunInv
    BY StepGrows DEF IInv
  <2>2. run[k].step = "save" /\ Running(k) /\ Sound(k, run[k])
    BY <1>3, <2>1 DEF SaveShipmentToDB, Running, RunInv, events
  <2>3. CASE Retry(k)
    BY <2>1, <2>2, <2>3, RetryKeeps
  <2>4. CASE ~Retry(k)
    <3>1. PICK i \in Ids, status \in Statuses :
            /\ IsNext(i) /\ Inserted(i, status)
            /\ Proceed(k, [run[k] EXCEPT !.row = i], "pop")
      BY <1>3, <2>4 DEF SaveShipmentToDB, Statuses, events
    <3>2. PICK s : s = [run[k] EXCEPT !.row = i]
      OBVIOUS
    <3>3. s \in RunType /\ s.row = i
      BY <2>1, <3>2 DEF TypeOK, RunType
    <3>4. rows'[i] # "absent"
      BY <2>1, <3>1, SaveEffect, StatusIsNotAbsent
    <3>5. k \in sold'
      BY <2>1, <2>2 DEF Sound, Grows
    <3>6. QED
      BY <2>1, <3>1, <3>2, <3>3, <3>4, <3>5, ProceedKeeps
  <2>5. QED
    BY <2>3, <2>4
<1>4. ASSUME NEW k \in Keys, PopPendingOutboxEvent(k)
      PROVE  run' \in [Keys -> RunType] /\ RunInv'
  <2>1. Grows /\ TypeOK /\ RunInv
    BY StepGrows DEF IInv
  <2>2. run[k].step = "pop" /\ Running(k) /\ Sound(k, run[k])
    BY <1>4, <2>1 DEF PopPendingOutboxEvent, Running, RunInv, events
  <2>3. CASE Retry(k)
    BY <2>1, <2>2, <2>3, RetryKeeps
  <2>4. /\ run[k].row \in Ids /\ rows'[run[k].row] # "absent" /\ k \in sold'
        /\ {"publish", "completed"} \subseteq Steps
    BY <2>1, <2>2 DEF Sound, Grows, Steps
  <2>5. CASE Goto(k, "publish")
    BY <2>1, <2>2, <2>4, <2>5, GotoKeeps
  <2>6. CASE Goto(k, "completed") /\ outbox[run[k].row] # "pending"
    <3>1. outbox[run[k].row] = "published"
      BY <2>2, <2>6 DEF Sound, IInv, TypeOK, OutboxInv
    <3>2. run[k].row \in handed'
      BY <2>1, <2>4, <3>1 DEF IInv, OutboxInv, Grows
    <3>3. QED
      BY <2>1, <2>2, <2>4, <2>6, <3>2, GotoKeeps
  <2>7. QED
    BY <1>4, <2>3, <2>5, <2>6 DEF PopPendingOutboxEvent, events
<1>5. ASSUME NEW k \in Keys, Publish(k)
      PROVE  run' \in [Keys -> RunType] /\ RunInv'
  <2>1. Grows /\ TypeOK /\ RunInv
    BY StepGrows DEF IInv
  <2>2. run[k].step = "publish" /\ Running(k) /\ Sound(k, run[k])
    BY <1>5, <2>1 DEF Publish, Running, RunInv
  <2>3. CASE Retry(k)
    BY <2>1, <2>2, <2>3, RetryKeeps
  <2>4. CASE handed' = handed \cup {run[k].row} /\ Goto(k, "mark")
    <3>1. /\ run[k].row \in Ids /\ rows'[run[k].row] # "absent" /\ k \in sold'
          /\ run[k].row \in handed' /\ "mark" \in Steps
      BY <2>1, <2>2, <2>4 DEF Sound, Grows, Steps
    <3>2. QED
      BY <2>1, <2>2, <2>4, <3>1, GotoKeeps
  <2>5. QED
    BY <1>5, <2>3, <2>4 DEF Publish
<1>6. ASSUME NEW k \in Keys, MarkOutboxEventPublished(k)
      PROVE  run' \in [Keys -> RunType] /\ RunInv'
  <2>1. Grows /\ TypeOK /\ RunInv
    BY StepGrows DEF IInv
  <2>2. run[k].step = "mark" /\ Running(k) /\ Sound(k, run[k])
    BY <1>6, <2>1 DEF MarkOutboxEventPublished, Running, RunInv, events
  <2>3. CASE Retry(k)
    BY <2>1, <2>2, <2>3, RetryKeeps
  <2>4. CASE Goto(k, "completed")
    <3>1. /\ run[k].row \in Ids /\ rows'[run[k].row] # "absent" /\ k \in sold'
          /\ run[k].row \in handed' /\ "completed" \in Steps
      BY <2>1, <2>2 DEF Sound, Grows, Steps
    <3>2. QED
      BY <2>1, <2>2, <2>4, <3>1, GotoKeeps
  <2>5. QED
    BY <1>6, <2>3, <2>4 DEF MarkOutboxEventPublished, events
<1>7. ASSUME NEW k \in Keys, NEW dims \in BOOLEAN, CreateShipment(k, dims)
      PROVE  run' \in [Keys -> RunType] /\ RunInv'
  <2>1. Grows /\ TypeOK /\ RunInv
    BY StepGrows DEF IInv
  <2>2. PICK r : r = Run("ship", dims)
    OBVIOUS
  <2>3. r \in RunType /\ Sound(k, r)'
    BY <2>2, NumbersAssumption DEF Run, RunType, Steps, Sound
  <2>4. run' = [run EXCEPT ![k] = r]
    BY <1>7, <2>2 DEF CreateShipment, events
  <2>5. QED
    BY <2>1, <2>3, <2>4, RunBecomes
<1>8. ASSUME CircuitCloses
      PROVE  run' \in [Keys -> RunType] /\ RunInv'
  <2>1. Grows /\ TypeOK /\ RunInv
    BY StepGrows DEF IInv
  <2>2. QED
    BY <1>8, <2>1, RunStays DEF CircuitCloses, events
<1>9. ASSUME Crash
      PROVE  run' \in [Keys -> RunType] /\ RunInv'
  <2>1. Grows /\ TypeOK /\ RunInv
    BY StepGrows DEF IInv
  <2>2. \A k \in Keys : run[k] \in RunType /\ Sound(k, run[k])
    BY <2>1 DEF TypeOK, RunInv
  <2>3. ASSUME NEW k \in Keys PROVE run'[k] \in RunType /\ Sound(k, run'[k])
    <3>1. CASE InFlight(k)
      <4>1. run'[k] = Failed(run[k]) /\ run[k].step \notin {"none", "completed", "failed"}
        BY <1>9, <3>1 DEF Crash, InFlight, events
      <4>2. QED
        BY <2>2, <4>1, FailedIsSound
    <3>2. CASE ~InFlight(k)
      BY <1>9, <2>2, <3>2 DEF Crash, events
    <3>3. QED
      BY <3>1, <3>2
  <2>4. run' \in [Keys -> RunType]
    BY <1>9, <2>3 DEF Crash, events
  <2>5. RunInv'
    BY <2>1, <2>3 DEF RunInv, Sound, Grows
  <2>6. QED
    BY <2>4, <2>5
<1>10. ASSUME NEW e \in Editors, UpdateShipment(e)
      PROVE  run' \in [Keys -> RunType] /\ RunInv'
  <2>1. Grows /\ TypeOK /\ RunInv
    BY StepGrows DEF IInv
  <2>2. QED
    BY <1>10, <2>1, RunStays DEF UpdateShipment, EndEdit, events
<1>11. ASSUME NEW e \in Editors, EditFails(e)
      PROVE  run' \in [Keys -> RunType] /\ RunInv'
  <2>1. Grows /\ TypeOK /\ RunInv
    BY StepGrows DEF IInv
  <2>2. QED
    BY <1>11, <2>1, RunStays DEF EditFails, EndEdit, events
<1>12. ASSUME NEW e \in Editors, NEW i \in Ids, UpdateReads(e, i)
      PROVE  run' \in [Keys -> RunType] /\ RunInv'
  <2>1. Grows /\ TypeOK /\ RunInv
    BY StepGrows DEF IInv
  <2>2. QED
    BY <1>12, <2>1, RunStays DEF UpdateReads, BeginEdit, events
<1>13. ASSUME NEW e \in Editors, NEW i \in Ids, DeleteReads(e, i)
      PROVE  run' \in [Keys -> RunType] /\ RunInv'
  <2>1. Grows /\ TypeOK /\ RunInv
    BY StepGrows DEF IInv
  <2>2. QED
    BY <1>13, <2>1, RunStays DEF DeleteReads, BeginEdit, events
<1>14. ASSUME UNCHANGED vars
      PROVE  run' \in [Keys -> RunType] /\ RunInv'
  <2>1. Grows /\ TypeOK /\ RunInv
    BY StepGrows DEF IInv
  <2>2. QED
    BY <1>14, <2>1, RunStays DEF vars, events
<1>15. QED
  BY <1>1, <1>2, <1>3, <1>4, <1>5, <1>6, <1>7, <1>8, <1>9, <1>10, <1>11, <1>12, <1>13, <1>14
     DEF Next, Step

LEMMA OutboxStep ==
  ASSUME IInv, [Next]_vars
  PROVE  OutboxInv'
<1>1. ASSUME NEW k \in Keys, CheckCircuit(k)
      PROVE  OutboxInv'
  <2>1. UNCHANGED <<rows, outbox, handed, topic>>
    BY <1>1 DEF CheckCircuit, events
  <2>2. QED
    BY <2>1 DEF IInv, OutboxInv
<1>2. ASSUME NEW k \in Keys, CallShippoAPI(k)
      PROVE  OutboxInv'
  <2>1. UNCHANGED <<rows, outbox, handed, topic>>
    BY <1>2 DEF CallShippoAPI, events
  <2>2. QED
    BY <2>1 DEF IInv, OutboxInv
<1>3. ASSUME NEW k \in Keys, SaveShipmentToDB(k)
      PROVE  OutboxInv'
  <2>1. CASE UNCHANGED <<rows, outbox>>
    BY <1>3, <2>1 DEF SaveShipmentToDB, IInv, OutboxInv, events
  <2>2. CASE ~UNCHANGED <<rows, outbox>>
    <3>1. PICK i \in Ids, status \in Statuses : IsNext(i) /\ Inserted(i, status)
      BY <1>3, <2>2 DEF SaveShipmentToDB, Statuses, events
    <3>2. /\ rows[i] = "absent" /\ rows'[i] # "absent" /\ outbox'[i] = "pending"
          /\ \A l \in Ids \ {i} : rows'[l] = rows[l] /\ outbox'[l] = outbox[l]
      BY <3>1, SaveEffect, StatusIsNotAbsent DEF IInv
    <3>3. UNCHANGED <<handed, topic>>
      BY <1>3 DEF SaveShipmentToDB, events
    <3>4. QED
      BY <3>2, <3>3 DEF IInv, OutboxInv
  <2>3. QED
    BY <2>1, <2>2
<1>4. ASSUME NEW k \in Keys, PopPendingOutboxEvent(k)
      PROVE  OutboxInv'
  <2>1. UNCHANGED <<rows, outbox, handed, topic>>
    BY <1>4 DEF PopPendingOutboxEvent, events
  <2>2. QED
    BY <2>1 DEF IInv, OutboxInv
<1>5. ASSUME NEW k \in Keys, Publish(k)
      PROVE  OutboxInv'
  <2>1. run[k].row \in Ids /\ rows[run[k].row] # "absent"
    BY <1>5 DEF Publish, IInv, RunInv, Sound
  <2>2. /\ UNCHANGED <<rows, outbox>>
        /\ topic' \subseteq topic \cup {run[k].row}
        /\ handed' \subseteq handed \cup {run[k].row} /\ handed \subseteq handed'
    BY <1>5 DEF Publish, Sent
  <2>3. QED
    BY <2>1, <2>2 DEF IInv, OutboxInv
<1>6. ASSUME NEW k \in Keys, MarkOutboxEventPublished(k)
      PROVE  OutboxInv'
  <2>1. run[k].row \in Ids /\ rows[run[k].row] # "absent" /\ run[k].row \in handed
    BY <1>6 DEF MarkOutboxEventPublished, IInv, RunInv, Sound, events
  <2>2. UNCHANGED <<rows, handed, topic>>
    BY <1>6 DEF MarkOutboxEventPublished, events
  <2>3. \A i \in Ids : outbox'[i] # outbox[i] => i = run[k].row /\ outbox'[i] = "published"
    BY <1>6, <2>1 DEF MarkOutboxEventPublished, Marked, IInv, TypeOK, events
  <2>4. QED
    BY <2>1, <2>2, <2>3 DEF IInv, OutboxInv
<1>7. ASSUME NEW k \in Keys, NEW dims \in BOOLEAN, CreateShipment(k, dims)
      PROVE  OutboxInv'
  <2>1. UNCHANGED <<rows, outbox, handed, topic>>
    BY <1>7 DEF CreateShipment, events
  <2>2. QED
    BY <2>1 DEF IInv, OutboxInv
<1>8. ASSUME CircuitCloses
      PROVE  OutboxInv'
  <2>1. UNCHANGED <<rows, outbox, handed, topic>>
    BY <1>8 DEF CircuitCloses, events
  <2>2. QED
    BY <2>1 DEF IInv, OutboxInv
<1>9. ASSUME Crash
      PROVE  OutboxInv'
  <2>1. UNCHANGED <<rows, outbox, handed, topic>>
    BY <1>9 DEF Crash, events
  <2>2. QED
    BY <2>1 DEF IInv, OutboxInv
<1>10. ASSUME NEW e \in Editors, UpdateShipment(e)
      PROVE  OutboxInv'
  <2>1. edit[e].row \in Ids /\ rows[edit[e].row] # "absent" /\ edit[e].status # "absent"
    BY <1>10, StatusIsNotAbsent DEF UpdateShipment, IInv, EditInv, TypeOK
  <2>2. UNCHANGED <<outbox, handed, topic>>
    BY <1>10 DEF UpdateShipment, EndEdit, events
  <2>3. \A i \in Ids : rows'[i] = IF i = edit[e].row THEN edit[e].status ELSE rows[i]
    BY <1>10 DEF UpdateShipment, IInv, TypeOK
  <2>4. QED
    BY <2>1, <2>2, <2>3 DEF IInv, OutboxInv
<1>11. ASSUME NEW e \in Editors, EditFails(e)
      PROVE  OutboxInv'
  <2>1. UNCHANGED <<rows, outbox, handed, topic>>
    BY <1>11 DEF EditFails, EndEdit, events
  <2>2. QED
    BY <2>1 DEF IInv, OutboxInv
<1>12. ASSUME NEW e \in Editors, NEW i \in Ids, UpdateReads(e, i)
      PROVE  OutboxInv'
  <2>1. UNCHANGED <<rows, outbox, handed, topic>>
    BY <1>12 DEF UpdateReads, BeginEdit, events
  <2>2. QED
    BY <2>1 DEF IInv, OutboxInv
<1>13. ASSUME NEW e \in Editors, NEW i \in Ids, DeleteReads(e, i)
      PROVE  OutboxInv'
  <2>1. UNCHANGED <<rows, outbox, handed, topic>>
    BY <1>13 DEF DeleteReads, BeginEdit, events
  <2>2. QED
    BY <2>1 DEF IInv, OutboxInv
<1>14. ASSUME UNCHANGED vars
      PROVE  OutboxInv'
  <2>1. UNCHANGED <<rows, outbox, handed, topic>>
    BY <1>14 DEF vars, events
  <2>2. QED
    BY <2>1 DEF IInv, OutboxInv
<1>15. QED
  BY <1>1, <1>2, <1>3, <1>4, <1>5, <1>6, <1>7, <1>8, <1>9, <1>10, <1>11, <1>12, <1>13, <1>14
     DEF Next, Step

LEMMA EditStep ==
  ASSUME IInv, [Next]_vars
  PROVE  EditInv'
<1>1. ASSUME NEW k \in Keys, CheckCircuit(k)
      PROVE  EditInv'
  <2>1. UNCHANGED <<rows, pc, edit, settled>>
    BY <1>1 DEF CheckCircuit, editing, events
  <2>2. QED
    BY <2>1 DEF IInv, EditInv
<1>2. ASSUME NEW k \in Keys, CallShippoAPI(k)
      PROVE  EditInv'
  <2>1. UNCHANGED <<rows, pc, edit, settled>>
    BY <1>2 DEF CallShippoAPI, editing, events
  <2>2. QED
    BY <2>1 DEF IInv, EditInv
<1>3. ASSUME NEW k \in Keys, SaveShipmentToDB(k)
      PROVE  EditInv'
  <2>1. UNCHANGED <<pc, edit, settled>>
    BY <1>3 DEF SaveShipmentToDB, editing, events
  <2>2. \A i \in Ids : rows[i] # "absent" => rows'[i] = rows[i]
    <3>1. CASE UNCHANGED rows
      BY <3>1
    <3>2. CASE ~UNCHANGED rows
      <4>1. PICK i \in Ids, status \in Statuses : IsNext(i) /\ Inserted(i, status)
        BY <1>3, <3>2 DEF SaveShipmentToDB, Statuses, events
      <4>2. QED
        BY <4>1, SaveEffect DEF IInv
    <3>3. QED
      BY <3>1, <3>2
  <2>3. settled \subseteq Ids
    BY DEF IInv, TypeOK
  <2>4. QED
    BY <2>1, <2>2, <2>3 DEF IInv, EditInv
<1>4. ASSUME NEW k \in Keys, PopPendingOutboxEvent(k)
      PROVE  EditInv'
  <2>1. UNCHANGED <<rows, pc, edit, settled>>
    BY <1>4 DEF PopPendingOutboxEvent, editing, events
  <2>2. QED
    BY <2>1 DEF IInv, EditInv
<1>5. ASSUME NEW k \in Keys, Publish(k)
      PROVE  EditInv'
  <2>1. UNCHANGED <<rows, pc, edit, settled>>
    BY <1>5 DEF Publish, editing
  <2>2. QED
    BY <2>1 DEF IInv, EditInv
<1>6. ASSUME NEW k \in Keys, MarkOutboxEventPublished(k)
      PROVE  EditInv'
  <2>1. UNCHANGED <<rows, pc, edit, settled>>
    BY <1>6 DEF MarkOutboxEventPublished, editing, events
  <2>2. QED
    BY <2>1 DEF IInv, EditInv
<1>7. ASSUME NEW k \in Keys, NEW dims \in BOOLEAN, CreateShipment(k, dims)
      PROVE  EditInv'
  <2>1. UNCHANGED <<rows, pc, edit, settled>>
    BY <1>7 DEF CreateShipment, editing, events
  <2>2. QED
    BY <2>1 DEF IInv, EditInv
<1>8. ASSUME CircuitCloses
      PROVE  EditInv'
  <2>1. UNCHANGED <<rows, pc, edit, settled>>
    BY <1>8 DEF CircuitCloses, editing, events
  <2>2. QED
    BY <2>1 DEF IInv, EditInv
<1>9. ASSUME Crash
      PROVE  EditInv'
  <2>1. UNCHANGED <<rows, pc, edit, settled>>
    BY <1>9 DEF Crash, editing, events
  <2>2. QED
    BY <2>1 DEF IInv, EditInv
<1>10. ASSUME NEW e \in Editors, UpdateShipment(e)
      PROVE  EditInv'
  <2>1. /\ pc'[e] = "idle" /\ edit'[e] = NoEdit
        /\ \A f \in Editors \ {e} : pc'[f] = pc[f] /\ edit'[f] = edit[f]
    BY <1>10 DEF UpdateShipment, EndEdit, IInv, TypeOK, events
  <2>2. \A i \in Ids : edit'[e].row # i
    BY <2>1, NoneAssumption DEF NoEdit
  <2>3. settled \subseteq Ids
    BY DEF IInv, TypeOK
  <2>4. PICK i \in Ids : i = edit[e].row /\ rows[i] # "absent"
    BY <1>10 DEF UpdateShipment, IInv, EditInv
  <2>5. /\ rows'[i] = edit[e].status /\ rows'[i] # "absent"
        /\ \A l \in Ids \ {i} : rows'[l] = rows[l]
    BY <1>10, <2>4, StatusIsNotAbsent DEF UpdateShipment, IInv, TypeOK
  <2>6. /\ settled \subseteq settled' /\ settled' \subseteq settled \cup {i}
        /\ i \in settled' => i \in settled \/ (edit[e].status = "CANCELLED" /\ Alone(e, i))
    BY <1>10, <2>4 DEF UpdateShipment
  <2>7. i \notin settled
    BY <2>4 DEF IInv, EditInv
  <2>8. \A f \in Editors : IF pc'[f] = "write"
                             THEN edit'[f].row \in Ids /\ rows'[edit'[f].row] # "absent"
                             ELSE edit'[f] = NoEdit
    BY <2>1, <2>4, <2>5 DEF IInv, EditInv
  <2>9. ASSUME NEW l \in settled'
        PROVE  rows'[l] = "CANCELLED" /\ \A f \in Editors : edit'[f].row # l
    <3>1. CASE l = i
      BY <2>1, <2>2, <2>5, <2>6, <2>7, <2>9, <3>1 DEF Alone
    <3>2. CASE l # i
      BY <2>1, <2>2, <2>3, <2>5, <2>6, <2>9, <3>2 DEF IInv, EditInv
    <3>3. QED
      BY <3>1, <3>2
  <2>10. QED
    BY <2>8, <2>9 DEF EditInv
<1>11. ASSUME NEW e \in Editors, EditFails(e)
      PROVE  EditInv'
  <2>1. /\ pc'[e] = "idle" /\ edit'[e] = NoEdit
        /\ \A f \in Editors \ {e} : pc'[f] = pc[f] /\ edit'[f] = edit[f]
    BY <1>11 DEF EditFails, EndEdit, IInv, TypeOK, events
  <2>2. \A i \in Ids : edit'[e].row # i
    BY <2>1, NoneAssumption DEF NoEdit
  <2>3. settled \subseteq Ids
    BY DEF IInv, TypeOK
  <2>4. UNCHANGED <<rows, settled>>
    BY <1>11 DEF EditFails
  <2>5. QED
    BY <2>1, <2>2, <2>3, <2>4 DEF IInv, EditInv
<1>12. ASSUME NEW e \in Editors, NEW i \in Ids, UpdateReads(e, i)
      PROVE  EditInv'
  <2>1. UNCHANGED <<rows, settled>> /\ rows[i] = "PRE_TRANSIT"
    BY <1>12 DEF UpdateReads, BeginEdit, Editable, events
  <2>2. /\ pc'[e] = "write" /\ edit'[e].row = i
        /\ \A f \in Editors \ {e} : pc'[f] = pc[f] /\ edit'[f] = edit[f]
    BY <1>12 DEF UpdateReads, BeginEdit, IInv, TypeOK, events
  <2>3. i \notin settled
    BY <2>1 DEF IInv, EditInv
  <2>4. QED
    BY <2>1, <2>2, <2>3 DEF IInv, EditInv
<1>13. ASSUME NEW e \in Editors, NEW i \in Ids, DeleteReads(e, i)
      PROVE  EditInv'
  <2>1. UNCHANGED <<rows, settled>> /\ rows[i] = "PRE_TRANSIT"
    BY <1>13 DEF DeleteReads, BeginEdit, Editable, events
  <2>2. /\ pc'[e] = "write" /\ edit'[e].row = i
        /\ \A f \in Editors \ {e} : pc'[f] = pc[f] /\ edit'[f] = edit[f]
    BY <1>13 DEF DeleteReads, BeginEdit, IInv, TypeOK, events
  <2>3. i \notin settled
    BY <2>1 DEF IInv, EditInv
  <2>4. QED
    BY <2>1, <2>2, <2>3 DEF IInv, EditInv
<1>14. ASSUME UNCHANGED vars
      PROVE  EditInv'
  <2>1. UNCHANGED <<rows, pc, edit, settled>>
    BY <1>14 DEF vars, editing, events
  <2>2. QED
    BY <2>1 DEF IInv, EditInv
<1>15. QED
  BY <1>1, <1>2, <1>3, <1>4, <1>5, <1>6, <1>7, <1>8, <1>9, <1>10, <1>11, <1>12, <1>13, <1>14
     DEF Next, Step

LEMMA TypeStep ==
  ASSUME IInv, [Next]_vars
  PROVE  TypeOK'
<1>1. ASSUME NEW k \in Keys, CheckCircuit(k)
      PROVE  TypeOK'
  BY <1>1, RunStep DEF CheckCircuit, circuit, editing, IInv, TypeOK, events
<1>2. ASSUME NEW k \in Keys, CallShippoAPI(k)
      PROVE  TypeOK'
  <2>1. sold' \subseteq Keys
    BY <1>2 DEF CallShippoAPI, Buys, IInv, TypeOK, events
  <2>2. fails' \in 0..(Threshold - 1) /\ open' \in BOOLEAN
    <3>1. fails \in 0..(Threshold - 1) /\ open \in BOOLEAN /\ Threshold \in Nat \ {0}
      BY NumbersAssumption DEF IInv, TypeOK
    <3>2. CASE CountFailure
      <4>1. CASE fails + 1 >= Threshold
        <5>1. fails' = 0 /\ open' = TRUE
          BY <3>2, <4>1 DEF CountFailure
        <5>2. 0 \in 0..(Threshold - 1)
          BY <3>1
        <5>3. QED
          BY <5>1, <5>2
      <4>2. CASE ~(fails + 1 >= Threshold)
        <5>1. fails' = fails + 1 /\ open' = open
          BY <3>2, <4>2 DEF CountFailure
        <5>2. fails + 1 \in 0..(Threshold - 1)
          BY <3>1, <4>2
        <5>3. QED
          BY <3>1, <5>1, <5>2
      <4>3. QED
        BY <4>1, <4>2
    <3>3. CASE CountSuccess
      BY <3>1, <3>3 DEF CountSuccess
    <3>4. CASE UNCHANGED circuit
      BY <3>1, <3>4 DEF circuit
    <3>5. QED
      BY <1>2, <3>2, <3>3, <3>4 DEF CallShippoAPI, events
  <2>3. QED
    BY <1>2, <2>1, <2>2, RunStep DEF CallShippoAPI, editing, IInv, TypeOK, events
<1>3. ASSUME NEW k \in Keys, SaveShipmentToDB(k)
      PROVE  TypeOK'
  <2>1. /\ rows' \in [Ids -> Statuses \cup {"absent"}]
        /\ outbox' \in [Ids -> {"none", "pending", "published"}]
    <3>1. CASE UNCHANGED <<rows, outbox>>
      BY <3>1 DEF IInv, TypeOK
    <3>2. CASE ~UNCHANGED <<rows, outbox>>
      <4>1. PICK i \in Ids, status \in Statuses : IsNext(i) /\ Inserted(i, status)
        BY <1>3, <3>2 DEF SaveShipmentToDB, Statuses, events
      <4>2. QED
        BY <4>1, SaveEffect DEF IInv
    <3>3. QED
      BY <3>1, <3>2
  <2>2. QED
    BY <1>3, <2>1, RunStep DEF SaveShipmentToDB, circuit, editing, IInv, TypeOK, events
<1>4. ASSUME NEW k \in Keys, PopPendingOutboxEvent(k)
      PROVE  TypeOK'
  BY <1>4, RunStep DEF PopPendingOutboxEvent, circuit, editing, IInv, TypeOK, events
<1>5. ASSUME NEW k \in Keys, Publish(k)
      PROVE  TypeOK'
  <2>1. run[k].row \in Ids
    BY <1>5 DEF Publish, IInv, RunInv, Sound
  <2>2. QED
    BY <1>5, <2>1, RunStep DEF Publish, Sent, circuit, editing, IInv, TypeOK
<1>6. ASSUME NEW k \in Keys, MarkOutboxEventPublished(k)
      PROVE  TypeOK'
  BY <1>6, RunStep DEF MarkOutboxEventPublished, Marked, circuit, editing, IInv, TypeOK, events
<1>7. ASSUME NEW k \in Keys, NEW dims \in BOOLEAN, CreateShipment(k, dims)
      PROVE  TypeOK'
  <2>1. runs' \in [Keys -> 0..MaxRuns]
    BY <1>7, NumbersAssumption DEF CreateShipment, IInv, TypeOK, events
  <2>2. QED
    BY <1>7, <2>1, RunStep DEF CreateShipment, circuit, editing, IInv, TypeOK, events
<1>8. ASSUME CircuitCloses
      PROVE  TypeOK'
  BY <1>8, RunStep DEF CircuitCloses, circuit, editing, IInv, TypeOK, events
<1>9. ASSUME Crash
      PROVE  TypeOK'
  <2>1. fails' \in 0..(Threshold - 1) /\ crashes' \in 0..MaxCrashes
    BY <1>9, NumbersAssumption DEF Crash, IInv, TypeOK, events
  <2>2. sold' \subseteq Keys
    BY <1>9 DEF Crash, IInv, TypeOK, events
  <2>3. QED
    BY <1>9, <2>1, <2>2, RunStep DEF Crash, editing, IInv, TypeOK, events
<1>10. ASSUME NEW e \in Editors, UpdateShipment(e)
      PROVE  TypeOK'
  <2>1. NoEdit \in [row : Ids \cup {None}, status : Statuses]
    BY DEF NoEdit, Statuses
  <2>2. edit[e].row \in Ids /\ edit[e].status \in Statuses
    BY <1>10 DEF UpdateShipment, IInv, EditInv, TypeOK
  <2>3. QED
    BY <1>10, <2>1, <2>2, RunStep DEF UpdateShipment, EndEdit, circuit, IInv, TypeOK, events
<1>11. ASSUME NEW e \in Editors, EditFails(e)
      PROVE  TypeOK'
  <2>1. NoEdit \in [row : Ids \cup {None}, status : Statuses]
    BY DEF NoEdit, Statuses
  <2>2. QED
    BY <1>11, <2>1, RunStep DEF EditFails, EndEdit, circuit, IInv, TypeOK, events
<1>12. ASSUME NEW e \in Editors, NEW i \in Ids, UpdateReads(e, i)
      PROVE  TypeOK'
  <2>1. rows[i] \in Statuses
    BY <1>12 DEF UpdateReads, BeginEdit, Editable, Statuses, events
  <2>2. QED
    BY <1>12, <2>1, RunStep DEF UpdateReads, BeginEdit, circuit, IInv, TypeOK, events
<1>13. ASSUME NEW e \in Editors, NEW i \in Ids, DeleteReads(e, i)
      PROVE  TypeOK'
  <2>1. "CANCELLED" \in Statuses
    BY DEF Statuses
  <2>2. QED
    BY <1>13, <2>1, RunStep DEF DeleteReads, BeginEdit, circuit, IInv, TypeOK, events
<1>14. ASSUME UNCHANGED vars
      PROVE  TypeOK'
  BY <1>14, RunStep DEF vars, circuit, editing, IInv, TypeOK, events
<1>15. QED
  BY <1>1, <1>2, <1>3, <1>4, <1>5, <1>6, <1>7, <1>8, <1>9, <1>10, <1>11, <1>12, <1>13, <1>14
     DEF Next, Step

-----------------------------------------------------------------------------
LEMMA InitInv == Init => IInv
<1> SUFFICES ASSUME Init PROVE IInv
  OBVIOUS
<1>1. TypeOK
  <2>1. Run("none", FALSE) \in RunType
    BY NumbersAssumption DEF Run, RunType, Steps
  <2>2. NoEdit \in [row : Ids \cup {None}, status : Statuses]
    BY DEF NoEdit, Statuses
  <2>3. 0 \in 0..(Threshold - 1) /\ 0 \in 0..MaxCrashes /\ 0 \in 0..MaxRuns
    BY NumbersAssumption
  <2>4. QED
    BY <2>1, <2>2, <2>3 DEF Init, TypeOK
<1>2. RunInv
  BY DEF Init, RunInv, Sound, Run
<1>3. OutboxInv /\ EditInv
  BY DEF Init, OutboxInv, EditInv
<1>4. QED
  BY <1>1, <1>2, <1>3 DEF IInv

\* The inductive invariant holds in every reachable state of runs, rows and outbox.
THEOREM Invariance == Spec => []IInv
<1>1. Init => IInv
  BY InitInv
<1>2. IInv /\ [Next]_vars => IInv'
  BY TypeStep, RunStep, OutboxStep, EditStep DEF IInv
<1>3. QED
  BY <1>1, <1>2, PTL DEF Spec

\* Every variable keeps its type: no activity is tried more often than
\* MaximumAttempts allows, and the breaker's counter stays below its threshold.
THEOREM TypeCorrect == Spec => []TypeOK
<1>1. IInv => TypeOK
  BY DEF IInv
<1>2. QED
  BY <1>1, Invariance, PTL

\* CreateShipmentWithOutbox, PublishKafkaEvent and their retries leave on Kafka
\* only events of stored shipments, and mark published none that the producer has not
\* taken.
THEOREM OutboxTellsTheTruth == Spec => []OutboxIsTruthful
<1>1. IInv => OutboxIsTruthful
  BY DEF IInv, OutboxInv, OutboxIsTruthful
<1>2. QED
  BY <1>1, Invariance, PTL

\* CreateShipmentWorkflow completes only after CallShippoAPI, SaveShipmentToDB and
\* PublishKafkaEvent have all taken effect, whichever answers were lost: the event has
\* gone out through the producer, though Kafka need not have stored it.
THEOREM CompletedIsHandedOver == Spec => []CompletedMeansHandedOver
<1>1. IInv => CompletedMeansHandedOver
  BY NoneAssumption DEF IInv, RunInv, Sound, CompletedMeansHandedOver
<1>2. QED
  BY <1>1, Invariance, PTL

\* No Updateshipment revives a shipment that DeleteShipment cancelled while nobody
\* else was editing it.
THEOREM CancelledStaysCancelled == Spec => []CancelledForGood
<1>1. IInv => CancelledForGood
  BY DEF IInv, EditInv, CancelledForGood
<1>2. QED
  BY <1>1, Invariance, PTL
=============================================================================
