------------------------ MODULE CommunicationsProofs ------------------------
(***************************************************************************)
(* Proofs about Communications, for any topic and any jobs left by others, *)
(* any number of events, retries and faults.                               *)
(***************************************************************************)
EXTENDS Communications, TLAPS

(***************************************************************************)
(* The inductive invariant.  PlaceInv: which event the loop has in hand.   *)
(* KeptInv: no job is lost, nor the email job of an event whose SMS job is *)
(* still to be published.  CalmInv: without faults, each job is in one     *)
(* place at a time, and nowhere before its event was fetched.  CommitInv:  *)
(* what is committed, or about to be, was handled.                         *)
(***************************************************************************)
PlaceInv == IF bridge.pc \in {"email", "sms", "commit"} THEN bridge.event \in Offsets
                                                         ELSE bridge.event = 0

KeptInv ==
  /\ NoJobLost
  /\ bridge.pc = "sms" => Kept("email", bridge.event) \/ bridge.event \in swallowed["email"]

Nowhere(q, n) == held[q][OwnJob(n)] = 0 /\ sent[q][n] = 0

CalmInv == faults = 0 =>
  /\ conn = "up" /\ proc = "up"
  /\ bridge.pc \in Queues => bridge.event = position
  /\ \A q \in Queues, n \in Offsets :
       /\ held[q][OwnJob(n)] + sent[q][n] <= 1
       /\ n > position => Nowhere(q, n)
       /\ n = position /\ bridge.pc \in {"email", q} => Nowhere(q, n)

CommitInv == CommitsAreHandled /\ (bridge.pc = "commit" => bridge.event \in handled)

IInv == TypeOK /\ PlaceInv /\ KeptInv /\ CalmInv /\ CommitInv

-----------------------------------------------------------------------------
(* Jobs and the places they are in.                                        *)

LEMMA OffsetsAreKeys ==
  Offsets \subseteq Keys /\ 0 \in Keys /\ 0 \notin Offsets /\ Keys \subseteq Nat
  BY BoundsAssumption DEF Offsets, Keys

LEMMA OwnJobs ==
  /\ \A n \in Offsets : OwnJob(n) \in Jobs /\ OwnJob(n).key = n /\ OwnJob(n).payload = "full"
  /\ \A m, n \in Offsets : OwnJob(m) = OwnJob(n) => m = n
<1>1. \A n : OwnJob(n).key = n /\ OwnJob(n).payload = "full"
  BY DEF OwnJob
<1>2. QED
  BY <1>1 DEF Jobs

LEMMA JobCases ==
  ASSUME NEW j \in Jobs
  PROVE  /\ j.key \in Keys
         /\ j.payload = "full" => j.key \in Offsets /\ j = OwnJob(j.key)
         /\ j.payload # "full" => j \in LeftJobs /\ j.key = 0 /\ \A n \in Offsets : j # OwnJob(n)
<1>1. CASE j \in LeftJobs
  <2>1. j.key = 0 /\ j.payload # "full"
    BY <1>1 DEF LeftJobs
  <2>2. QED
    BY <1>1, <2>1, OwnJobs, OffsetsAreKeys
<1>2. CASE j \notin LeftJobs
  <2>1. PICK n \in Offsets : j = OwnJob(n)
    BY <1>2 DEF Jobs
  <2>2. QED
    BY <2>1, OwnJobs, OffsetsAreKeys
<1>3. QED
  BY <1>1, <1>2

LEMMA AgainIsAJob ==
  ASSUME NEW j \in Jobs, j.payload = "empty", j.retry < MaxRetries
  PROVE  Again(j) \in Jobs /\ Again(j) # j /\ Again(j).key = j.key /\ Again(j).payload = "null"
<1>1. j \in [key : {0}, payload : {"empty", "null", "garbage"}, retry : 0..MaxRetries]
  BY JobCases DEF LeftJobs
<1>2. j.retry \in 0..MaxRetries
  BY <1>1
<1>3. j.retry + 1 \in 0..MaxRetries
  BY <1>2, BoundsAssumption
<1>4. PICK r : r = j.retry + 1
  OBVIOUS
<1>5. Again(j) = [j EXCEPT !.payload = "null", !.retry = r]
  BY <1>4 DEF Again
<1>6. Again(j) \in LeftJobs /\ Again(j).payload = "null" /\ Again(j).key = j.key
  BY <1>1, <1>3, <1>4, <1>5 DEF LeftJobs
<1>7. QED
  BY <1>6 DEF Jobs

CopiesType == [Queues -> [Jobs -> Nat]]

LEMMA PutEffect ==
  ASSUME held \in CopiesType, NEW q \in Queues, NEW j \in Jobs
  PROVE  /\ Put(q, j) \in CopiesType
         /\ conn = "up" => Put(q, j)[q][j] = held[q][j] + 1
         /\ conn # "up" => Put(q, j) = held
         /\ \A p \in Queues, l \in Jobs : p # q \/ l # j => Put(q, j)[p][l] = held[p][l]
  BY DEF Put, CopiesType

LEMMA AckedEffect ==
  ASSUME NEW copies \in CopiesType, NEW q \in Queues, NEW j \in Jobs, copies[q][j] > 0
  PROVE  /\ Acked(q, j, copies) \in CopiesType
         /\ conn = "up" => Acked(q, j, copies)[q][j] = copies[q][j] - 1
         /\ conn # "up" => Acked(q, j, copies) = copies
         /\ \A p \in Queues, l \in Jobs :
              p # q \/ l # j => Acked(q, j, copies)[p][l] = copies[p][l]
<1>1. copies[q][j] - 1 \in Nat
  BY DEF CopiesType
<1>2. PICK c \in Nat : c = copies[q][j] - 1
  BY <1>1
<1>3. Acked(q, j, copies) = IF conn = "up" THEN [copies EXCEPT ![q][j] = c] ELSE copies
  BY <1>2 DEF Acked
<1>4. QED
  BY <1>2, <1>3 DEF CopiesType

\* What a worker takes is there.
LEMMA DeliverableIsHeld ==
  ASSUME TypeOK, NEW q \in Queues, NEW j \in Jobs, Deliverable(q, j)
  PROVE  held[q][j] > 0 /\ held \in CopiesType
<1>1. held[q][j] \in Nat /\ stuck[q][j] \in Nat /\ held[q][j] > stuck[q][j]
  BY DEF TypeOK, Deliverable
<1>2. QED
  BY <1>1 DEF TypeOK, CopiesType

\* A job that is wrapped again is there once more before it is acked.
LEMMA RetryEffect ==
  ASSUME TypeOK, NEW q \in Queues, NEW j \in Jobs, Retries(q, j),
         held' = Acked(q, j, Put(q, Again(j)))
  PROVE  /\ held' \in CopiesType
         /\ conn = "up" => held'[q][Again(j)] > 0
         /\ conn # "up" => held' = held
         /\ \A p \in Queues, l \in Jobs :
              (p # q \/ l # j) /\ (p # q \/ l # Again(j)) => held'[p][l] = held[p][l]
<1>1. held[q][j] > 0 /\ held \in CopiesType
  BY DeliverableIsHeld DEF Retries
<1>2. Again(j) \in Jobs /\ Again(j) # j
  BY AgainIsAJob DEF Retries
<1>3. PICK copies : copies = Put(q, Again(j))
  OBVIOUS
<1>4. /\ copies \in CopiesType
      /\ conn = "up" => copies[q][Again(j)] = held[q][Again(j)] + 1
      /\ conn # "up" => copies = held
      /\ \A p \in Queues, l \in Jobs : p # q \/ l # Again(j) => copies[p][l] = held[p][l]
  BY <1>1, <1>2, <1>3, PutEffect
<1>5. copies[q][j] > 0
  BY <1>1, <1>2, <1>4
<1>6. held' = Acked(q, j, copies)
  BY <1>3
<1>7. /\ held' \in CopiesType
      /\ conn # "up" => held' = copies
      /\ \A p \in Queues, l \in Jobs : p # q \/ l # j => held'[p][l] = copies[p][l]
  BY <1>4, <1>5, <1>6, AckedEffect
<1>8. held[q][Again(j)] \in Nat
  BY <1>1, <1>2 DEF CopiesType
<1>9. QED
  BY <1>2, <1>4, <1>7, <1>8

LEMMA SentEffect ==
  ASSUME TypeOK, NEW q \in Queues, NEW j \in Jobs, Sent(q, j)
  PROVE  /\ sent' \in [Queues -> [Keys -> 0..2]]
         /\ sent'[q][j.key] > 0
         /\ sent[q][j.key] = 0 => sent'[q][j.key] = 1
         /\ \A p \in Queues, k \in Keys : p # q \/ k # j.key => sent'[p][k] = sent[p][k]
<1>1. j.key \in Keys /\ sent \in [Queues -> [Keys -> 0..2]]
  BY JobCases DEF TypeOK
<1>2. PICK k \in Keys : k = j.key
  BY <1>1
<1>3. sent[q][k] \in 0..2
  BY <1>1
<1>4. PICK c : c = IF sent[q][k] < 2 THEN sent[q][k] + 1 ELSE sent[q][k]
  OBVIOUS
<1>5. c \in 0..2 /\ c > 0 /\ (sent[q][k] = 0 => c = 1)
  BY <1>3, <1>4
<1>6. sent' = [sent EXCEPT ![q][k] = c]
  BY <1>2, <1>4 DEF Sent
<1>7. QED
  BY <1>1, <1>2, <1>5, <1>6

\* The places that a step of the loop goes to.
LEMMA AtFields == \A pc, n : At(pc, n).pc = pc /\ At(pc, n).event = n
  BY DEF At

Places == [pc : {"fetch", "commit", "exited"} \cup Queues, event : Keys]

LEMMA AtPlaces ==
  \A pc \in {"fetch", "commit", "exited"} \cup Queues, n \in Keys : At(pc, n) \in Places
  BY DEF At, Places

LEMMA TopOfLoop ==
  LoopTop \in Places /\ LoopTop.event = 0 /\ LoopTop.pc \in {"fetch", "exited"}
<1>1. LoopTop = At("exited", 0) \/ LoopTop = At("fetch", 0)
  BY DEF LoopTop
<1>2. QED
  BY <1>1, AtFields, AtPlaces, OffsetsAreKeys

LEMMA FaultCounts ==
  ASSUME TypeOK, Fault
  PROVE  faults' \in 0..MaxFaults /\ faults' # 0
  BY BoundsAssumption DEF TypeOK, Fault

LEMMA FetchEffect ==
  ASSUME TypeOK, FetchMessage
  PROVE  /\ position' \in Offsets /\ position' = position + 1 /\ log[position'] \in Kinds
         /\ bridge' \in {At("email", position'), At("commit", position'), LoopTop}
         /\ bridge' = At("email", position') => log[position'] = "created"
         /\ bridge' = At("commit", position') => log[position'] = "other"
         /\ bridge' = LoopTop => log[position'] = "garbage"
<1>1. position' \in Offsets /\ position' = position + 1
  BY BoundsAssumption DEF FetchMessage, TypeOK, Keys, Offsets
<1>2. log \in [Offsets -> Kinds]
  BY StartsAssumption DEF TypeOK
<1>3. log[position'] \in {"created", "other", "garbage"}
  BY <1>1, <1>2 DEF Kinds
<1>4. /\ log[position'] = "created" => bridge' = At("email", position')
      /\ log[position'] = "other" => bridge' = At("commit", position')
      /\ log[position'] = "garbage" => bridge' = LoopTop
  BY DEF FetchMessage
<1>5. /\ At("email", position').pc = "email" /\ At("commit", position').pc = "commit"
      /\ LoopTop.pc \notin {"email", "commit"}
  BY AtFields, TopOfLoop
<1>6. QED
  BY <1>1, <1>3, <1>4, <1>5 DEF Kinds

\* Nobody changes the topic, and what was handled stays so.
LEMMA LogIsFixed ==
  ASSUME [Next]_vars, TypeOK
  PROVE  UNCHANGED log /\ handled \subseteq handled'
<1>1. ASSUME NEW q \in Queues, WorkerStep(q) \/ UnackedStep(q)
      PROVE  UNCHANGED <<log, handled>>
  BY <1>1 DEF WorkerStep, UnackedStep, UnwrapFails, ProcessJob, ProcessedUnacked, Retry,
     RetryUnacked, DeadLetter, DeadLetterUnacked, WorkerExits, topic
<1>2. ASSUME BridgeStep
      PROVE  UNCHANGED log /\ handled \subseteq handled'
  BY <1>2 DEF BridgeStep, FetchMessage, PublishEmail, PublishSms, PublishJob, HandlerFails,
     CommitMessages, CommitFails, BridgeExits, topic
<1>3. ASSUME \/ Rebalance \/ Cut \/ Notice \/ StopSignal \/ Shutdown \/ Crash \/ Start
             \/ UNCHANGED vars
      PROVE  UNCHANGED <<log, handled>>
  BY <1>3 DEF Rebalance, Cut, Notice, StopSignal, Shutdown, Crash, Gone, Start, vars, topic
<1>4. QED
  BY <1>1, <1>2, <1>3 DEF Next

-----------------------------------------------------------------------------
(* The parts of the invariant.                                             *)

LEMMA TypeStep ==
  ASSUME IInv, [Next]_vars
  PROVE  TypeOK'
<1>1. ASSUME Rebalance
      PROVE  TypeOK'
  <2>1. faults' \in 0..MaxFaults
    BY <1>1, FaultCounts DEF Rebalance, IInv
  <2>2. QED
    BY <1>1, <2>1 DEF Rebalance, topic, rabbit, workers, IInv, TypeOK, StartOffset
<1>2. ASSUME FetchMessage
      PROVE  TypeOK'
  <2>1. position' \in Offsets /\ position' \in Keys
    BY <1>2, BoundsAssumption DEF FetchMessage, IInv, TypeOK, Keys, Offsets
  <2>2. bridge' \in Places
    BY <1>2, <2>1, FetchEffect, AtPlaces, TopOfLoop DEF IInv, Queues
  <2>3. handled' \subseteq Offsets
    BY <1>2, FetchEffect DEF FetchMessage, IInv, TypeOK
  <2>4. QED
    BY <1>2, <2>1, <2>2, <2>3 DEF FetchMessage, rabbit, workers, IInv, TypeOK, Places
<1>3. ASSUME PublishEmail
      PROVE  TypeOK'
  <2>1. bridge.event \in Offsets /\ bridge.event \in Keys /\ held \in CopiesType
    BY <1>3, OffsetsAreKeys DEF PublishEmail, PublishJob, IInv, TypeOK, PlaceInv, CopiesType
  <2>2. held' \in CopiesType
    BY <1>3, <2>1, PutEffect, OwnJobs DEF PublishEmail, PublishJob, Queues
  <2>3. bridge' \in Places
    BY <1>3, <2>1, AtPlaces DEF PublishEmail, PublishJob, Queues
  <2>4. swallowed' \in [Queues -> SUBSET Offsets] /\ handled' \subseteq Offsets
    BY <1>3, <2>1 DEF PublishEmail, PublishJob, IInv, TypeOK
  <2>5. QED
    BY <1>3, <2>2, <2>3, <2>4 DEF PublishEmail, PublishJob, topic, workers, IInv, TypeOK,
       Places, CopiesType
<1>4. ASSUME PublishSms
      PROVE  TypeOK'
  <2>1. bridge.event \in Offsets /\ bridge.event \in Keys /\ held \in CopiesType
    BY <1>4, OffsetsAreKeys DEF PublishSms, PublishJob, IInv, TypeOK, PlaceInv, CopiesType
  <2>2. held' \in CopiesType
    BY <1>4, <2>1, PutEffect, OwnJobs DEF PublishSms, PublishJob, Queues
  <2>3. bridge' \in Places
    BY <1>4, <2>1, AtPlaces DEF PublishSms, PublishJob, Queues
  <2>4. swallowed' \in [Queues -> SUBSET Offsets] /\ handled' \subseteq Offsets
    BY <1>4, <2>1 DEF PublishSms, PublishJob, IInv, TypeOK
  <2>5. QED
    BY <1>4, <2>2, <2>3, <2>4 DEF PublishSms, PublishJob, topic, workers, IInv, TypeOK,
       Places, CopiesType
<1>5. ASSUME HandlerFails
      PROVE  TypeOK'
  <2>1. bridge' \in Places
    BY <1>5, TopOfLoop DEF HandlerFails
  <2>2. QED
    BY <1>5, <2>1 DEF HandlerFails, topic, rabbit, workers, IInv, TypeOK, Places
<1>6. ASSUME CommitMessages
      PROVE  TypeOK'
  <2>1. bridge' \in Places
    BY <1>6, TopOfLoop DEF CommitMessages
  <2>2. committed' \in Keys
    BY <1>6 DEF CommitMessages, Commits, IInv, TypeOK
  <2>3. QED
    BY <1>6, <2>1, <2>2 DEF CommitMessages, rabbit, workers, IInv, TypeOK, Places
<1>7. ASSUME CommitFails
      PROVE  TypeOK'
  <2>1. bridge' \in Places
    BY <1>7, TopOfLoop DEF CommitFails
  <2>2. faults' \in 0..MaxFaults
    BY <1>7, FaultCounts DEF CommitFails, IInv, TypeOK
  <2>3. QED
    BY <1>7, <2>1, <2>2 DEF CommitFails, topic, rabbit, workers, IInv, TypeOK, Places
<1>8. ASSUME BridgeExits
      PROVE  TypeOK'
  <2>1. bridge' \in Places
    BY <1>8, AtPlaces, OffsetsAreKeys DEF BridgeExits
  <2>2. QED
    BY <1>8, <2>1 DEF BridgeExits, topic, rabbit, workers, IInv, TypeOK, Places
<1>9. ASSUME NEW q \in Queues, NEW j \in Jobs, UnwrapFails(q, j)
      PROVE  TypeOK'
  <2>1. stuck' \in [Queues -> [Jobs -> Nat]]
    BY <1>9 DEF UnwrapFails, IInv, TypeOK
  <2>2. QED
    BY <1>9, <2>1 DEF UnwrapFails, topic, rabbit, workers, IInv, TypeOK
<1>10. ASSUME NEW q \in Queues, NEW j \in Jobs, ProcessJob(q, j)
      PROVE  TypeOK'
  <2>1. held' \in CopiesType
    BY <1>10, DeliverableIsHeld, AckedEffect DEF ProcessJob, IInv
  <2>2. sent' \in [Queues -> [Keys -> 0..2]]
    BY <1>10, SentEffect DEF ProcessJob, IInv
  <2>3. QED
    BY <1>10, <2>1, <2>2 DEF ProcessJob, topic, IInv, TypeOK, CopiesType
<1>11. ASSUME NEW q \in Queues, NEW j \in Jobs, Retry(q, j)
      PROVE  TypeOK'
  <2>1. held' \in CopiesType
    BY <1>11, RetryEffect DEF Retry, IInv
  <2>2. QED
    BY <1>11, <2>1 DEF Retry, topic, workers, IInv, TypeOK, CopiesType
<1>12. ASSUME NEW q \in Queues, NEW j \in Jobs, DeadLetter(q, j)
      PROVE  TypeOK'
  <2>1. held' \in CopiesType
    BY <1>12, DeliverableIsHeld, AckedEffect DEF DeadLetter, GivesUp, IInv
  <2>2. dlq' \in [Queues -> SUBSET Keys]
    BY <1>12, JobCases DEF DeadLetter, PutDead, IInv, TypeOK
  <2>3. QED
    BY <1>12, <2>1, <2>2 DEF DeadLetter, topic, workers, IInv, TypeOK, CopiesType
<1>13. ASSUME NEW q \in Queues, NEW j \in Jobs, ProcessedUnacked(q, j)
      PROVE  TypeOK'
  <2>1. faults' \in 0..MaxFaults
    BY <1>13, FaultCounts DEF ProcessedUnacked, IInv
  <2>2. sent' \in [Queues -> [Keys -> 0..2]]
    BY <1>13, SentEffect DEF ProcessedUnacked, IInv
  <2>3. QED
    BY <1>13, <2>1, <2>2 DEF ProcessedUnacked, topic, rabbit, IInv, TypeOK
<1>14. ASSUME NEW q \in Queues, NEW j \in Jobs, RetryUnacked(q, j)
      PROVE  TypeOK'
  <2>1. faults' \in 0..MaxFaults
    BY <1>14, FaultCounts DEF RetryUnacked, IInv
  <2>2. held' \in CopiesType
    BY <1>14, PutEffect, AgainIsAJob DEF RetryUnacked, Retries, IInv, TypeOK, CopiesType
  <2>3. QED
    BY <1>14, <2>1, <2>2 DEF RetryUnacked, topic, workers, IInv, TypeOK, CopiesType
<1>15. ASSUME NEW q \in Queues, NEW j \in Jobs, DeadLetterUnacked(q, j)
      PROVE  TypeOK'
  <2>1. faults' \in 0..MaxFaults
    BY <1>15, FaultCounts DEF DeadLetterUnacked, IInv
  <2>2. dlq' \in [Queues -> SUBSET Keys]
    BY <1>15, JobCases DEF DeadLetterUnacked, PutDead, IInv, TypeOK
  <2>3. QED
    BY <1>15, <2>1, <2>2 DEF DeadLetterUnacked, topic, workers, IInv, TypeOK
<1>16. ASSUME NEW q \in Queues, WorkerExits(q)
      PROVE  TypeOK'
  BY <1>16 DEF WorkerExits, topic, rabbit, workers, IInv, TypeOK
<1>17. ASSUME Cut
      PROVE  TypeOK'
  <2>1. faults' \in 0..MaxFaults
    BY <1>17, FaultCounts DEF Cut, IInv
  <2>2. QED
    BY <1>17, <2>1 DEF Cut, topic, rabbit, workers, IInv, TypeOK
<1>18. ASSUME Notice
      PROVE  TypeOK'
  BY <1>18 DEF Notice, topic, rabbit, workers, IInv, TypeOK
<1>19. ASSUME StopSignal
      PROVE  TypeOK'
  <2>1. faults' \in 0..MaxFaults
    BY <1>19, FaultCounts DEF StopSignal, IInv
  <2>2. QED
    BY <1>19, <2>1 DEF StopSignal, topic, rabbit, workers, IInv, TypeOK
<1>20. ASSUME Shutdown
      PROVE  TypeOK'
  <2>1. bridge' \in Places
    BY <1>20, AtPlaces, OffsetsAreKeys DEF Shutdown, Gone
  <2>2. worker' \in [Queues -> {"running", "exited"}] /\ stuck' \in [Queues -> [Jobs -> Nat]]
    BY <1>20 DEF Shutdown, Gone, NoCopies
  <2>3. faults' \in 0..MaxFaults
    BY <1>20, FaultCounts DEF Shutdown, Gone, IInv, TypeOK
  <2>4. QED
    BY <1>20, <2>1, <2>2, <2>3 DEF Shutdown, Gone, topic, rabbit, IInv, TypeOK, Places
<1>21. ASSUME Crash
      PROVE  TypeOK'
  <2>1. bridge' \in Places
    BY <1>21, AtPlaces, OffsetsAreKeys DEF Crash, Gone
  <2>2. worker' \in [Queues -> {"running", "exited"}] /\ stuck' \in [Queues -> [Jobs -> Nat]]
    BY <1>21 DEF Crash, Gone, NoCopies
  <2>3. faults' \in 0..MaxFaults
    BY <1>21, FaultCounts DEF Crash, Gone, IInv, TypeOK
  <2>4. QED
    BY <1>21, <2>1, <2>2, <2>3 DEF Crash, Gone, topic, rabbit, IInv, TypeOK, Places
<1>22. ASSUME Start
      PROVE  TypeOK'
  <2>1. bridge' \in Places
    BY <1>22, AtPlaces, OffsetsAreKeys DEF Start
  <2>2. worker' \in [Queues -> {"running", "exited"}]
    BY <1>22 DEF Start
  <2>3. QED
    BY <1>22, <2>1, <2>2 DEF Start, StartOffset, rabbit, IInv, TypeOK, Places
<1>23. ASSUME UNCHANGED vars
      PROVE  TypeOK'
  BY <1>23 DEF vars, topic, rabbit, workers, IInv, TypeOK
<1>24. QED
  BY <1>1, <1>2, <1>3, <1>4, <1>5, <1>6, <1>7, <1>8, <1>9, <1>10, <1>11, <1>12,
     <1>13, <1>14, <1>15, <1>16, <1>17, <1>18, <1>19, <1>20, <1>21, <1>22, <1>23
     DEF Next, BridgeStep, WorkerStep, UnackedStep

LEMMA PlaceStep ==
  ASSUME IInv, [Next]_vars
  PROVE  PlaceInv'
<1>1. ASSUME Rebalance
      PROVE  PlaceInv'
  BY <1>1 DEF Rebalance, IInv, PlaceInv
<1>2. ASSUME FetchMessage
      PROVE  PlaceInv'
  BY <1>2, FetchEffect, AtFields, TopOfLoop DEF IInv, PlaceInv
<1>3. ASSUME PublishEmail
      PROVE  PlaceInv'
  BY <1>3, AtFields DEF PublishEmail, PublishJob, IInv, PlaceInv
<1>4. ASSUME PublishSms
      PROVE  PlaceInv'
  BY <1>4, AtFields DEF PublishSms, PublishJob, IInv, PlaceInv
<1>5. ASSUME HandlerFails
      PROVE  PlaceInv'
  BY <1>5, TopOfLoop DEF HandlerFails, PlaceInv
<1>6. ASSUME CommitMessages
      PROVE  PlaceInv'
  BY <1>6, TopOfLoop DEF CommitMessages, PlaceInv
<1>7. ASSUME CommitFails
      PROVE  PlaceInv'
  BY <1>7, TopOfLoop DEF CommitFails, PlaceInv
<1>8. ASSUME BridgeExits
      PROVE  PlaceInv'
  BY <1>8, AtFields DEF BridgeExits, PlaceInv
<1>9. ASSUME NEW q \in Queues, NEW j \in Jobs, UnwrapFails(q, j)
      PROVE  PlaceInv'
  BY <1>9 DEF UnwrapFails, IInv, PlaceInv
<1>10. ASSUME NEW q \in Queues, NEW j \in Jobs, ProcessJob(q, j)
      PROVE  PlaceInv'
  BY <1>10 DEF ProcessJob, IInv, PlaceInv
<1>11. ASSUME NEW q \in Queues, NEW j \in Jobs, Retry(q, j)
      PROVE  PlaceInv'
  BY <1>11 DEF Retry, IInv, PlaceInv
<1>12. ASSUME NEW q \in Queues, NEW j \in Jobs, DeadLetter(q, j)
      PROVE  PlaceInv'
  BY <1>12 DEF DeadLetter, IInv, PlaceInv
<1>13. ASSUME NEW q \in Queues, NEW j \in Jobs, ProcessedUnacked(q, j)
      PROVE  PlaceInv'
  BY <1>13 DEF ProcessedUnacked, IInv, PlaceInv
<1>14. ASSUME NEW q \in Queues, NEW j \in Jobs, RetryUnacked(q, j)
      PROVE  PlaceInv'
  BY <1>14 DEF RetryUnacked, IInv, PlaceInv
<1>15. ASSUME NEW q \in Queues, NEW j \in Jobs, DeadLetterUnacked(q, j)
      PROVE  PlaceInv'
  BY <1>15 DEF DeadLetterUnacked, IInv, PlaceInv
<1>16. ASSUME NEW q \in Queues, WorkerExits(q)
      PROVE  PlaceInv'
  BY <1>16 DEF WorkerExits, IInv, PlaceInv
<1>17. ASSUME Cut
      PROVE  PlaceInv'
  BY <1>17 DEF Cut, IInv, PlaceInv
<1>18. ASSUME Notice
      PROVE  PlaceInv'
  BY <1>18 DEF Notice, IInv, PlaceInv
<1>19. ASSUME StopSignal
      PROVE  PlaceInv'
  BY <1>19 DEF StopSignal, IInv, PlaceInv
<1>20. ASSUME Shutdown
      PROVE  PlaceInv'
  BY <1>20, AtFields DEF Shutdown, Gone, PlaceInv
<1>21. ASSUME Crash
      PROVE  PlaceInv'
  BY <1>21, AtFields DEF Crash, Gone, PlaceInv
<1>22. ASSUME Start
      PROVE  PlaceInv'
  BY <1>22, AtFields DEF Start, PlaceInv
<1>23. ASSUME UNCHANGED vars
      PROVE  PlaceInv'
  BY <1>23 DEF vars, IInv, PlaceInv
<1>24. QED
  BY <1>1, <1>2, <1>3, <1>4, <1>5, <1>6, <1>7, <1>8, <1>9, <1>10, <1>11, <1>12,
     <1>13, <1>14, <1>15, <1>16, <1>17, <1>18, <1>19, <1>20, <1>21, <1>22, <1>23
     DEF Next, BridgeStep, WorkerStep, UnackedStep

\* No step loses a job, whatever becomes of acks and publishings.
Keeps == /\ \A q \in Queues, k \in Keys : Kept(q, k) => Kept(q, k)'
         /\ left' = left /\ \A q \in Queues : swallowed[q] \subseteq swallowed'[q]

LEMMA KeptUnmoved ==
  ASSUME UNCHANGED <<held, sent, dlq>>
  PROVE  \A q \in Queues, k \in Keys : Kept(q, k) => Kept(q, k)'
  BY DEF Kept

\* It is enough that what no queue holds any more has been sent or is still kept.
LEMMA KeptMoved ==
  ASSUME TypeOK, NEW p \in Queues, NEW l \in Jobs, Kept(p, l.key)',
         \A q \in Queues, j \in Jobs :
           (q # p \/ j # l) /\ held[q][j] > 0 => held'[q][j] > 0,
         \A q \in Queues, k \in Keys : sent[q][k] > 0 => sent'[q][k] > 0,
         \A q \in Queues : dlq[q] \subseteq dlq'[q]
  PROVE  \A q \in Queues, k \in Keys : Kept(q, k) => Kept(q, k)'
<1> SUFFICES ASSUME NEW q \in Queues, NEW k \in Keys, Kept(q, k) PROVE Kept(q, k)'
  OBVIOUS
<1>1. CASE \E j \in Jobs : j.key = k /\ held[q][j] > 0
  <2>1. PICK j \in Jobs : j.key = k /\ held[q][j] > 0
    BY <1>1
  <2>2. CASE q = p /\ j = l
    BY <2>1, <2>2
  <2>3. CASE q # p \/ j # l
    BY <2>1, <2>3 DEF Kept
  <2>4. QED
    BY <2>2, <2>3
<1>2. CASE sent[q][k] > 0 \/ k \in dlq[q]
  BY <1>2 DEF Kept
<1>3. QED
  BY <1>1, <1>2 DEF Kept

\* The same, for steps that take nothing out of the queues.
LEMMA KeptGrown ==
  ASSUME \A q \in Queues, j \in Jobs : held[q][j] > 0 => held'[q][j] > 0,
         \A q \in Queues, k \in Keys : sent[q][k] > 0 => sent'[q][k] > 0,
         \A q \in Queues : dlq[q] \subseteq dlq'[q]
  PROVE  \A q \in Queues, k \in Keys : Kept(q, k) => Kept(q, k)'
  BY DEF Kept

LEMMA KeepsStep ==
  ASSUME IInv, [Next]_vars
  PROVE  Keeps
<1>1. ASSUME Rebalance
      PROVE  Keeps
  BY <1>1, KeptUnmoved DEF Rebalance, topic, rabbit, workers, Keeps
<1>2. ASSUME FetchMessage
      PROVE  Keeps
  BY <1>2, KeptUnmoved DEF FetchMessage, topic, rabbit, workers, Keeps
<1>3. ASSUME PublishEmail
      PROVE  Keeps
  <2>1. bridge.event \in Offsets /\ held \in CopiesType
    BY <1>3 DEF PublishEmail, PublishJob, IInv, TypeOK, PlaceInv, CopiesType
  <2>2. \A q \in Queues, j \in Jobs : held[q][j] > 0 => held'[q][j] > 0
    <3>1. held["email"][OwnJob(bridge.event)] \in Nat
      BY <2>1, OwnJobs DEF CopiesType, Queues
    <3>2. QED
      BY <1>3, <2>1, <3>1, PutEffect, OwnJobs DEF PublishEmail, PublishJob, Queues
  <2>3. UNCHANGED <<left, sent, dlq>> /\ \A q \in Queues : swallowed[q] \subseteq swallowed'[q]
    BY <1>3 DEF PublishEmail, PublishJob, topic, workers, IInv, TypeOK
  <2>4. QED
    BY <2>2, <2>3, KeptGrown DEF Keeps
<1>4. ASSUME PublishSms
      PROVE  Keeps
  <2>1. bridge.event \in Offsets /\ held \in CopiesType
    BY <1>4 DEF PublishSms, PublishJob, IInv, TypeOK, PlaceInv, CopiesType
  <2>2. \A q \in Queues, j \in Jobs : held[q][j] > 0 => held'[q][j] > 0
    <3>1. held["sms"][OwnJob(bridge.event)] \in Nat
      BY <2>1, OwnJobs DEF CopiesType, Queues
    <3>2. QED
      BY <1>4, <2>1, <3>1, PutEffect, OwnJobs DEF PublishSms, PublishJob, Queues
  <2>3. UNCHANGED <<left, sent, dlq>> /\ \A q \in Queues : swallowed[q] \subseteq swallowed'[q]
    BY <1>4 DEF PublishSms, PublishJob, topic, workers, IInv, TypeOK
  <2>4. QED
    BY <2>2, <2>3, KeptGrown DEF Keeps
<1>5. ASSUME HandlerFails
      PROVE  Keeps
  BY <1>5, KeptUnmoved DEF HandlerFails, topic, rabbit, workers, Keeps
<1>6. ASSUME CommitMessages
      PROVE  Keeps
  BY <1>6, KeptUnmoved DEF CommitMessages, topic, rabbit, workers, Keeps
<1>7. ASSUME CommitFails
      PROVE  Keeps
  BY <1>7, KeptUnmoved DEF CommitFails, topic, rabbit, workers, Keeps
<1>8. ASSUME BridgeExits
      PROVE  Keeps
  BY <1>8, KeptUnmoved DEF BridgeExits, topic, rabbit, workers, Keeps
<1>9. ASSUME NEW q \in Queues, NEW j \in Jobs, UnwrapFails(q, j)
      PROVE  Keeps
  BY <1>9, KeptUnmoved DEF UnwrapFails, topic, rabbit, workers, Keeps
<1>10. ASSUME NEW q \in Queues, NEW j \in Jobs, ProcessJob(q, j)
      PROVE  Keeps
  <2>1. held[q][j] > 0 /\ held \in CopiesType
    BY <1>10, DeliverableIsHeld DEF ProcessJob, IInv
  <2>2. \A p \in Queues, l \in Jobs : p # q \/ l # j => held'[p][l] = held[p][l]
    BY <1>10, <2>1, AckedEffect DEF ProcessJob
  <2>3. sent'[q][j.key] > 0 /\ \A p \in Queues, k \in Keys : sent[p][k] > 0 => sent'[p][k] > 0
    BY <1>10, SentEffect DEF ProcessJob, IInv
  <2>4. Kept(q, j.key)'
    BY <2>3 DEF Kept
  <2>5. UNCHANGED <<dlq, left, swallowed>>
    BY <1>10 DEF ProcessJob, topic
  <2>6. QED
    BY <2>2, <2>3, <2>4, <2>5, KeptMoved DEF Keeps, IInv
<1>11. ASSUME NEW q \in Queues, NEW j \in Jobs, Retry(q, j)
      PROVE  Keeps
  <2>1. UNCHANGED <<dlq, sent, left, swallowed>>
    BY <1>11 DEF Retry, topic, workers
  <2>2. /\ conn = "up" => held'[q][Again(j)] > 0
        /\ conn # "up" => held' = held
        /\ \A p \in Queues, l \in Jobs :
             (p # q \/ l # j) /\ (p # q \/ l # Again(j)) => held'[p][l] = held[p][l]
    BY <1>11, RetryEffect DEF Retry, IInv
  <2>3. CASE conn = "up"
    <3>1. Again(j) \in Jobs /\ Again(j).key = j.key
      BY <1>11, AgainIsAJob DEF Retry, Retries
    <3>2. Kept(q, j.key)'
      <4>1. PICK again \in Jobs : again = Again(j) /\ again.key = j.key
        BY <3>1
      <4>2. held'[q][again] > 0
        BY <2>2, <2>3, <4>1
      <4>3. QED
        BY <4>1, <4>2 DEF Kept
    <3>3. \A p \in Queues, l \in Jobs : (p # q \/ l # j) /\ held[p][l] > 0 => held'[p][l] > 0
      BY <2>2, <2>3
    <3>4. QED
      BY <2>1, <3>2, <3>3, KeptMoved DEF Keeps, IInv
  <2>4. CASE conn # "up"
    BY <2>1, <2>2, <2>4, KeptUnmoved DEF Keeps
  <2>5. QED
    BY <2>3, <2>4
<1>12. ASSUME NEW q \in Queues, NEW j \in Jobs, DeadLetter(q, j)
      PROVE  Keeps
  <2>1. held[q][j] > 0 /\ held \in CopiesType
    BY <1>12, DeliverableIsHeld DEF DeadLetter, GivesUp, IInv
  <2>2. UNCHANGED <<sent, left, swallowed>>
    BY <1>12 DEF DeadLetter, topic, workers
  <2>3. CASE conn = "up"
    <3>1. \A p \in Queues, l \in Jobs : p # q \/ l # j => held'[p][l] = held[p][l]
      BY <1>12, <2>1, AckedEffect DEF DeadLetter
    <3>2. j.key \in dlq'[q] /\ \A p \in Queues : dlq[p] \subseteq dlq'[p]
      BY <1>12, <2>3 DEF DeadLetter, PutDead, IInv, TypeOK
    <3>3. Kept(q, j.key)'
      BY <3>2 DEF Kept
    <3>4. QED
      BY <2>2, <3>1, <3>2, <3>3, KeptMoved DEF Keeps, IInv
  <2>4. CASE conn # "up"
    <3>1. UNCHANGED <<held, dlq>>
      BY <1>12, <2>4 DEF DeadLetter, PutDead, Acked
    <3>2. QED
      BY <2>2, <3>1, KeptUnmoved DEF Keeps
  <2>5. QED
    BY <2>3, <2>4
<1>13. ASSUME NEW q \in Queues, NEW j \in Jobs, ProcessedUnacked(q, j)
      PROVE  Keeps
  <2>1. \A p \in Queues, k \in Keys : sent[p][k] > 0 => sent'[p][k] > 0
    BY <1>13, SentEffect DEF ProcessedUnacked, IInv
  <2>2. UNCHANGED <<held, dlq, left, swallowed>>
    BY <1>13 DEF ProcessedUnacked, topic, rabbit
  <2>3. QED
    BY <2>1, <2>2, KeptGrown DEF Keeps
<1>14. ASSUME NEW q \in Queues, NEW j \in Jobs, RetryUnacked(q, j)
      PROVE  Keeps
  <2>1. Again(j) \in Jobs /\ held \in CopiesType
    BY <1>14, AgainIsAJob DEF RetryUnacked, Retries, IInv, TypeOK, CopiesType
  <2>2. \A p \in Queues, l \in Jobs : held[p][l] > 0 => held'[p][l] > 0
    <3>1. held[q][Again(j)] \in Nat
      BY <2>1 DEF CopiesType
    <3>2. QED
      BY <1>14, <2>1, <3>1, PutEffect DEF RetryUnacked
  <2>3. UNCHANGED <<sent, dlq, left, swallowed>>
    BY <1>14 DEF RetryUnacked, topic, workers
  <2>4. QED
    BY <2>2, <2>3, KeptGrown DEF Keeps
<1>15. ASSUME NEW q \in Queues, NEW j \in Jobs, DeadLetterUnacked(q, j)
      PROVE  Keeps
  <2>1. \A p \in Queues : dlq[p] \subseteq dlq'[p]
    BY <1>15 DEF DeadLetterUnacked, PutDead, IInv, TypeOK
  <2>2. UNCHANGED <<held, sent, left, swallowed>>
    BY <1>15 DEF DeadLetterUnacked, topic, workers
  <2>3. QED
    BY <2>1, <2>2, KeptGrown DEF Keeps
<1>16. ASSUME NEW q \in Queues, WorkerExits(q)
      PROVE  Keeps
  BY <1>16, KeptUnmoved DEF WorkerExits, topic, rabbit, workers, Keeps
<1>17. ASSUME Cut
      PROVE  Keeps
  BY <1>17, KeptUnmoved DEF Cut, topic, rabbit, workers, Keeps
<1>18. ASSUME Notice
      PROVE  Keeps
  BY <1>18, KeptUnmoved DEF Notice, topic, rabbit, workers, Keeps
<1>19. ASSUME StopSignal
      PROVE  Keeps
  BY <1>19, KeptUnmoved DEF StopSignal, topic, rabbit, workers, Keeps
<1>20. ASSUME Shutdown
      PROVE  Keeps
  BY <1>20, KeptUnmoved DEF Shutdown, Gone, topic, rabbit, Keeps
<1>21. ASSUME Crash
      PROVE  Keeps
  BY <1>21, KeptUnmoved DEF Crash, Gone, topic, rabbit, Keeps
<1>22. ASSUME Start
      PROVE  Keeps
  BY <1>22, KeptUnmoved DEF Start, topic, rabbit, workers, Keeps
<1>23. ASSUME UNCHANGED vars
      PROVE  Keeps
  BY <1>23, KeptUnmoved DEF vars, topic, rabbit, workers, Keeps
<1>24. QED
  BY <1>1, <1>2, <1>3, <1>4, <1>5, <1>6, <1>7, <1>8, <1>9, <1>10, <1>11, <1>12,
     <1>13, <1>14, <1>15, <1>16, <1>17, <1>18, <1>19, <1>20, <1>21, <1>22, <1>23
     DEF Next, BridgeStep, WorkerStep, UnackedStep

\* A job that the handler published is kept, or swallowed.
Out(q, n) == Kept(q, n) \/ n \in swallowed[q]

LEMMA OutStays ==
  ASSUME Keeps, NEW q \in Queues, NEW n \in Keys, Out(q, n)
  PROVE  Out(q, n)'
  BY DEF Keeps, Out

LEMMA PublishedIsOut ==
  ASSUME TypeOK, PlaceInv, NEW q \in Queues, NEW next, PublishJob(q, next)
  PROVE  \E n \in Offsets : n = bridge.event /\ Out(q, n)'
<1>1. PICK n \in Offsets : n = bridge.event
  BY DEF PublishJob, PlaceInv, Queues
<1>2. CASE conn = "up"
  <2>1. held'[q][OwnJob(n)] > 0
    <3>1. held \in CopiesType /\ OwnJob(n) \in Jobs
      BY OwnJobs DEF TypeOK, CopiesType
    <3>2. Put(q, OwnJob(n))[q][OwnJob(n)] = held[q][OwnJob(n)] + 1 /\ held[q][OwnJob(n)] \in Nat
      BY <1>2, <3>1, PutEffect DEF CopiesType
    <3>3. QED
      BY <1>1, <3>2 DEF PublishJob
  <2>2. Kept(q, n)'
    BY <2>1, OwnJobs DEF Kept
  <2>3. QED
    BY <1>1, <2>2 DEF Out
<1>3. CASE conn = "cut"
  <2>1. n \in swallowed'[q]
    BY <1>1, <1>3 DEF PublishJob, TypeOK
  <2>2. QED
    BY <1>1, <2>1 DEF Out
<1>4. QED
  BY <1>2, <1>3 DEF PublishJob, TypeOK

\* The shipments whose jobs are owed to the customers.
Owed == {n \in handled : log[n] = "created"}

LEMMA KeptIsOut ==
  /\ NoJobLost <=> \A q \in Queues : /\ \A n \in Owed : Out(q, n)
                                     /\ left[q] # {} => Kept(q, 0)
  /\ NoJobLost' <=> \A q \in Queues : /\ \A n \in Owed' : Out(q, n)'
                                      /\ left'[q] # {} => Kept(q, 0)'
  BY DEF NoJobLost, Out, Owed

\* While the handler publishes nothing, what it has published is kept.
LEMMA KeptStays ==
  ASSUME IInv, [Next]_vars, Keeps, UNCHANGED handled \/ FetchMessage,
         bridge'.pc = "sms" => UNCHANGED bridge
  PROVE  KeptInv'
<1>1. \A q \in Queues : /\ \A n \in Owed : Out(q, n)
                        /\ left[q] # {} => Kept(q, 0)
  BY KeptIsOut DEF IInv, KeptInv
<1>2. Owed \subseteq Keys /\ 0 \in Keys
  BY OffsetsAreKeys DEF IInv, TypeOK, Owed
<1>3. \A q \in Queues : /\ \A n \in Owed' : Out(q, n)'
                        /\ left'[q] # {} => Kept(q, 0)'
  <2>0. Owed' \subseteq Owed
    BY LogIsFixed, FetchEffect DEF FetchMessage, Owed, IInv
  <2>1. ASSUME NEW q \in Queues, NEW n \in Owed PROVE Out(q, n)'
    BY <1>1, <1>2, <2>1, OutStays
  <2>2. ASSUME NEW q \in Queues, left'[q] # {} PROVE Kept(q, 0)'
    BY <1>1, <1>2, <2>2 DEF Keeps
  <2>3. QED
    BY <2>0, <2>1, <2>2
<1>4. NoJobLost'
  BY <1>3, KeptIsOut
<1>5. ASSUME bridge'.pc = "sms"
      PROVE  Kept("email", bridge.event)' \/ bridge'.event \in swallowed'["email"]
  <2>1. bridge' = bridge /\ bridge.event \in Keys
    BY <1>5, OffsetsAreKeys DEF IInv, PlaceInv
  <2>2. Out("email", bridge.event)
    BY <1>5, <2>1 DEF IInv, KeptInv, Out
  <2>3. PICK n \in Keys : n = bridge.event
    BY <2>1
  <2>4. Out("email", n)'
    BY <2>2, <2>3, OutStays DEF Queues
  <2>5. QED
    BY <2>1, <2>3, <2>4 DEF Out
<1>6. QED
  BY <1>4, <1>5 DEF KeptInv

LEMMA KeptStep ==
  ASSUME IInv, [Next]_vars
  PROVE  KeptInv'
<1>1. ASSUME Rebalance
      PROVE  KeptInv'
  BY <1>1, KeepsStep, KeptStays DEF Rebalance, IInv
<1>2. ASSUME FetchMessage
      PROVE  KeptInv'
  <2>1. bridge'.pc # "sms"
    BY <1>2, FetchEffect, AtFields, TopOfLoop DEF IInv
  <2>2. QED
    BY <1>2, <2>1, KeepsStep, KeptStays
<1>3. ASSUME PublishEmail
      PROVE  KeptInv'
  <2>1. Keeps /\ Owed' = Owed
    BY <1>3, KeepsStep, LogIsFixed DEF PublishEmail, PublishJob, Owed, IInv
  <2>2. \E n \in Offsets : n = bridge'.event /\ Out("email", n)'
    BY <1>3, PublishedIsOut, AtFields DEF PublishEmail, PublishJob, IInv, Queues
  <2>3. NoJobLost'
    <3>1. \A q \in Queues : /\ \A n \in Owed : Out(q, n)
                            /\ left[q] # {} => Kept(q, 0)
      BY KeptIsOut DEF IInv, KeptInv
    <3>2. Owed \subseteq Keys /\ 0 \in Keys
      BY OffsetsAreKeys DEF IInv, TypeOK, Owed
    <3>3. ASSUME NEW q \in Queues, NEW n \in Owed PROVE Out(q, n)'
      BY <2>1, <3>1, <3>2, <3>3, OutStays
    <3>4. ASSUME NEW q \in Queues, left'[q] # {} PROVE Kept(q, 0)'
      BY <2>1, <3>1, <3>2, <3>4 DEF Keeps
    <3>5. QED
      BY <2>1, <3>3, <3>4, KeptIsOut
  <2>4. QED
    BY <2>2, <2>3 DEF KeptInv, Out
<1>4. ASSUME PublishSms
      PROVE  KeptInv'
  <2>1. Keeps /\ bridge'.pc = "commit" /\ Owed' \subseteq Owed \cup {bridge.event}
    BY <1>4, KeepsStep, AtFields, LogIsFixed DEF PublishSms, PublishJob, Owed, IInv
  <2>2. PICK e \in Offsets : e = bridge.event
    BY <1>4 DEF PublishSms, PublishJob, IInv, PlaceInv
  <2>3. \A q \in Queues : Out(q, e)'
    <3>1. Out("email", e)
      BY <1>4, <2>2 DEF PublishSms, PublishJob, IInv, KeptInv, Out
    <3>2. Out("email", e)'
      BY <2>1, <3>1, OutStays, OffsetsAreKeys DEF Queues
    <3>3. Out("sms", e)'
      BY <1>4, <2>2, PublishedIsOut DEF PublishSms, IInv, Queues
    <3>4. QED
      BY <3>2, <3>3 DEF Queues
  <2>4. NoJobLost'
    <3>1. \A q \in Queues : /\ \A n \in Owed : Out(q, n)
                            /\ left[q] # {} => Kept(q, 0)
      BY KeptIsOut DEF IInv, KeptInv
    <3>2. Owed \subseteq Keys /\ 0 \in Keys
      BY OffsetsAreKeys DEF IInv, TypeOK, Owed
    <3>3. ASSUME NEW q \in Queues, NEW n \in Owed PROVE Out(q, n)'
      BY <2>1, <3>1, <3>2, <3>3, OutStays
    <3>4. ASSUME NEW q \in Queues, left'[q] # {} PROVE Kept(q, 0)'
      BY <2>1, <3>1, <3>2, <3>4 DEF Keeps
    <3>5. \A q \in Queues, n \in Owed' : Out(q, n)'
      BY <2>1, <2>2, <2>3, <3>3
    <3>6. QED
      BY <3>4, <3>5, KeptIsOut
  <2>5. QED
    BY <2>1, <2>4 DEF KeptInv
<1>5. ASSUME HandlerFails
      PROVE  KeptInv'
  BY <1>5, KeepsStep, KeptStays, TopOfLoop DEF HandlerFails
<1>6. ASSUME CommitMessages
      PROVE  KeptInv'
  BY <1>6, KeepsStep, KeptStays, TopOfLoop DEF CommitMessages
<1>7. ASSUME CommitFails
      PROVE  KeptInv'
  BY <1>7, KeepsStep, KeptStays, TopOfLoop DEF CommitFails
<1>8. ASSUME BridgeExits
      PROVE  KeptInv'
  BY <1>8, KeepsStep, KeptStays, AtFields DEF BridgeExits
<1>9. ASSUME NEW q \in Queues, NEW j \in Jobs, UnwrapFails(q, j)
      PROVE  KeptInv'
  BY <1>9, KeepsStep, KeptStays DEF UnwrapFails, IInv
<1>10. ASSUME NEW q \in Queues, NEW j \in Jobs, ProcessJob(q, j)
      PROVE  KeptInv'
  BY <1>10, KeepsStep, KeptStays DEF ProcessJob, IInv
<1>11. ASSUME NEW q \in Queues, NEW j \in Jobs, Retry(q, j)
      PROVE  KeptInv'
  BY <1>11, KeepsStep, KeptStays DEF Retry, IInv
<1>12. ASSUME NEW q \in Queues, NEW j \in Jobs, DeadLetter(q, j)
      PROVE  KeptInv'
  BY <1>12, KeepsStep, KeptStays DEF DeadLetter, IInv
<1>13. ASSUME NEW q \in Queues, NEW j \in Jobs, ProcessedUnacked(q, j)
      PROVE  KeptInv'
  BY <1>13, KeepsStep, KeptStays DEF ProcessedUnacked, IInv
<1>14. ASSUME NEW q \in Queues, NEW j \in Jobs, RetryUnacked(q, j)
      PROVE  KeptInv'
  BY <1>14, KeepsStep, KeptStays DEF RetryUnacked, IInv
<1>15. ASSUME NEW q \in Queues, NEW j \in Jobs, DeadLetterUnacked(q, j)
      PROVE  KeptInv'
  BY <1>15, KeepsStep, KeptStays DEF DeadLetterUnacked, IInv
<1>16. ASSUME NEW q \in Queues, WorkerExits(q)
      PROVE  KeptInv'
  BY <1>16, KeepsStep, KeptStays DEF WorkerExits, IInv
<1>17. ASSUME Cut
      PROVE  KeptInv'
  BY <1>17, KeepsStep, KeptStays DEF Cut, IInv
<1>18. ASSUME Notice
      PROVE  KeptInv'
  BY <1>18, KeepsStep, KeptStays DEF Notice, IInv
<1>19. ASSUME StopSignal
      PROVE  KeptInv'
  BY <1>19, KeepsStep, KeptStays DEF StopSignal, IInv
<1>20. ASSUME Shutdown
      PROVE  KeptInv'
  BY <1>20, KeepsStep, KeptStays, AtFields DEF Shutdown, Gone
<1>21. ASSUME Crash
      PROVE  KeptInv'
  BY <1>21, KeepsStep, KeptStays, AtFields DEF Crash, Gone
<1>22. ASSUME Start
      PROVE  KeptInv'
  BY <1>22, KeepsStep, KeptStays, AtFields DEF Start
<1>23. ASSUME UNCHANGED vars
      PROVE  KeptInv'
  BY <1>23, KeepsStep, KeptStays DEF vars
<1>24. QED
  BY <1>1, <1>2, <1>3, <1>4, <1>5, <1>6, <1>7, <1>8, <1>9, <1>10, <1>11, <1>12,
     <1>13, <1>14, <1>15, <1>16, <1>17, <1>18, <1>19, <1>20, <1>21, <1>22, <1>23
     DEF Next, BridgeStep, WorkerStep, UnackedStep

-----------------------------------------------------------------------------
(* Without faults.                                                         *)

\* What the invariant says of the jobs of events, when no fault has happened.
Counted(q, n) == /\ held[q][OwnJob(n)] + sent[q][n] <= 1
                 /\ n > position => Nowhere(q, n)
                 /\ n = position /\ bridge.pc \in {"email", q} => Nowhere(q, n)

LEMMA CalmIs ==
  /\ CalmInv <=> (faults = 0 => /\ conn = "up" /\ proc = "up"
                                /\ bridge.pc \in Queues => bridge.event = position
                                /\ \A q \in Queues, n \in Offsets : Counted(q, n))
  /\ CalmInv' <=> (faults' = 0 => /\ conn' = "up" /\ proc' = "up"
                                  /\ bridge'.pc \in Queues => bridge'.event = position'
                                  /\ \A q \in Queues, n \in Offsets : Counted(q, n)')
  BY DEF CalmInv, Counted

\* A step that moves no job of an event, nor the loop but past its handler.
LEMMA CalmStays ==
  ASSUME CalmInv, UNCHANGED <<faults, conn, proc, position, sent>>,
         \A q \in Queues, n \in Offsets : held'[q][OwnJob(n)] = held[q][OwnJob(n)],
         bridge'.pc \in Queues => UNCHANGED bridge
  PROVE  CalmInv'
  BY DEF CalmInv, Nowhere, Queues

LEMMA CalmStep ==
  ASSUME IInv, [Next]_vars
  PROVE  CalmInv'
<1>1. ASSUME Rebalance
      PROVE  CalmInv'
  BY <1>1, FaultCounts DEF Rebalance, IInv, CalmInv
<1>2. ASSUME FetchMessage
      PROVE  CalmInv'
  <2>1. /\ UNCHANGED <<faults, conn, proc, held, sent>> /\ bridge.pc = "fetch"
        /\ position \in Nat /\ position' = position + 1
    BY <1>2, FetchEffect, OffsetsAreKeys DEF FetchMessage, rabbit, workers, IInv, TypeOK
  <2>2. bridge'.pc \in Queues => bridge'.event = position'
    BY <1>2, FetchEffect, AtFields, TopOfLoop DEF IInv, Queues
  <2>3. ASSUME NEW q \in Queues, NEW n \in Offsets, Counted(q, n) PROVE Counted(q, n)'
    <3>1. n \in Nat
      BY OffsetsAreKeys
    <3>2. n > position' => n > position
      BY <2>1, <3>1
    <3>3. n = position' => n > position
      BY <2>1, <3>1
    <3>4. Nowhere(q, n)' <=> Nowhere(q, n)
      BY <2>1 DEF Nowhere
    <3>5. QED
      BY <2>1, <2>3, <3>2, <3>3, <3>4 DEF Counted
  <2>4. QED
    BY <2>1, <2>2, <2>3, CalmIs DEF IInv
<1>3. ASSUME PublishEmail
      PROVE  CalmInv'
  <2> SUFFICES ASSUME faults = 0
               PROVE  CalmInv'
    BY <1>3 DEF PublishEmail, PublishJob, CalmInv
  <2>1. PICK e \in Offsets : e = bridge.event
    BY <1>3 DEF PublishEmail, PublishJob, IInv, PlaceInv
  <2>2. /\ conn = "up" /\ proc = "up" /\ e = position
        /\ \A q \in Queues, n \in Offsets : Counted(q, n)
    BY <1>3, <2>1, CalmIs DEF PublishEmail, PublishJob, IInv, Queues
  <2>3. /\ bridge.pc = "email" /\ bridge'.pc = "sms" /\ bridge'.event = e
        /\ UNCHANGED <<faults, conn, proc, position, sent>>
    BY <1>3, <2>1, AtFields DEF PublishEmail, PublishJob, topic, workers
  <2>4. /\ held'["email"][OwnJob(e)] = held["email"][OwnJob(e)] + 1
        /\ \A q \in Queues, n \in Offsets :
             q # "email" \/ n # e => held'[q][OwnJob(n)] = held[q][OwnJob(n)]
    <3>1. held \in CopiesType /\ "email" \in Queues
      BY DEF IInv, TypeOK, CopiesType, Queues
    <3>2. held' = Put("email", OwnJob(e))
      BY <1>3, <2>1 DEF PublishEmail, PublishJob
    <3>3. QED
      BY <2>2, <3>1, <3>2, PutEffect, OwnJobs
  <2>5. ASSUME NEW q \in Queues, NEW n \in Offsets PROVE Counted(q, n)'
    <3>1. Counted(q, n) /\ n \in Nat /\ e \in Nat
      BY <2>2, OffsetsAreKeys
    <3>2. CASE q = "email" /\ n = e
      <4>1. held[q][OwnJob(n)] = 0 /\ sent[q][n] = 0
        BY <2>2, <2>3, <3>1, <3>2 DEF Counted, Nowhere
      <4>2. held'[q][OwnJob(n)] = 1 /\ sent'[q][n] = 0
        BY <2>3, <2>4, <3>2, <4>1
      <4>3. ~(n > position') /\ bridge'.pc \notin {"email", q}
        BY <2>2, <2>3, <3>1, <3>2
      <4>4. QED
        BY <4>2, <4>3 DEF Counted
    <3>3. CASE ~(q = "email" /\ n = e)
      <4>1. held'[q][OwnJob(n)] = held[q][OwnJob(n)] /\ sent'[q][n] = sent[q][n]
        BY <2>3, <2>4, <3>3
      <4>2. bridge'.pc \in {"email", q} => bridge.pc \in {"email", q}
        BY <2>3 DEF Queues
      <4>3. QED
        BY <2>3, <3>1, <4>1, <4>2 DEF Counted, Nowhere
    <3>4. QED
      BY <3>2, <3>3
  <2>6. QED
    BY <2>2, <2>3, <2>5, CalmIs
<1>4. ASSUME PublishSms
      PROVE  CalmInv'
  <2> SUFFICES ASSUME faults = 0
               PROVE  CalmInv'
    BY <1>4 DEF PublishSms, PublishJob, CalmInv
  <2>1. PICK e \in Offsets : e = bridge.event
    BY <1>4 DEF PublishSms, PublishJob, IInv, PlaceInv
  <2>2. /\ conn = "up" /\ proc = "up" /\ e = position
        /\ \A q \in Queues, n \in Offsets : Counted(q, n)
    BY <1>4, <2>1, CalmIs DEF PublishSms, PublishJob, IInv, Queues
  <2>3. /\ bridge.pc = "sms" /\ bridge'.pc = "commit" /\ bridge'.event = e
        /\ UNCHANGED <<faults, conn, proc, position, sent>>
    BY <1>4, <2>1, AtFields DEF PublishSms, PublishJob, topic, workers
  <2>4. /\ held'["sms"][OwnJob(e)] = held["sms"][OwnJob(e)] + 1
        /\ \A q \in Queues, n \in Offsets :
             q # "sms" \/ n # e => held'[q][OwnJob(n)] = held[q][OwnJob(n)]
    <3>1. held \in CopiesType /\ "sms" \in Queues
      BY DEF IInv, TypeOK, CopiesType, Queues
    <3>2. held' = Put("sms", OwnJob(e))
      BY <1>4, <2>1 DEF PublishSms, PublishJob
    <3>3. QED
      BY <2>2, <3>1, <3>2, PutEffect, OwnJobs
  <2>5. ASSUME NEW q \in Queues, NEW n \in Offsets PROVE Counted(q, n)'
    <3>1. Counted(q, n) /\ n \in Nat /\ e \in Nat
      BY <2>2, OffsetsAreKeys
    <3>2. CASE q = "sms" /\ n = e
      <4>1. held[q][OwnJob(n)] = 0 /\ sent[q][n] = 0
        BY <2>2, <2>3, <3>1, <3>2 DEF Counted, Nowhere
      <4>2. held'[q][OwnJob(n)] = 1 /\ sent'[q][n] = 0
        BY <2>3, <2>4, <3>2, <4>1
      <4>3. ~(n > position') /\ bridge'.pc \notin {"email", q}
        BY <2>2, <2>3, <3>1, <3>2
      <4>4. QED
        BY <4>2, <4>3 DEF Counted
    <3>3. CASE ~(q = "sms" /\ n = e)
      <4>1. held'[q][OwnJob(n)] = held[q][OwnJob(n)] /\ sent'[q][n] = sent[q][n]
        BY <2>3, <2>4, <3>3
      <4>2. bridge'.pc \in {"email", q} => bridge.pc \in {"email", q}
        BY <2>3 DEF Queues
      <4>3. QED
        BY <2>3, <3>1, <4>1, <4>2 DEF Counted, Nowhere
    <3>4. QED
      BY <3>2, <3>3
  <2>6. QED
    BY <2>2, <2>3, <2>5, CalmIs
<1>5. ASSUME HandlerFails
      PROVE  CalmInv'
  <2>1. faults' # 0
    BY <1>5 DEF HandlerFails, IInv, TypeOK, CalmInv
  <2>2. QED
    BY <2>1 DEF CalmInv
<1>6. ASSUME CommitMessages
      PROVE  CalmInv'
  <2>1. bridge'.pc \notin Queues
    BY <1>6, TopOfLoop DEF CommitMessages, Queues
  <2>2. QED
    BY <1>6, <2>1, CalmStays DEF CommitMessages, rabbit, workers, IInv
<1>7. ASSUME CommitFails
      PROVE  CalmInv'
  <2>1. faults' # 0
    BY <1>7, FaultCounts DEF CommitFails, IInv, CalmInv
  <2>2. QED
    BY <2>1 DEF CalmInv
<1>8. ASSUME BridgeExits
      PROVE  CalmInv'
  <2>1. faults' # 0
    BY <1>8 DEF BridgeExits, IInv, TypeOK, CalmInv
  <2>2. QED
    BY <2>1 DEF CalmInv
<1>9. ASSUME NEW q \in Queues, NEW j \in Jobs, UnwrapFails(q, j)
      PROVE  CalmInv'
  BY <1>9, CalmStays DEF UnwrapFails, topic, rabbit, workers, IInv
<1>10. ASSUME NEW q \in Queues, NEW j \in Jobs, ProcessJob(q, j)
      PROVE  CalmInv'
  <2> SUFFICES ASSUME faults = 0
               PROVE  CalmInv'
    BY <1>10 DEF ProcessJob, CalmInv
  <2>1. /\ conn = "up" /\ proc = "up" /\ (bridge.pc \in Queues => bridge.event = position)
        /\ \A p \in Queues, n \in Offsets : Counted(p, n)
    BY CalmIs DEF IInv
  <2>2. UNCHANGED <<faults, conn, proc, position, bridge>>
    BY <1>10 DEF ProcessJob, topic
  <2>3. /\ held[q][j] > 0 /\ held'[q][j] = held[q][j] - 1
        /\ \A p \in Queues, l \in Jobs : p # q \/ l # j => held'[p][l] = held[p][l]
    <3>1. held[q][j] > 0 /\ held \in CopiesType
      BY <1>10, DeliverableIsHeld DEF ProcessJob, IInv
    <3>2. QED
      BY <1>10, <2>1, <3>1, AckedEffect DEF ProcessJob
  <2>4. /\ sent[q][j.key] = 0 => sent'[q][j.key] = 1
        /\ \A p \in Queues, k \in Keys : p # q \/ k # j.key => sent'[p][k] = sent[p][k]
    BY <1>10, SentEffect DEF ProcessJob, IInv
  <2>5. ASSUME NEW p \in Queues, NEW n \in Offsets PROVE Counted(p, n)'
    <3>1. /\ Counted(p, n) /\ OwnJob(n) \in Jobs /\ n \in Keys
          /\ held[p][OwnJob(n)] \in Nat /\ sent[p][n] \in 0..2
      BY <2>1, OwnJobs, OffsetsAreKeys DEF IInv, TypeOK
    <3>2. CASE p = q /\ j = OwnJob(n)
      <4>1. j.key = n
        BY <3>2, OwnJobs
      <4>2. held[p][OwnJob(n)] + sent[p][n] <= 1 /\ held[p][OwnJob(n)] > 0
        BY <2>3, <3>1, <3>2 DEF Counted
      <4>3. held[p][OwnJob(n)] = 1 /\ sent[p][n] = 0
        BY <3>1, <4>2
      <4>4. held'[p][OwnJob(n)] = 0 /\ sent'[p][n] = 1
        BY <2>3, <2>4, <3>2, <4>1, <4>3
      <4>5. ~Nowhere(p, n)
        BY <4>3 DEF Nowhere
      <4>6. QED
        BY <2>2, <3>1, <4>4, <4>5 DEF Counted
    <3>3. CASE ~(p = q /\ j = OwnJob(n))
      <4>1. p # q \/ n # j.key
        <5>1. j.key = n => j = OwnJob(n)
          BY JobCases, OffsetsAreKeys
        <5>2. QED
          BY <3>3, <5>1
      <4>2. held'[p][OwnJob(n)] = held[p][OwnJob(n)] /\ sent'[p][n] = sent[p][n]
        BY <2>3, <2>4, <3>1, <3>3, <4>1
      <4>3. QED
        BY <2>2, <3>1, <4>2 DEF Counted, Nowhere
    <3>4. QED
      BY <3>2, <3>3
  <2>6. QED
    BY <2>1, <2>2, <2>5, CalmIs
<1>11. ASSUME NEW q \in Queues, NEW j \in Jobs, Retry(q, j)
      PROVE  CalmInv'
  <2>1. UNCHANGED <<faults, conn, proc, position, sent, bridge>>
    BY <1>11 DEF Retry, topic, workers
  <2>2. ASSUME NEW p \in Queues, NEW n \in Offsets
        PROVE  held'[p][OwnJob(n)] = held[p][OwnJob(n)]
    <3>1. Again(j) # OwnJob(n) /\ j # OwnJob(n)
      BY <1>11, OwnJobs, AgainIsAJob DEF Retry, Retries
    <3>2. QED
      BY <1>11, <3>1, RetryEffect, OwnJobs DEF Retry, IInv
  <2>3. QED
    BY <2>1, <2>2, CalmStays DEF IInv
<1>12. ASSUME NEW q \in Queues, NEW j \in Jobs, DeadLetter(q, j)
      PROVE  CalmInv'
  <2>1. UNCHANGED <<faults, conn, proc, position, sent, bridge>>
    BY <1>12 DEF DeadLetter, topic, workers
  <2>2. \A n \in Offsets : j # OwnJob(n)
    BY <1>12, OwnJobs DEF DeadLetter, GivesUp
  <2>3. \A p \in Queues, n \in Offsets : held'[p][OwnJob(n)] = held[p][OwnJob(n)]
    <3>1. held[q][j] > 0 /\ held \in CopiesType
      BY <1>12, DeliverableIsHeld DEF DeadLetter, GivesUp, IInv
    <3>2. QED
      BY <1>12, <2>2, <3>1, AckedEffect, OwnJobs DEF DeadLetter
  <2>4. QED
    BY <2>1, <2>3, CalmStays DEF IInv
<1>13. ASSUME NEW q \in Queues, NEW j \in Jobs, ProcessedUnacked(q, j)
      PROVE  CalmInv'
  BY <1>13, FaultCounts DEF ProcessedUnacked, IInv, CalmInv
<1>14. ASSUME NEW q \in Queues, NEW j \in Jobs, RetryUnacked(q, j)
      PROVE  CalmInv'
  BY <1>14, FaultCounts DEF RetryUnacked, IInv, CalmInv
<1>15. ASSUME NEW q \in Queues, NEW j \in Jobs, DeadLetterUnacked(q, j)
      PROVE  CalmInv'
  BY <1>15, FaultCounts DEF DeadLetterUnacked, IInv, CalmInv
<1>16. ASSUME NEW q \in Queues, WorkerExits(q)
      PROVE  CalmInv'
  <2>1. faults' # 0
    BY <1>16 DEF WorkerExits, IInv, TypeOK, CalmInv
  <2>2. QED
    BY <2>1 DEF CalmInv
<1>17. ASSUME Cut
      PROVE  CalmInv'
  BY <1>17, FaultCounts DEF Cut, IInv, CalmInv
<1>18. ASSUME Notice
      PROVE  CalmInv'
  <2>1. faults' # 0
    BY <1>18 DEF Notice, IInv, TypeOK, CalmInv
  <2>2. QED
    BY <2>1 DEF CalmInv
<1>19. ASSUME StopSignal
      PROVE  CalmInv'
  BY <1>19, FaultCounts DEF StopSignal, IInv, CalmInv
<1>20. ASSUME Shutdown
      PROVE  CalmInv'
  <2>1. faults' # 0
    BY <1>20 DEF Shutdown, IInv, TypeOK, CalmInv
  <2>2. QED
    BY <2>1 DEF CalmInv
<1>21. ASSUME Crash
      PROVE  CalmInv'
  BY <1>21, FaultCounts DEF Crash, Gone, IInv, CalmInv
<1>22. ASSUME Start
      PROVE  CalmInv'
  <2>1. faults' # 0
    BY <1>22 DEF Start, IInv, TypeOK, CalmInv
  <2>2. QED
    BY <2>1 DEF CalmInv
<1>23. ASSUME UNCHANGED vars
      PROVE  CalmInv'
  BY <1>23, CalmStays DEF vars, topic, rabbit, workers, IInv
<1>24. QED
  BY <1>1, <1>2, <1>3, <1>4, <1>5, <1>6, <1>7, <1>8, <1>9, <1>10, <1>11, <1>12,
     <1>13, <1>14, <1>15, <1>16, <1>17, <1>18, <1>19, <1>20, <1>21, <1>22, <1>23
     DEF Next, BridgeStep, WorkerStep, UnackedStep

-----------------------------------------------------------------------------
(* Commits.                                                                *)

LEMMA CommitStep ==
  ASSUME IInv, [Next]_vars
  PROVE  CommitInv'
<1>1. handled \subseteq handled' /\ CommitsAreHandled
  BY LogIsFixed DEF IInv, CommitInv
<1>2. CASE FetchMessage
  <2>1. bridge' = At("commit", position') => position' \in handled'
    BY <1>2, FetchEffect DEF FetchMessage, IInv
  <2>2. bridge'.pc = "commit" => bridge'.event \in handled'
    BY <1>2, <2>1, FetchEffect, AtFields, TopOfLoop DEF IInv
  <2>3. QED
    BY <1>1, <1>2, <2>2 DEF FetchMessage, CommitInv, CommitsAreHandled
<1>3. CASE PublishEmail \/ PublishSms
  <2>1. bridge'.pc = "commit" => bridge'.event \in handled'
    BY <1>3, AtFields DEF PublishEmail, PublishSms, PublishJob
  <2>2. UNCHANGED committed
    BY <1>3 DEF PublishEmail, PublishSms, PublishJob, topic
  <2>3. QED
    BY <1>1, <2>1, <2>2 DEF CommitInv, CommitsAreHandled
<1>4. CASE CommitMessages
  <2>1. committed' \in handled /\ bridge'.pc # "commit"
    BY <1>4, TopOfLoop DEF CommitMessages, Commits, IInv, CommitInv
  <2>2. QED
    BY <1>1, <2>1 DEF CommitInv, CommitsAreHandled
<1>5. CASE HandlerFails \/ CommitFails \/ BridgeExits \/ Shutdown \/ Crash \/ Start
  <2>1. UNCHANGED committed /\ bridge'.pc # "commit"
    BY <1>5, TopOfLoop, AtFields
       DEF HandlerFails, CommitFails, BridgeExits, Shutdown, Crash, Gone, Start, topic
  <2>2. QED
    BY <1>1, <2>1 DEF CommitInv, CommitsAreHandled
<1>6. CASE \/ Rebalance \/ Cut \/ Notice \/ StopSignal \/ UNCHANGED vars
           \/ \E q \in Queues : WorkerStep(q) \/ UnackedStep(q)
  <2>1. UNCHANGED <<committed, bridge>>
    BY <1>6 DEF Rebalance, Cut, Notice, StopSignal, WorkerStep, UnackedStep, UnwrapFails,
       ProcessJob, ProcessedUnacked, Retry, RetryUnacked, DeadLetter, DeadLetterUnacked,
       WorkerExits, vars, topic
  <2>2. QED
    BY <1>1, <2>1 DEF IInv, CommitInv, CommitsAreHandled
<1>7. QED
  BY <1>2, <1>3, <1>4, <1>5, <1>6 DEF Next, BridgeStep

-----------------------------------------------------------------------------
LEMMA InitInv == Init => IInv
<1> SUFFICES ASSUME Init PROVE IInv
  OBVIOUS
<1>1. /\ bridge.pc = "fetch" /\ bridge.event = 0 /\ bridge \in Places
      /\ committed = 0 /\ position = 0 /\ conn = "up" /\ proc = "up" /\ handled = {}
  BY AtFields, AtPlaces, OffsetsAreKeys DEF Init
<1>2. PICK start \in Starts :
        /\ log = start.log /\ left = start.left
        /\ held = [q \in Queues |-> [j \in Jobs |-> IF j \in left[q] THEN 1 ELSE 0]]
  BY DEF Init
<1>3. /\ left \in [Queues -> SUBSET LeftJobs]
      /\ [log |-> log, left |-> left] = start
  BY <1>2, StartsAssumption
<1>4. TypeOK
  <2>1. held \in [Queues -> [Jobs -> Nat]] /\ stuck \in [Queues -> [Jobs -> Nat]]
    BY <1>2 DEF Init, NoCopies
  <2>2. sent \in [Queues -> [Keys -> 0..2]] /\ swallowed \in [Queues -> SUBSET Offsets]
    BY DEF Init
  <2>3. dlq \in [Queues -> SUBSET Keys] /\ worker \in [Queues -> {"running", "exited"}]
    BY DEF Init
  <2>4. faults \in 0..MaxFaults
    BY BoundsAssumption DEF Init
  <2>5. QED
    BY <1>1, <1>3, <2>1, <2>2, <2>3, <2>4, OffsetsAreKeys DEF TypeOK, Places
<1>5. PlaceInv
  BY <1>1 DEF PlaceInv
<1>6. KeptInv
  <2>1. ASSUME NEW q \in Queues, left[q] # {} PROVE Kept(q, 0)
    <3>1. PICK j \in LeftJobs : j \in left[q]
      BY <1>3, <2>1
    <3>2. j \in Jobs /\ j.key = 0
      BY DEF Jobs, LeftJobs
    <3>3. held[q][j] = 1
      BY <1>2, <3>1, <3>2
    <3>4. QED
      BY <3>2, <3>3 DEF Kept
  <2>2. QED
    BY <1>1, <2>1 DEF KeptInv, NoJobLost
<1>7. CalmInv
  <2>1. ASSUME NEW q \in Queues, NEW n \in Offsets PROVE Nowhere(q, n)
    <3>1. OwnJob(n) \in Jobs /\ OwnJob(n) \notin left[q]
      BY <1>3, OwnJobs DEF LeftJobs
    <3>2. QED
      BY <1>2, <3>1, OffsetsAreKeys DEF Init, Nowhere
  <2>2. QED
    BY <1>1, <2>1 DEF CalmInv, Nowhere, Queues
<1>8. CommitInv
  BY <1>1 DEF CommitInv, CommitsAreHandled
<1>9. QED
  BY <1>4, <1>5, <1>6, <1>7, <1>8 DEF IInv

\* The inductive invariant holds in every reachable state of bridge, workers and
\* main.
THEOREM Invariance == Spec => []IInv
<1>1. Init => IInv
  BY InitInv
<1>2. IInv /\ [Next]_vars => IInv'
  BY TypeStep, PlaceStep, KeptStep, CalmStep, CommitStep DEF IInv
<1>3. QED
  BY <1>1, <1>2, PTL DEF Spec

\* Every variable keeps its type: a worker never acks a job RabbitMQ does not
\* hold, and no job is wrapped again beyond maxDeliveryReties.
THEOREM TypeCorrect == Spec => []TypeOK
<1>1. IInv => TypeOK
  BY DEF IInv
<1>2. QED
  BY <1>1, Invariance, PTL

\* What bridgeHandler published and what others left in the queues survives every
\* processWithRetryOrDLQ, ack, crash and restart, unless a cut connection swallowed
\* the publishing unseen.
THEOREM JobsAreKept == Spec => []NoJobLost
<1>1. IInv => NoJobLost
  BY DEF IInv, KeptInv
<1>2. QED
  BY <1>1, Invariance, PTL

\* As long as no connection breaks and no process stops, the workers send each
\* customer each message at most once.
THEOREM CalmIsOnce == Spec => []OnceWhileCalm
<1>1. IInv => OnceWhileCalm
  <2> SUFFICES ASSUME IInv, faults = 0, NEW q \in Queues, NEW n \in Offsets
               PROVE  sent[q][n] <= 1
    BY DEF OnceWhileCalm
  <2>1. held[q][OwnJob(n)] \in Nat /\ sent[q][n] \in 0..2
    BY OwnJobs, OffsetsAreKeys DEF IInv, TypeOK
  <2>2. held[q][OwnJob(n)] + sent[q][n] <= 1
    BY DEF IInv, CalmInv
  <2>3. QED
    BY <2>1, <2>2
<1>2. QED
  BY <1>1, Invariance, PTL

\* Consumer.Start commits only events whose handler returned without an error, also
\* when the topic was read again from an older offset in between.
THEOREM CommitsFollowHandling == Spec => []CommitsAreHandled
<1>1. IInv => CommitsAreHandled
  BY DEF IInv, CommitInv
<1>2. QED
  BY <1>1, Invariance, PTL
=============================================================================
