---------------------------- MODULE UsageProofs ----------------------------
(***************************************************************************)
(* Proofs about UsageAggregator, for every number of workers, events and   *)
(* retries, every capacity of the channel and every way the database may   *)
(* answer.                                                                 *)
(***************************************************************************)
EXTENDS UsageAggregator, FiniteSetTheorems, TLAPS

(***************************************************************************)
(* The inductive invariant.  OnePlace: an event waits in at most one place *)
(* at a time, so that no swap or merge can count it twice.  Somewhere:     *)
(* NoUsageLost with the places spelled out.  Counts: what the database has *)
(* of the events of each place.  PhaseInv: which step of Stop, the Flusher *)
(* and the workers excludes which other, and that a worker only leaves a   *)
(* channel from which the early events are gone.                           *)
(***************************************************************************)
OnePlace ==
  /\ queue \cap buckets = {}
  /\ \A w \in Workers : held[w] # None =>
       /\ held[w] \notin queue \cup buckets
       /\ \A v \in Workers : held[v] = held[w] => v = w
       /\ \A c \in Callers : held[w] \notin batch[c]
  /\ \A c \in Callers : batch[c] \cap (queue \cup buckets) = {}
  /\ batch["ticker"] \cap batch["stop"] = {}

InPlace(e) ==
  \/ e \in queue \cup buckets
  \/ \E w \in Workers : held[w] = e
  \/ \E c \in Callers : e \in batch[c]

Somewhere ==
  /\ \A e \in accepted : added[e] >= 1 \/ InPlace(e)
  /\ \A e \in Events : InPlace(e) => e \in accepted

Counts ==
  /\ \A e \in Events : /\ added[e] <= recounted + 1
                       /\ e \notin accepted => added[e] = 0
                       /\ e \in queue \cup buckets => added[e] <= recounted
  /\ \A w \in Workers : held[w] # None => added[held[w]] <= recounted
  /\ \A c \in Callers : \A e \in batch[c] :
       IF recorded[c] THEN added[e] >= 1 ELSE added[e] <= recounted

PhaseInv ==
  /\ \A c \in Callers : fpc[c] \notin {"store", "merge"} => batch[c] = {}
  /\ fpc["ticker"] # "idle"
  /\ quit <=> fpc["stop"] # "idle"
  /\ early # {} => quit
  /\ \A w \in Workers : /\ wpc[w] # "select" => quit
                        /\ wpc[w] = "done" => held[w] = None /\ early \cap queue = {}
  /\ fpc["stop"] \in {"store", "merge", "done"} =>
       fpc["ticker"] = "done" /\ \A w \in Workers : wpc[w] = "done"
  /\ \A c \in Callers : fpc[c] = "store" => tries[c] < MaxRetries

IInv == TypeOK /\ OnePlace /\ Somewhere /\ Counts /\ PhaseInv

LEMMA CallersAre == Callers = {"ticker", "stop"}
  BY DEF Callers

\* The channel keeps to its capacity.
LEMMA QueueType ==
  ASSUME TypeOK, Next
  PROVE  queue' \subseteq Events /\ Cardinality(queue') <= ChanCap
<1>0. /\ IsFiniteSet(queue) /\ Cardinality(queue) \in Nat /\ Cardinality(queue) <= ChanCap
      /\ queue \subseteq Events
  BY EventsAssumption, FS_Subset, FS_CardinalityType DEF TypeOK
<1>1. ASSUME NEW e \in Events, queue' = queue \cup {e}, HasRoom
      PROVE  Cardinality(queue') <= ChanCap
  BY <1>0, <1>1, FS_AddElement, LimitAssumption DEF HasRoom
<1>2. ASSUME NEW e \in queue, queue' = queue \ {e}
      PROVE  Cardinality(queue') <= ChanCap
  BY <1>0, <1>2, FS_RemoveElement, LimitAssumption
<1>3. CASE queue' = queue
  BY <1>0, <1>3
<1>4. QED
  BY <1>0, <1>1, <1>2, <1>3
     DEF Next, Ingest, WorkerStep, Receives, Receive, Process, QuitSeen, DrainEnds,
         FlushStep, BeginFlush, StoreFlush, MergeBack, FlusherQuits, Stop, CancelRoot

(***************************************************************************)
(* The invariant holds at first and is kept by every step.                 *)
(***************************************************************************)
LEMMA InitIInv == Init => IInv
<1> SUFFICES ASSUME Init PROVE IInv
  OBVIOUS
<1> USE DEF Init
<1>1. TypeOK
  <2>1. Cardinality(queue) <= ChanCap
    BY FS_EmptySet, LimitAssumption
  <2>2. fpc \in [Callers -> {"idle", "wait", "store", "merge", "done"}]
    OBVIOUS
  <2>3. /\ tries \in [Callers -> 0..MaxRetries] /\ added \in [Events -> Nat]
        /\ recounted \in Nat
    BY LimitAssumption
  <2>4. QED
    BY <2>1, <2>2, <2>3 DEF TypeOK
<1>2. OnePlace /\ Somewhere /\ Counts /\ PhaseInv
  BY EventsAssumption, LimitAssumption
     DEF OnePlace, Somewhere, InPlace, Counts, PhaseInv, Callers
<1>3. QED
  BY <1>1, <1>2 DEF IInv

LEMMA Inductive == IInv /\ [Next]_vars => IInv'
<1> SUFFICES ASSUME IInv, [Next]_vars PROVE IInv'
  OBVIOUS
<1> USE EventsAssumption, LimitAssumption, CallersAre
    DEF IInv, ingress, workers, flushing, database
<1>1. ASSUME NEW e \in Events, Ingest(e)
      PROVE  IInv'
  <2>1. TypeOK'
    BY <1>1, QueueType, QuantityAssumption DEF Ingest, Next, Chargeable, TypeOK
  <2>2. e \notin accepted /\ e \notin early
    BY <1>1 DEF Ingest, TypeOK
  <2>3. ~InPlace(e) /\ added[e] = 0
    BY <2>2 DEF Somewhere, Counts
  <2>4. OnePlace'
    BY <1>1, <2>3 DEF Ingest, OnePlace, InPlace
  <2>5. Somewhere'
    BY <1>1, <2>2 DEF Ingest, Somewhere, InPlace, TypeOK
  <2>6. Counts'
    BY <1>1, <2>3 DEF Ingest, Counts, TypeOK
  <2>7. PhaseInv'
    BY <1>1, <2>2 DEF Ingest, PhaseInv
  <2>8. QED
    BY <2>1, <2>4, <2>5, <2>6, <2>7
<1>2. ASSUME NEW w \in Workers, NEW e \in Events, held[w] = None, Receive(w, e)
      PROVE  IInv'
  <2>1. TypeOK'
    BY <1>2, QueueType DEF Receive, Next, WorkerStep, Receives, TypeOK
  <2>2. InPlace(e) /\ added[e] <= recounted
    BY <1>2 DEF Receive, InPlace, Counts
  <2>3. \A v \in Workers : held'[v] = IF v = w THEN e ELSE held[v]
    BY <1>2 DEF Receive, TypeOK
  <2>4. OnePlace'
    BY <1>2, <2>3 DEF Receive, OnePlace
  <2>5. Somewhere'
    <3>1. ASSUME NEW x \in Events PROVE InPlace(x)' <=> InPlace(x)
      BY <1>2, <2>3 DEF Receive, InPlace
    <3>2. QED
      BY <1>2, <3>1 DEF Receive, Somewhere, TypeOK
  <2>6. Counts'
    BY <1>2, <2>2, <2>3 DEF Receive, Counts
  <2>7. PhaseInv'
    BY <1>2, <2>3 DEF Receive, PhaseInv
  <2>8. QED
    BY <2>1, <2>4, <2>5, <2>6, <2>7
<1>3. ASSUME NEW w \in Workers, Process(w)
      PROVE  IInv'
  <2>1. TypeOK'
    BY <1>3 DEF Process, TypeOK
  <2>2. held[w] \in Events
    BY <1>3 DEF Process, TypeOK
  <2>3. \A v \in Workers : held'[v] = IF v = w THEN None ELSE held[v]
    BY <1>3 DEF Process, TypeOK
  <2>4. OnePlace'
    BY <1>3, <2>3 DEF Process, OnePlace
  <2>5. Somewhere'
    BY <1>3, <2>2, <2>3 DEF Process, Somewhere, InPlace
  <2>6. Counts'
    BY <1>3, <2>2, <2>3 DEF Process, Counts
  <2>7. PhaseInv'
    BY <1>3, <2>3 DEF Process, PhaseInv
  <2>8. QED
    BY <2>1, <2>4, <2>5, <2>6, <2>7
<1>4. ASSUME NEW w \in Workers, QuitSeen(w) \/ DrainEnds(w)
      PROVE  IInv'
  <2>1. TypeOK' /\ OnePlace' /\ Somewhere' /\ Counts'
    BY <1>4 DEF QuitSeen, DrainEnds, AfterQuitSeen, TypeOK, OnePlace, Somewhere, InPlace,
                Counts
  <2>2. PhaseInv'
    BY <1>4 DEF QuitSeen, DrainEnds, AfterQuitSeen, PhaseInv, TypeOK
  <2>3. QED
    BY <2>1, <2>2
<1>5. ASSUME NEW c \in Callers, BeginFlush(c)
      PROVE  IInv'
  <2>1. TypeOK'
    <3>1. /\ UNCHANGED <<ingress, queue, workers, database, quit, rootLive>>
          /\ buckets' \subseteq Events
      BY <1>5 DEF BeginFlush, TypeOK
    <3>2. fpc' \in [Callers -> {"idle", "wait", "store", "merge", "done"}]
      BY <1>5 DEF BeginFlush, Back, TypeOK
    <3>3. batch' \in [Callers -> SUBSET Events]
      BY <1>5 DEF BeginFlush, TypeOK
    <3>4. tries' \in [Callers -> 0..MaxRetries]
      BY <1>5 DEF BeginFlush, TypeOK
    <3>5. recorded' \in [Callers -> BOOLEAN]
      BY <1>5 DEF BeginFlush, TypeOK
    <3>6. QED
      BY <3>1, <3>2, <3>3, <3>4, <3>5 DEF TypeOK
  <2>2. batch[c] = {}
    BY <1>5 DEF BeginFlush, PhaseInv
  <2>3. CASE buckets = {}
    <3>1. OnePlace' /\ Somewhere' /\ Counts'
      BY <1>5, <2>3 DEF BeginFlush, OnePlace, Somewhere, InPlace, Counts
    <3>2. PhaseInv'
      BY <1>5, <2>3 DEF BeginFlush, MayFlush, Back, PhaseInv, TypeOK
    <3>3. QED
      BY <2>1, <3>1, <3>2
  <2>4. CASE buckets # {}
    <3>1. /\ batch' = [batch EXCEPT ![c] = buckets]
          /\ buckets' = {}
          /\ recorded' = [recorded EXCEPT ![c] = FALSE]
          /\ UNCHANGED <<ingress, queue, workers, database>>
      BY <1>5, <2>4 DEF BeginFlush
    <3>2. \A d \in Callers : batch'[d] = IF d = c THEN buckets ELSE batch[d]
      BY <3>1 DEF TypeOK
    <3>a. \A d \in Callers : recorded'[d] = IF d = c THEN FALSE ELSE recorded[d]
      BY <3>1, Zenon DEF TypeOK
    <3>3. OnePlace'
      BY <2>2, <3>1, <3>2 DEF OnePlace
    <3>4. Somewhere'
      <4>1. ASSUME NEW e PROVE InPlace(e)' <=> InPlace(e)
        BY <2>2, <3>1, <3>2 DEF InPlace
      <4>2. QED
        BY <3>1, <4>1 DEF Somewhere
    <3>5. Counts'
      BY <3>1, <3>2, <3>a DEF Counts, TypeOK
    <3>6. PhaseInv'
      BY <1>5, <2>4 DEF BeginFlush, MayFlush, PhaseInv, TypeOK
    <3>7. QED
      BY <2>1, <3>3, <3>4, <3>5, <3>6
  <2>5. QED
    BY <2>3, <2>4
<1>6. ASSUME NEW c \in Callers, NEW o \in {"ok", "error", "lost"}, StoreFlush(c, o)
      PROVE  IInv'
  <2> DEFINE adds == Committed(o) /\ ~recorded[c]
  <2>1. /\ \A e \in Events : added'[e] =
             IF adds /\ e \in batch[c] THEN added[e] + 1 ELSE added[e]
        /\ \A d \in Callers :
             recorded'[d] = IF d = c THEN recorded[c] \/ Committed(o) ELSE recorded[d]
        /\ UNCHANGED <<ingress, queue, workers, buckets, recounted, quit, rootLive>>
    BY <1>6 DEF StoreFlush, SeenBefore, TypeOK
  <2>2. \A d \in Callers : IF d = c /\ o = "ok" THEN batch'[d] = {}
                                                ELSE batch'[d] = batch[d]
    BY <1>6 DEF StoreFlush, TypeOK
  <2>3. TypeOK'
    <3>1. added' \in [Events -> Nat]
      BY <1>6 DEF StoreFlush, TypeOK
    <3>2. /\ tries' \in [Callers -> 0..MaxRetries]
          /\ fpc' \in [Callers -> {"idle", "wait", "store", "merge", "done"}]
      <4>1. /\ tries[c] \in 0..MaxRetries /\ tries[c] < MaxRetries
            /\ tries \in [Callers -> 0..MaxRetries]
            /\ tries' = [tries EXCEPT ![c] = tries[c] + 1]
        BY <1>6 DEF StoreFlush, TypeOK, PhaseInv
      <4>2. tries' \in [Callers -> 0..MaxRetries]
        BY <4>1
      <4>3. fpc' \in [Callers -> {"idle", "wait", "store", "merge", "done"}]
        BY <1>6 DEF StoreFlush, Back, TypeOK
      <4>4. QED
        BY <4>2, <4>3
    <3>3. batch' \in [Callers -> SUBSET Events] /\ recorded' \in [Callers -> BOOLEAN]
      BY <1>6 DEF StoreFlush, TypeOK, Committed
    <3>4. QED
      BY <2>1, <3>1, <3>2, <3>3 DEF TypeOK
  <2>4. OnePlace'
    BY <2>1, <2>2 DEF OnePlace
  <2>5. \A e \in batch[c] : o = "ok" => added'[e] >= 1
    BY <2>1 DEF Counts, TypeOK, Committed
  <2>6. Somewhere'
    <3>1. ASSUME NEW e \in Events, e \notin batch[c] \/ o # "ok"
          PROVE  InPlace(e)' <=> InPlace(e)
      BY <2>1, <2>2, <3>1 DEF InPlace
    <3>2. ASSUME NEW e \in Events, InPlace(e)'
          PROVE  InPlace(e)
      BY <2>1, <2>2, <3>2 DEF InPlace
    <3>3. \A e \in Events : added[e] >= 1 => added'[e] >= 1
      BY <2>1 DEF TypeOK
    <3>4. QED
      BY <2>1, <2>5, <3>1, <3>2, <3>3 DEF Somewhere, TypeOK
  <2>7. Counts'
    <3>1. \A e \in Events : e \notin accepted => e \notin batch[c]
      BY DEF Somewhere, InPlace
    <3>2. \A e \in Events : e \in queue \cup buckets => e \notin batch[c]
      BY DEF OnePlace
    <3>3. \A w \in Workers : held[w] # None => held[w] \in Events /\ held[w] \notin batch[c]
      BY DEF OnePlace, TypeOK
    <3>4. \A d \in Callers : d # c => batch[d] \cap batch[c] = {}
      BY DEF OnePlace
    <3>5. /\ \A e \in Events : added[e] \in Nat
          /\ recounted \in Nat
          /\ \A d \in Callers : batch[d] \subseteq Events
      BY DEF TypeOK
    <3>6. \A e \in Events : /\ added'[e] <= recounted + 1
                            /\ e \notin accepted => added'[e] = 0
                            /\ e \in queue \cup buckets => added'[e] <= recounted
      BY <2>1, <3>1, <3>2, <3>5 DEF Counts
    <3>7. \A w \in Workers : held[w] # None => added'[held[w]] <= recounted
      BY <2>1, <3>3 DEF Counts
    <3>8. \A d \in Callers : \A e \in batch'[d] :
            IF recorded'[d] THEN added'[e] >= 1 ELSE added'[e] <= recounted
      <4> SUFFICES ASSUME NEW d \in Callers, NEW e \in batch'[d]
                   PROVE  IF recorded'[d] THEN added'[e] >= 1 ELSE added'[e] <= recounted
        OBVIOUS
      <4>1. e \in batch[d] /\ e \in Events /\ added[e] \in Nat
        BY <2>2, <3>5
      <4>2. IF recorded[d] THEN added[e] >= 1 ELSE added[e] <= recounted
        BY <4>1 DEF Counts
      <4>3. CASE d # c
        BY <2>1, <3>4, <4>1, <4>2, <4>3
      <4>4. CASE d = c /\ ~Committed(o)
        BY <2>1, <4>1, <4>2, <4>4
      <4>5. CASE d = c /\ Committed(o)
        <5>1. recorded'[d]
          BY <2>1, <4>5, Zenon
        <5>2. added'[e] >= 1
          BY <2>1, <4>1, <4>2, <4>5
        <5>3. QED
          BY <5>1, <5>2
      <4>6. QED
        BY <4>3, <4>4, <4>5
    <3>9. QED
      BY <2>1, <3>6, <3>7, <3>8 DEF Counts
  <2>8. PhaseInv'
    <3>1. \A d \in Callers : IF d = c THEN /\ fpc[d] = "store"
                                           /\ fpc'[d] \in {"store", "merge", Back(c)}
                                           /\ tries'[d] = tries[d] + 1
                              ELSE fpc'[d] = fpc[d] /\ tries'[d] = tries[d]
      BY <1>6 DEF StoreFlush, TypeOK
    <3>2. /\ fpc'[c] \notin {"store", "merge"} => batch'[c] = {}
          /\ fpc'[c] = "store" => tries'[c] < MaxRetries
      BY <1>6 DEF StoreFlush, Back, TypeOK
    <3>3. QED
      BY <2>1, <2>2, <3>1, <3>2 DEF PhaseInv, Back
  <2>9. QED
    BY <2>3, <2>4, <2>6, <2>7, <2>8
<1>7. ASSUME NEW c \in Callers, MergeBack(c)
      PROVE  IInv'
  <2>1. TypeOK'
    BY <1>7 DEF MergeBack, Merged, Back, TypeOK
  <2>2. /\ \A d \in Callers : batch'[d] = IF d = c THEN {} ELSE batch[d]
        /\ buckets' = buckets \cup batch[c]
        /\ recounted' = IF recorded[c] THEN recounted + 1 ELSE recounted
        /\ UNCHANGED <<ingress, queue, workers, recorded, added>>
    BY <1>7 DEF MergeBack, Merged, TypeOK
  <2>3. OnePlace'
    BY <2>2 DEF OnePlace
  <2>4. Somewhere'
    <3>1. ASSUME NEW e PROVE InPlace(e)' <=> InPlace(e)
      BY <2>2 DEF InPlace
    <3>2. QED
      BY <2>2, <3>1 DEF Somewhere
  <2>5. Counts'
    <3>1. recounted \in Nat /\ (\A e \in Events : added[e] \in Nat)
          /\ (\A w \in Workers : held[w] # None => held[w] \in Events)
          /\ (\A d \in Callers : batch[d] \subseteq Events)
      BY DEF TypeOK
    <3>2. QED
      BY <2>2, <3>1 DEF Counts
  <2>6. PhaseInv'
    BY <1>7 DEF MergeBack, Back, PhaseInv, TypeOK
  <2>7. QED
    BY <2>1, <2>3, <2>4, <2>5, <2>6
<1>8. ASSUME FlusherQuits \/ Stop \/ CancelRoot
      PROVE  IInv'
  <2>1. TypeOK'
    <3>1. fpc' \in [Callers -> {"idle", "wait", "store", "merge", "done"}]
      BY <1>8 DEF FlusherQuits, Stop, CancelRoot, TypeOK
    <3>2. QED
      BY <1>8, <3>1 DEF FlusherQuits, Stop, CancelRoot, TypeOK
  <2>a. OnePlace' /\ Somewhere' /\ Counts'
    <3>1. UNCHANGED <<offered, accepted, queue, workers, buckets, batch, recorded, database>>
      BY <1>8 DEF FlusherQuits, Stop, CancelRoot
    <3>2. QED
      BY <3>1 DEF OnePlace, Somewhere, InPlace, Counts
  <2>2. PhaseInv'
    BY <1>8 DEF FlusherQuits, TickerMayQuit, Stop, CancelRoot, PhaseInv, TypeOK
  <2>3. QED
    BY <2>1, <2>a, <2>2
<1>9. ASSUME UNCHANGED vars
      PROVE  IInv'
  BY <1>9 DEF vars, TypeOK, OnePlace, Somewhere, InPlace, Counts, PhaseInv
<1>10. QED
  BY <1>1, <1>2, <1>3, <1>4, <1>5, <1>6, <1>7, <1>8, <1>9
     DEF Next, WorkerStep, Receives, FlushStep

(***************************************************************************)
(* The inductive invariant holds in every reachable state.                 *)
(***************************************************************************)
THEOREM Invariance == Spec => []IInv
  BY InitIInv, Inductive, PTL DEF Spec

-----------------------------------------------------------------------------
(***************************************************************************)
(* The channel keeps to its capacity and every variable to its type.       *)
(***************************************************************************)
THEOREM TypeCorrect == Spec => []TypeOK
<1>1. IInv => TypeOK
  BY DEF IInv
<1>2. QED
  BY <1>1, Invariance, PTL

(***************************************************************************)
(* What Ingest accepted is never lost between channel, workers, buckets,   *)
(* batches and database.                                                   *)
(***************************************************************************)
THEOREM UsageIsKept == Spec => []NoUsageLost
<1>1. ASSUME IInv PROVE NoUsageLost
  <2> SUFFICES ASSUME NEW e \in accepted, ~(added[e] >= 1)
               PROVE  e \in queue \cup Held \cup buckets \cup Batched
    BY DEF NoUsageLost
  <2>1. InPlace(e) /\ e # None
    BY <1>1, EventsAssumption DEF IInv, Somewhere, TypeOK
  <2>2. QED
    BY <2>1 DEF InPlace, Held, Batched
<1>2. QED
  BY <1>1, Invariance, PTL

(***************************************************************************)
(* Flush adds usage once, up to the batches it recounts without knowing    *)
(* that they were committed.                                               *)
(***************************************************************************)
THEOREM UsageIsNotRepeated == Spec => []AddedOncePerRecount
<1>1. ASSUME IInv PROVE AddedOncePerRecount
  BY <1>1 DEF IInv, Counts, AddedOncePerRecount, Held
<1>2. QED
  BY <1>1, Invariance, PTL

(***************************************************************************)
(* Stop returns with nothing of what was accepted before it left in the    *)
(* channel or with a worker.                                               *)
(***************************************************************************)
THEOREM StopIsOrderly == Spec => []StopDrains
<1>1. ASSUME IInv PROVE StopDrains
  <2> SUFFICES ASSUME fpc["stop"] = "done", NEW e \in early, ~(added[e] >= 1)
               PROVE  e \in buckets
    BY DEF StopDrains
  <2>1. e \in accepted /\ e # None
    BY <1>1, EventsAssumption DEF IInv, TypeOK
  <2>2. InPlace(e)
    BY <1>1, <2>1 DEF IInv, Somewhere
  <2>3. \A w \in Workers : wpc[w] = "done"
    BY <1>1 DEF IInv, PhaseInv
  <2>4. e \notin queue /\ \A w \in Workers : held[w] # e
    BY <1>1, <2>1, <2>3, WorkersAssumption DEF IInv, PhaseInv
  <2>5. \A c \in Callers : batch[c] = {}
    BY <1>1, CallersAre DEF IInv, PhaseInv
  <2>6. QED
    BY <2>2, <2>4, <2>5 DEF InPlace
<1>2. QED
  BY <1>1, Invariance, PTL
=============================================================================
