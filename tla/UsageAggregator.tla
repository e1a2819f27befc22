-------------------------- MODULE UsageAggregator --------------------------
(***************************************************************************)
(* Metering of usage by the billing service: the Aggregator                *)
(* (usage/aggregator.usage.go) and the transaction by which                *)
(* PostgresUsageStore.Flush adds a batch to usage_aggregates.              *)
(*                                                                         *)
(* Ingest puts events on a bounded channel; workers move them into the     *)
(* buckets; Flush swaps the buckets for an empty map, tries a few times to *)
(* store what it took, and merges it back when it cannot.  Flush is called *)
(* by the Flusher's ticker and, at the end, by Stop.                       *)
(*                                                                         *)
(* A counter is modelled by the set of events it counts.  Which tenant and *)
(* type a bucket is for plays no part: all buckets are swapped, stored in  *)
(* one transaction and merged together.                                    *)
(***************************************************************************)
EXTENDS Integers, FiniteSets

CONSTANTS Events,       \* the calls of Ingest
          Quantity,
          Workers,
          ChanCap,      \* capacity of eventChan (10000 in the code)
          MaxRetries,   \* attempts to store a batch (3 in the code)
          DbOutcomes,   \* how a transaction may end, see StoreFlush
          MaxRecounts,  \* bound: batches stored and merged back all the same
          None

ASSUME EventsAssumption == IsFiniteSet(Events) /\ None \notin Events
ASSUME QuantityAssumption == Quantity \in [Events -> Int]
ASSUME LimitAssumption ==
  /\ ChanCap \in Nat \ {0} /\ MaxRetries \in Nat \ {0} /\ MaxRecounts \in Nat
ASSUME WorkersAssumption == Workers # {}
ASSUME OutcomeAssumption == DbOutcomes \subseteq {"ok", "error", "lost"}

VARIABLES
  offered,    \* events that Ingest was called with
  accepted,   \* those it put on the channel
  early,      \* those accepted before Stop was called
  queue,      \* eventChan
  wpc, held,  \* each worker's step, and the event it received
  buckets,    \* events counted in agg.buckets
  fpc,        \* the step of each caller of Flush
  batch,      \* events counted in its oldBuckets
  tries,      \* attempts it made to store them
  recorded,   \* whether its BatchID is in flush_history
  added,      \* how often usage_aggregates has each event added to it
  recounted,  \* batches merged back although they are in flush_history
  quit,       \* whether quitChan is closed
  rootLive    \* whether agg.ctx is not cancelled

vars == <<offered, accepted, early, queue, wpc, held, buckets, fpc, batch, tries,
          recorded, added, recounted, quit, rootLive>>

ingress == <<offered, accepted, early>>
workers == <<wpc, held>>
flushing == <<fpc, batch, tries, recorded>>
database == <<added, recounted>>

Callers == {"ticker", "stop"}

Init ==
  /\ offered = {} /\ accepted = {} /\ early = {}
  /\ queue = {}
  /\ wpc = [w \in Workers |-> "select"]
  /\ held = [w \in Workers |-> None]
  /\ buckets = {}
  /\ fpc = [c \in Callers |-> IF c = "ticker" THEN "wait" ELSE "idle"]
  /\ batch = [c \in Callers |-> {}]
  /\ tries = [c \in Callers |-> 0]
  /\ recorded = [c \in Callers |-> FALSE]
  /\ added = [e \in Events |-> 0]
  /\ recounted = 0
  /\ quit = FALSE
  /\ rootLive = TRUE

-----------------------------------------------------------------------------
(* Ingest and the workers.                                                 *)

Chargeable(e) == Quantity[e] > 0

HasRoom == Cardinality(queue) < ChanCap

\* The send does not wait: without room the event is dropped.  Nothing stops
\* callers from ingesting during and after Stop.
Ingest(e) ==
  /\ e \notin offered
  /\ offered' = offered \cup {e}
  /\ IF Chargeable(e) /\ HasRoom
       THEN queue' = queue \cup {e} /\ accepted' = accepted \cup {e}
       ELSE UNCHANGED <<queue, accepted>>
  /\ UNCHANGED <<early, workers, buckets, flushing, database, quit, rootLive>>

\* Both the select loop and the drain loop receive; an event is processed next.
Receive(w, e) ==
  /\ wpc[w] \in {"select", "drain"}
  /\ e \in queue
  /\ queue' = queue \ {e}
  /\ held' = [held EXCEPT ![w] = e]
  /\ UNCHANGED <<ingress, wpc, buckets, flushing, database, quit, rootLive>>

Receives(w) == held[w] = None /\ \E e \in Events : Receive(w, e)

\* Process: create or increment the event's bucket, under agg.mu.
Process(w) ==
  /\ held[w] # None
  /\ buckets' = buckets \cup {held[w]}
  /\ held' = [held EXCEPT ![w] = None]
  /\ UNCHANGED <<ingress, queue, wpc, flushing, database, quit, rootLive>>

\* Mutant: a worker that sees quit leaves what is buffered.
AfterQuitSeenAtOnce == "done"
AfterQuitSeen == "drain"

QuitSeen(w) ==
  /\ wpc[w] = "select"
  /\ held[w] = None
  /\ quit
  /\ wpc' = [wpc EXCEPT ![w] = AfterQuitSeen]
  /\ UNCHANGED <<ingress, queue, held, buckets, flushing, database, quit, rootLive>>

DrainEnds(w) ==
  /\ wpc[w] = "drain"
  /\ held[w] = None
  /\ queue = {}
  /\ wpc' = [wpc EXCEPT ![w] = "done"]
  /\ UNCHANGED <<ingress, queue, held, buckets, flushing, database, quit, rootLive>>

WorkerStep(w) == Receives(w) \/ Process(w) \/ QuitSeen(w) \/ DrainEnds(w)

-----------------------------------------------------------------------------
(* Flush.                                                                  *)

\* Stop flushes when wg.Wait has returned.
MayFlush(c) ==
  c = "stop" => /\ \A w \in Workers : wpc[w] = "done"
                /\ fpc["ticker"] = "done"

\* Mutant: the Flusher ends with its first flush.
BackForGood(c) == "done"

Back(c) == IF c = "ticker" THEN "wait" ELSE "done"

\* The swap, under agg.mu; the batch gets a fresh BatchID.  An empty map ends
\* the call.
BeginFlush(c) ==
  /\ fpc[c] = "wait"
  /\ MayFlush(c)
  /\ IF buckets = {}
       THEN /\ fpc' = [fpc EXCEPT ![c] = Back(c)]
            /\ UNCHANGED <<buckets, batch, tries, recorded>>
       ELSE /\ fpc' = [fpc EXCEPT ![c] = "store"]
            /\ batch' = [batch EXCEPT ![c] = buckets]
            /\ buckets' = {}
            /\ tries' = [tries EXCEPT ![c] = 0]
            /\ recorded' = [recorded EXCEPT ![c] = FALSE]
  /\ UNCHANGED <<ingress, queue, workers, database, quit, rootLive>>

\* Mutant: a retry is not recognized as one.
SeenBeforeNever(c) == FALSE

\* INSERT INTO flush_history ... ON CONFLICT DO NOTHING affected no row.
SeenBefore(c) == recorded[c]

Committed(o) == o \in {"ok", "lost"}

\* One attempt: the transaction commits; or it does not; or it commits and the
\* caller sees an error ("lost").  agg.ctx is used, whatever context Flush was
\* called with: once it is cancelled no transaction begins.
StoreFlush(c, o) ==
  /\ fpc[c] = "store"
  /\ o \in IF rootLive THEN DbOutcomes ELSE {"error"}
  /\ o = "lost" => recounted < MaxRecounts
  /\ tries' = [tries EXCEPT ![c] = @ + 1]
  /\ IF Committed(o) /\ ~SeenBefore(c)
       THEN added' = [e \in Events |-> IF e \in batch[c] THEN added[e] + 1 ELSE added[e]]
       ELSE UNCHANGED added
  /\ recorded' = [recorded EXCEPT ![c] = @ \/ Committed(o)]
  /\ CASE o = "ok" -> /\ fpc' = [fpc EXCEPT ![c] = Back(c)]
                      /\ batch' = [batch EXCEPT ![c] = {}]
       [] o # "ok" -> /\ fpc' = [fpc EXCEPT ![c] =
                                   IF tries[c] + 1 < MaxRetries THEN "store" ELSE "merge"]
                      /\ UNCHANGED batch
  /\ UNCHANGED <<ingress, queue, workers, buckets, recounted, quit, rootLive>>

\* Mutant: the old bucket replaces the one that grew meanwhile.
MergedReplacing(c) == batch[c]
Merged(c) == buckets \cup batch[c]

\* All attempts failed: the old buckets are merged back, under agg.mu.
MergeBack(c) ==
  /\ fpc[c] = "merge"
  /\ buckets' = Merged(c)
  /\ batch' = [batch EXCEPT ![c] = {}]
  /\ recounted' = IF recorded[c] THEN recounted + 1 ELSE recounted
  /\ fpc' = [fpc EXCEPT ![c] = Back(c)]
  /\ UNCHANGED <<ingress, queue, workers, tries, recorded, added, quit, rootLive>>

FlushStep(c) ==
  \/ BeginFlush(c)
  \/ MergeBack(c)
  \/ \E o \in {"ok", "error", "lost"} : StoreFlush(c, o)

\* Mutant: the Flusher does not listen to quitChan.
TickerMayQuitNever == FALSE
TickerMayQuit == quit

FlusherQuits ==
  /\ fpc["ticker"] = "wait"
  /\ TickerMayQuit
  /\ fpc' = [fpc EXCEPT !["ticker"] = "done"]
  /\ UNCHANGED <<ingress, queue, workers, buckets, batch, tries, recorded, database,
                 quit, rootLive>>

\* Stop, up to wg.Wait.
Stop ==
  /\ fpc["stop"] = "idle"
  /\ quit' = TRUE
  /\ fpc' = [fpc EXCEPT !["stop"] = "wait"]
  /\ early' = accepted
  /\ UNCHANGED <<offered, accepted, queue, workers, buckets, batch, tries, recorded,
                 database, rootLive>>

\* Whoever made the aggregator cancels its context.
CancelRoot ==
  /\ rootLive
  /\ rootLive' = FALSE
  /\ UNCHANGED <<ingress, queue, workers, buckets, flushing, database, quit>>

-----------------------------------------------------------------------------
Next ==
  \/ \E e \in Events : Ingest(e)
  \/ \E w \in Workers : WorkerStep(w)
  \/ \E c \in Callers : FlushStep(c)
  \/ FlusherQuits
  \/ Stop
  \/ CancelRoot

Spec == Init /\ [][Next]_vars

(***************************************************************************)
(* Fairness.  Goroutines run; select picks at random among the cases that  *)
(* are ready, so that a Flusher that can quit does not tick forever        *)
(* instead; and while agg.ctx lives the database does not fail every       *)
(* attempt.                                                                *)
(***************************************************************************)
Fairness ==
  /\ \A w \in Workers : WF_vars(WorkerStep(w))
  /\ \A c \in Callers : WF_vars(FlushStep(c)) /\ SF_vars(StoreFlush(c, "ok"))
  /\ SF_vars(FlusherQuits)

FairSpec == Spec /\ Fairness

-----------------------------------------------------------------------------
(* Properties.                                                             *)

(***************************************************************************)
(* The variables hold what the code's types allow; the channel never       *)
(* exceeds its capacity, and only positive quantities are accepted.        *)
(***************************************************************************)
TypeOK ==
  /\ accepted \subseteq offered /\ offered \subseteq Events /\ early \subseteq accepted
  /\ \A e \in accepted : Quantity[e] > 0
  /\ queue \subseteq Events /\ Cardinality(queue) <= ChanCap
  /\ wpc \in [Workers -> {"select", "drain", "done"}]
  /\ held \in [Workers -> Events \cup {None}]
  /\ buckets \subseteq Events
  /\ fpc \in [Callers -> {"idle", "wait", "store", "merge", "done"}]
  /\ batch \in [Callers -> SUBSET Events]
  /\ tries \in [Callers -> 0..MaxRetries]
  /\ recorded \in [Callers -> BOOLEAN]
  /\ added \in [Events -> Nat]
  /\ recounted \in Nat
  /\ quit \in BOOLEAN /\ rootLive \in BOOLEAN

Held == {held[w] : w \in Workers} \ {None}
Batched == UNION {batch[c] : c \in Callers}

(***************************************************************************)
(* No usage is lost while the process lives: what Ingest accepted is in    *)
(* the channel, with a worker, in a bucket, in a batch or in the database, *)
(* however swap, failed attempts and merge interleave with the workers.    *)
(***************************************************************************)
NoUsageLost ==
  \A e \in accepted : \/ added[e] >= 1
                      \/ e \in queue \cup Held \cup buckets \cup Batched

(***************************************************************************)
(* No usage is counted twice, except for batches whose last attempt was    *)
(* committed without the caller learning of it.  Retries of one batch are  *)
(* absorbed by flush_history, and what is yet to be flushed has not been   *)
(* added before.                                                           *)
(***************************************************************************)
AddedOncePerRecount ==
  \A e \in Events :
    /\ added[e] <= recounted + 1
    /\ e \in queue \cup Held \cup buckets => added[e] <= recounted

(***************************************************************************)
(* When Stop returns, everything accepted before it was called has been    *)
(* added to the database or is in the buckets that the final Flush could   *)
(* not store: the workers drained the channel before they left.            *)
(***************************************************************************)
StopDrains ==
  fpc["stop"] = "done" => \A e \in early : added[e] >= 1 \/ e \in buckets

(***************************************************************************)
(* Accepted usage reaches the database, unless the aggregator is stopped   *)
(* or its context cancelled first.                                         *)
(***************************************************************************)
UsageIsStored ==
  \A e \in Events : e \in accepted ~> (added[e] >= 1 \/ quit \/ ~rootLive)

(***************************************************************************)
(* Stop returns, even when no attempt to store anything succeeds.          *)
(***************************************************************************)
StopReturns == fpc["stop"] = "wait" ~> fpc["stop"] = "done"
=============================================================================
