------------------------- MODULE MCUsageAggregator -------------------------
(***************************************************************************)
(* Small instances of UsageAggregator: two workers, and one event whose    *)
(* quantity is not positive.                                               *)
(***************************************************************************)
EXTENDS UsageAggregator

CONSTANTS free

MCQuantity == [e \in Events |-> IF e = free THEN 0 ELSE 1]
=============================================================================
