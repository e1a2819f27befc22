----------------------------- MODULE MCPricing -----------------------------
(***************************************************************************)
(* Small instances of Pricing: every list of up to three tiers over a few  *)
(* limits, some with free units.                                          *)
(***************************************************************************)
EXTENDS Pricing, SequencesExt

CONSTANTS UnitCosts, FlatFees

MCLimits == {-2, -1, 0, 1, 3}
MCUsages == -1..5

SmallTier == [upTo : MCLimits, unitCost : UnitCosts, flatFee : FlatFees]

MCTierLists == BoundedSeq(SmallTier, 3)
=============================================================================
