SPECIFICATION PricingSpec
CONSTANTS
  UnitCosts = {0, 3}
  FlatFees = {5}
  TierLists <- MCTierLists
  Usages <- MCUsages
CHECK_DEADLOCK FALSE
INVARIANT PricedUnitByUnit
