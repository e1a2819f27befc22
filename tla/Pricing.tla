------------------------------ MODULE Pricing ------------------------------
(***************************************************************************)
(* The tiered pricing engine: ValidateTiers, and the loop of CalculateCost *)
(* that spreads a quantity over the tiers, one step per tier.              *)
(*                                                                         *)
(* A tier reaches up to and including its limit UpTo; the last one has no  *)
(* limit, written -1.                                                      *)
(***************************************************************************)
EXTENDS Integers, Sequences, FiniteSetsExt

CONSTANTS TierLists,    \* the price lists an engine may be built with
          Usages        \* the quantities it may be asked for

Unlimited == -1

Tier == [upTo : Int, unitCost : Int, flatFee : Int]

ASSUME InputsAssumption == TierLists \subseteq Seq(Tier) /\ Usages \subseteq Int

VARIABLES
  tiers,      \* e.Tiers
  asked,      \* the argument of CalculateCost
  phase,      \* "validate", "loop", "priced", or why there is no price
  next,       \* the tier the loop has come to
  remaining,  \* remainingUsage
  prevLimit,
  total       \* totalCost, in cents

pricingVars == <<tiers, asked, phase, next, remaining, prevLimit, total>>

-----------------------------------------------------------------------------
InitPricing ==
  /\ tiers \in TierLists
  /\ asked \in Usages
  /\ phase = "validate"
  /\ next = 1
  /\ remaining = asked
  /\ prevLimit = 0
  /\ total = 0

\* Each tier must reach further than the one before it.
Increasing(list) ==
  \A i \in 2..Len(list) :
    /\ list[i - 1].upTo # Unlimited
    /\ list[i].upTo # Unlimited => list[i].upTo > list[i - 1].upTo

ValidTiers(list) ==
  /\ Len(list) > 0
  /\ list[Len(list)].upTo = Unlimited
  /\ Increasing(list)
  /\ \A i \in 1..Len(list) : list[i].unitCost >= 0 /\ list[i].flatFee >= 0

Admissible(quantity) == quantity >= 0

\* The caller validates the list; CalculateCost looks at the usage first.
ValidateTiers ==
  /\ phase = "validate"
  /\ phase' = IF ~ValidTiers(tiers) THEN "invalid"
              ELSE IF Admissible(asked) THEN "loop" ELSE "negative"
  /\ UNCHANGED <<tiers, asked, next, remaining, prevLimit, total>>

\* Mutant: the upper limit of a tier is exclusive.
TierUsageExclusive(t) ==
  IF t.upTo = Unlimited \/ remaining < t.upTo - prevLimit THEN remaining
  ELSE t.upTo - prevLimit - 1

\* How many of the remaining units fall into tier t.
TierUsage(t) ==
  IF t.upTo = Unlimited THEN remaining
  ELSE LET capacity == t.upTo - prevLimit
       IN IF remaining > capacity THEN capacity ELSE remaining

\* What tier t costs for n units: the flat fee only when it is entered.
TierCost(t, n) == n * t.unitCost + (IF n > 0 THEN t.flatFee ELSE 0)

LimitAfter(t) == IF t.upTo = Unlimited THEN prevLimit ELSE t.upTo

CalculateTier ==
  /\ phase = "loop"
  /\ next <= Len(tiers) /\ remaining > 0
  /\ LET t == tiers[next]
     IN /\ total' = total + TierCost(t, TierUsage(t))
        /\ remaining' = remaining - TierUsage(t)
        /\ prevLimit' = LimitAfter(t)
  /\ next' = next + 1
  /\ UNCHANGED <<tiers, asked, phase>>

CalculateEnds ==
  /\ phase = "loop"
  /\ next > Len(tiers) \/ remaining <= 0
  /\ phase' = IF remaining > 0 THEN "exceeds" ELSE "priced"
  /\ UNCHANGED <<tiers, asked, next, remaining, prevLimit, total>>

NextPricing == ValidateTiers \/ CalculateTier \/ CalculateEnds

PricingSpec == InitPricing /\ [][NextPricing]_pricingVars

-----------------------------------------------------------------------------
(* The price, unit by unit.                                                *)

\* Unit u belongs to the first tier that reaches it.
Reaches(t, u) == t.upTo = Unlimited \/ u <= t.upTo

TierOf(list, u) ==
  CHOOSE i \in 1..Len(list) : /\ Reaches(list[i], u)
                              /\ \A j \in 1..(i - 1) : ~Reaches(list[j], u)

\* What each of so many units costs, and the flat fee of each tier they enter.
CostPerUnit(list, quantity) ==
  [u \in 1..quantity |-> list[TierOf(list, u)].unitCost]

Entered(list, quantity) == {TierOf(list, u) : u \in 1..quantity}

FeePerTier(list) == [i \in 1..Len(list) |-> list[i].flatFee]

PriceOf(list, quantity) ==
  SumFunction(CostPerUnit(list, quantity))
    + SumFunctionOnSet(FeePerTier(list), Entered(list, quantity))

-----------------------------------------------------------------------------
(* Properties.                                                             *)

PricingTypeOK ==
  /\ tiers \in TierLists /\ asked \in Usages
  /\ phase \in {"validate", "loop", "priced", "invalid", "negative", "exceeds"}
  /\ next \in 1..(Len(tiers) + 1)
  /\ phase \in {"loop", "priced"} => asked >= 0
  /\ remaining \in Int /\ prevLimit \in Int /\ total \in Int

\* ValidateTiers lets a limit below zero pass; no such tier can hold a unit.
Sensible(list) == \A i \in 1..Len(list) : list[i].upTo >= Unlimited

\* "validation failed - but shouldn't happen": a list that ValidateTiers passes
\* leaves no unit without a tier.
NeverExceeds == phase # "exceeds"

\* CalculateCost charges each unit at the price of the tier it belongs to, and the
\* flat fee of every tier it reaches once, for every list that ValidateTiers passes
\* and that has no limit below zero; and it has a price for every quantity.
PricedUnitByUnit ==
  /\ NeverExceeds
  /\ phase = "priced" /\ Sensible(tiers) => total = PriceOf(tiers, asked)
=============================================================================
