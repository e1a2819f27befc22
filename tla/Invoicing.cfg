SPECIFICATION Spec
CONSTANTS
  None = None
  t1 = t1
  ship = ship
  debit = debit
  credit = credit
  usd = usd
  eur = eur
  Workers = {w1, w2}
  Tenants = {t1}
  Kinds = {ship}
  MaxMonth = 2
  MaxUsage = 1
  Rules <- MCRules
  Adjustments = {debit, credit}
  Adjustment <- MCAdjustment
  Ids = {i1, i2}
  Currencies = {usd, eur}
CHECK_DEADLOCK FALSE
INVARIANTS BilledOnce ChargedOnce FinalizedIsSound
PROPERTY InvoiceIsImmutable
SYMMETRY InvoicingSymmetry
