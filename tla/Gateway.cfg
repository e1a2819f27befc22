SPECIFICATION Spec
CONSTANTS
  Requests = {r1, r2}
  Documents <- MCDocuments
  Ids = {1, 2}
  Etas = {1, 2}
  Initial = {"IN_TRANSIT", "PRE_TRANSIT"}
  Filters = {"IN_TRANSIT"}
  PageSize = 1
  Half = 16
  LargestInt = 64
  None = None
INVARIANTS ReaderMissesNothing ResponseIsHonest MutationsAreSerial
SYMMETRY RequestSymmetry
