SPECIFICATION Spec
CONSTANTS
  founder = founder
  ann = ann
  bob = bob
  Users = {founder, ann, bob}
  SuperAdmins = {bob}
  Founder = founder
  FirstRows <- MCFirstRows
  Workers = {w1, w2}
  MaxCommands = 3
  None = None
CHECK_DEADLOCK FALSE
INVARIANTS AuthorityWasReal FormerOwnersStay SomeCallRuns
PROPERTIES NoUnloggedTransfer RightsAreEarned
SYMMETRY Symmetry
