SPECIFICATION Spec
CONSTANTS
  Families = {f1, f2}
  Tokens = {t1, t2, t3}
  Workers = {w1, w2}
  Emails = {e1}
  Passwords = {p1, p2}
  None = None
CHECK_DEADLOCK FALSE
INVARIANTS RevocationIsFinal OneLiveToken SessionSurvives SessionsMatchAccounts
SYMMETRY Symmetry
