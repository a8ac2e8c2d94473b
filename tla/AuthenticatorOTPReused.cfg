\* One identity with TOTP: two overlapping verifies, and one after them.
SPECIFICATION Spec
CONSTANTS
  e1 = e1
  a = a
  b = b
  Ids = {e1, e2}
  Requests = {r1, r2}
  Identities = {totp}
  Hotp = {}
  Codes = {a, b}
  CodeOf <- MCCodeOf
  LookAhead = 1
  Drift = 1
  MaxTime = 1
  MaxNumber = 2
  None = NoneValue
SYMMETRY Symmetry
INVARIANTS
  ReplayRefused
