\* One identity with HOTP and one with TOTP, one at a time, two enrollments, two calls.
SPECIFICATION Spec
CONSTANTS
  e1 = e1
  a = a
  b = b
  Ids = {e1, e2}
  Requests = {r1, r2}
  Identities = {hotp, totp}
  Hotp = {hotp}
  Codes = {a, b}
  CodeOf <- MCCodeOf
  LookAhead = 1
  Drift = 1
  MaxTime = 2
  MaxNumber = 2
  None = NoneValue
CONSTRAINT OneOwner
VIEW View
SYMMETRY Symmetry
INVARIANTS
  TypeOK
  RowIsProved
  OneEnrollment
PROPERTIES
  KeepsPromise
