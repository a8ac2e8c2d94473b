\* Two identities, two sets of two codes, two calls at a time.
SPECIFICATION Spec
CONSTANTS
  Ids = {e1, e2}
  Requests = {r1, r2}
  Identities = {alice, bob}
  Slots = {c1, c2}
  None = NoneValue
SYMMETRY Symmetry
INVARIANTS
  TypeOK
  OneEnrollment
PROPERTIES
  KeepsPromise
