\* Two overlapping uses of a set of two codes, and one after them.
SPECIFICATION Spec
CONSTANTS
  Ids = {e1, e2}
  Requests = {r1, r2}
  Identities = {alice}
  Slots = {c1, c2}
  None = NoneValue
SYMMETRY Symmetry
INVARIANTS
  SingleUse
