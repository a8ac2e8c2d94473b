\* Two overlapping calls, three codes: enough for two to be left and a third
\* to replace them.
SPECIFICATION Spec
CONSTANTS
  Otps = {o1, o2, o3}
  Requests = {r1, r2}
  Sessions = {s1, s2}
  Codes = {c1, c2}
  Lifetime = 1
  MaxTime = 1
  None = NoneValue
SYMMETRY Symmetry
INVARIANTS
  TypeOK
  ExistingReplaced
  NoSpentAccept
