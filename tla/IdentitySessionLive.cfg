\* Two calls get in each other's way while the deadline passes and rows are
\* deleted; every one of them still returns.  With two ids the second refresh
\* of a token finds it replaced, and only a third one would lack an id.
SPECIFICATION FairSpec
CONSTANTS
  SessionIds = {s1, s2}
  Requests = {r1, r2}
  Grants = {g1}
  Lifetime = 1
  RefreshLifetime = 1
  MaxTime = 1
  None = NoneValue
VIEW LiveView
PROPERTIES
  CallsReturn
