\* Three generations of one family, or up to three families, under every
\* interleaving of two calls.  With up to two sessions the deadlines pass and
\* rows are deleted meanwhile: a second session inherits the deadline, a
\* consumed token comes back before or after it.
SPECIFICATION Spec
CONSTANTS
  SessionIds = {s1, s2, s3}
  Requests = {r1, r2}
  Grants = {g1}
  Lifetime = 2
  RefreshLifetime = 2
  MaxTime = 2
  None = NoneValue
CONSTRAINT ThirdAtOnce
VIEW SafetyView
SYMMETRY Symmetry
INVARIANTS
  TypeOK
  OneLiveSession
  RevocationReachesFamily
  LinearLineage
  SingleUse
  RevokedForGood
  DeadlineInherited
  NoStaleAccept
PROPERTIES
  LineageKept
  KeepsPromise
  ReplayIsPunished
