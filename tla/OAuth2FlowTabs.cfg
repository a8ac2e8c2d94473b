\* Two flows of two identities answered in any mix, one account at the
\* provider that can be enrolled twice.
SPECIFICATION Spec
CONSTANTS
  Flows = {t1, t2}
  Requests = {r1, r2}
  Identities = {i1, i2}
  Accounts = {a1}
  EnrollmentIds = {e1, e2}
  Pkce = {TRUE}
  Lifetime = 1
  MaxTime = 1
  None = NoneValue
SYMMETRY Symmetry
INVARIANTS
  TypeOK
  NoLateConsume
  LinkedToRequester
  ScopeOfTokens
PROPERTIES
  EnrollmentKept
\* When every flow was started and abandoned, nothing is left to do.
CHECK_DEADLOCK FALSE
