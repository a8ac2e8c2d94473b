\* Two callbacks present one state.
SPECIFICATION Spec
CONSTANTS
  Flows = {t1}
  Requests = {r1, r2}
  Identities = {i1}
  Accounts = {a1}
  EnrollmentIds = {e1}
  Pkce = {TRUE, FALSE}
  Lifetime = 1
  MaxTime = 1
  None = NoneValue
INVARIANTS
  ConsumedOnce
\* When every flow was started and abandoned, nothing is left to do.
CHECK_DEADLOCK FALSE
