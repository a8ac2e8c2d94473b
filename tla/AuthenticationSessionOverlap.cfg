\* Two requests work on one session at the same time, for two identities either
\* of which may have codes enrolled.
SPECIFICATION Spec
CONSTANTS
  Sessions = {a1}
  Requests = {r1, r2}
  i1 = i1
  Identities = {i1, i2}
  password = password
  oauth2 = oauth2
  totp = totp
  email = email
  codes = codes
  pwd = pwd
  federated = federated
  otp = otp
  mail = mail
  Factors = {password, oauth2, codes}
  Amrs = {pwd, federated, otp, mail}
  Amr <- MCAmr
  StepOf <- MCStepOf
  AdvanceBy <- MCAdvanceBy
  Enrollments <- MCEnrollments
  Lifetime = 1
  MaxTime = 1
  TakeTurns = FALSE
  None = NoneValue
SYMMETRY Symmetry
INVARIANTS
  PathIsLegal
  FactorsEnrolled
  CompletedIsGone
PROPERTIES
  LifeNotProlonged
