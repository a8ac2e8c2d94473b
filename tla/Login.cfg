\* Requests take turns on a session whose factors span three steps; it may
\* expire and be deleted meanwhile.  A completed login is given to the identity
\* session service, whose two sessions are one refreshed or two families.
SPECIFICATION LoginSpec
CONSTANTS
  Sessions = {a1}
  Requests = {r1, r2}
  i1 = i1
  Identities = {i1, i2}
  password = password
  oauth2 = oauth2
  totp = totp
  email = email
  codes = codes
  pwd = pwd
  federated = federated
  otp = otp
  mail = mail
  Factors = {password, oauth2, totp, email, codes}
  Amrs = {pwd, federated, otp, mail}
  Amr <- MCAmr
  StepOf <- MCStepOf
  AdvanceBy <- MCAdvanceBy
  Enrollments <- MCEnrollments
  Lifetime = 1
  MaxTime = 1
  TakeTurns = TRUE
  IdentitySessions = {s1, s2}
  None = NoneValue
SYMMETRY LoginSymmetry
VIEW LoginView
INVARIANTS
  TypeOK
  OneSessionPerLogin
  SessionsAreEarned
  CompletionJustified
  CompletedOnce
PROPERTIES
  KeepsProgress
