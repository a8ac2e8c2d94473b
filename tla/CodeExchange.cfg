\* Two flows of OIDC, one with nonce; two of GitHub, one with PKCE.
SPECIFICATION Spec
CONSTANTS
  Flows = {oidc1, oidc2, github1, github2}
  Requests = {r1, r2}
  Keys = {k1, k2}
  Oidc = {oidc1, oidc2}
  Nonce = {oidc1}
  Pkce = {github1}
  None = NoneValue
SYMMETRY Symmetry
INVARIANTS
  TypeOK
  AccountOfFlow
  RefusedForCause
