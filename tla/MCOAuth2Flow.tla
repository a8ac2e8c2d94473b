----------------------------- MODULE MCOAuth2Flow -----------------------------
(* The OAuth2 factor with a few flows, accounts and identities.            *)
EXTENDS OAuth2Flow, TLC

(* Requests, identities, accounts and ids are interchangeable, and so are  *)
(* flows.                                                                  *)
Symmetry == Permutations(Flows) \cup Permutations(Requests)
              \cup Permutations(Identities) \cup Permutations(Accounts)
              \cup Permutations(EnrollmentIds)

=============================================================================
