------------------------------ MODULE MCEmailOTP ------------------------------
(* The email OTP factor with a few codes and calls.                        *)
EXTENDS EmailOTP, TLC

(* Ids, requests, sessions and codes are interchangeable.                  *)
Symmetry == Permutations(Otps) \cup Permutations(Requests)
              \cup Permutations(Sessions) \cup Permutations(Codes)

=============================================================================
