----------------------- MODULE MCAuthenticationSession -----------------------
(* The authentication session service with small sets of factors.          *)
EXTENDS AuthenticationSession, TLC

CONSTANTS password, oauth2, totp, email, codes  \* factors
CONSTANTS pwd, federated, otp, mail             \* kinds of factors

(* password and oauth2 come first, and oauth2 is trusted enough to skip    *)
(* the second step; codes is a third step, of the same kind as totp.       *)
MCAmr == [f \in Factors |-> CASE f = password -> pwd
                              [] f = oauth2   -> federated
                              [] f = email    -> mail
                              [] OTHER        -> otp]

MCStepOf == [f \in Factors |-> CASE f \in {totp, email} -> 1
                                 [] f = codes           -> 2
                                 [] OTHER               -> 0]

MCAdvanceBy == [f \in Factors |-> IF f = oauth2 THEN 2 ELSE 1]

(* A step 0 factor is only asked for before an identity is attached, when  *)
(* no enrollment is looked up.  Of the second and third steps one identity *)
(* can have any factor, the others codes: what one of them has to go       *)
(* through and what another has differ.                                    *)
CONSTANT i1

MCEnrollments == {<<i, f>> \in Identities \X Factors :
                    f = codes \/ (i = i1 /\ f \in {totp, email})}

(* Nothing orders the ids of sessions, or requests. *)
Symmetry == Permutations(Sessions) \cup Permutations(Requests)

=============================================================================
