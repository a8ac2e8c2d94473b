------------------------------- MODULE MCLogin -------------------------------
(* The two session services together, with the factors of                  *)
(* MCAuthenticationSession.                                                *)
EXTENDS Login, MCAuthenticationSession

(* Nothing orders the ids of identity sessions either.                     *)
LoginSymmetry == Symmetry \cup Permutations(IdentitySessions)

(* Nothing the run checks reads the history of enrollments, its type aside. *)
LoginView ==
  <<now, issued, store, enrolled, pc, holds, copy, arg, todo, found, steady,
    completions, granted, sessions>>

=============================================================================
