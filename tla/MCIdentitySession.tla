-------------------------- MODULE MCIdentitySession --------------------------
(* The identity session service on small sets of sessions and requests. *)
EXTENDS IdentitySession, FiniteSets, TLC

(* Ids, requests and grants are interchangeable: nothing orders them.      *)
(* Sound for the safety runs only.                                         *)
Symmetry == Permutations(SessionIds) \cup Permutations(Requests)
              \cup Permutations(Grants)

(* The third id, and with it the second rotation or the third family, is   *)
(* for the time before the clock moves: what deadlines do shows with two.  *)
ThirdAtOnce == now > 0 => Cardinality(used) <= 2

(* What is left of a call that is over, as far as properties look back at  *)
(* it: the token that was refreshed or revoked, or dead and yet accepted.  *)
Remembered(r) ==
  IF \/ pc[r] # "idle"
     \/ result[r] \in {"refreshed", "reused", "revoked"}
     \/ arg[r].stale
  THEN <<result[r], arg[r]>>
  ELSE <<"none", NoArg>>

SafetyView == <<now, used, store, pc, snap, draft, [r \in Requests |-> Remembered(r)]>>

(* What the future of a behaviour depends on: neither the answer of a call *)
(* that is over nor the arguments kept of it.  Steps and pending calls are *)
(* the same under it, so it is sound for the liveness run.                 *)
Pending == [r \in Requests |-> IF pc[r] = "idle" THEN NoArg
                                                 ELSE [arg[r] EXCEPT !.stale = FALSE]]

LiveView == <<now, used, store, pc, Pending, snap, draft>>

=============================================================================
