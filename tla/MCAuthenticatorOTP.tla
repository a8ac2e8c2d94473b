-------------------------- MODULE MCAuthenticatorOTP --------------------------
(* The factors of an authenticator app on a few numbers and codes.         *)
EXTENDS AuthenticatorOTP, FiniteSets, Sequences, TLC

CONSTANTS e1, a, b

(* Two secrets' codes: neighbours in a window may be the same.             *)
MCCodeOf(e, n) == (IF e = e1 THEN <<a, b, b, a, b, a>> ELSE <<b, b, a, b, a, a>>)[n + 1]

(* Identities have nothing in common but the clock: one at a time is       *)
(* enough, the one with HOTP or the one with TOTP.                         *)
OneOwner ==
  Cardinality({rows[e].identity : e \in {e \in Ids : rows[e] # None}}
         \cup {calls[r].identity : r \in {r \in Requests : calls[r] # None}}) <= 1

(* What was proved for an enrollment that is gone, and what was answered   *)
(* for one that is loose, says nothing any more about the states to come.  *)
(* What was verified matters to ReplayRefused alone, and when a call began *)
(* to TOTP identities that are not loose.                                  *)
CallView(call) ==
  [call EXCEPT !.late = {},
               !.began = IF call.identity \in loose \cup Hotp THEN None ELSE @]

View == <<now, used, rows, loose, Answers,
          [r \in Requests |-> IF calls[r] = None THEN None ELSE CallView(calls[r])],
          [e \in Ids |-> IF rows[e] = None THEN {} ELSE proved[e]]>>

(* Requests are interchangeable: nothing orders them.                      *)
Symmetry == Permutations(Requests)

=============================================================================
