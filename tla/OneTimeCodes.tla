----------------------------- MODULE OneTimeCodes -----------------------------
(***************************************************************************)
(* What the factors with one-time codes promise, without stores or calls:  *)
(* an enrollment has codes, each of which buys one answer, and a code that *)
(* was spent is never worth anything again.  The answer is to a call that  *)
(* presents the code, as long as the code is offered.                      *)
(*                                                                         *)
(* The promise is made to owners whose calls never overlap: an enrollment  *)
(* is guarded until its owner's calls do, and loose ever after.            *)
(***************************************************************************)
EXTENDS Naturals

CONSTANTS Enrollments, \* the enrollments there will ever be
          Codes,       \* what a code stands for in its enrollment
          Takes        \* the codes that are spent with each code, itself included

VARIABLES status,    \* how far each enrollment has come
          spent,     \* the codes of a guarded enrollment that are worth nothing
          answers,   \* how many calls a guarded enrollment's codes have bought
          presented  \* the codes, among those offered, that calls under way have;
                     \* it is given to this module, which does not say how it goes

PromiseTypeOK ==
  /\ status \in [Enrollments -> {"unused", "guarded", "loose", "gone"}]
  /\ spent \in [Enrollments -> SUBSET Codes]
  /\ answers \in [Enrollments -> Nat]
  /\ presented \in [Enrollments -> SUBSET Codes]

PromiseInit ==
  /\ status = [e \in Enrollments |-> "unused"]
  /\ spent = [e \in Enrollments |-> {}]
  /\ answers = [e \in Enrollments |-> 0]

Offer(e) ==
  /\ status[e] = "unused"
  /\ \E to \in {"guarded", "loose"} : status' = [status EXCEPT ![e] = to]
  /\ UNCHANGED <<spent, answers>>

(* The answer a code is spent on may be lost: but there is no answer       *)
(* without a code that was presented and not spent.                        *)
Spend(e) ==
  /\ status[e] = "guarded"
  /\ \E code \in presented[e] \ spent[e] :
       spent' = [spent EXCEPT ![e] = @ \cup Takes[code]]
  /\ \E bought \in {0, 1} : answers' = [answers EXCEPT ![e] = @ + bought]
  /\ UNCHANGED status

(* Enrollments lose their guard, or go, with what was known of them. *)
Quit(es, to) ==
  /\ \A e \in es : status[e] \in {"guarded", "loose"}
  /\ status' = [e \in Enrollments |-> IF e \in es THEN to ELSE status[e]]
  /\ spent' = [e \in Enrollments |-> IF e \in es THEN {} ELSE spent[e]]
  /\ answers' = [e \in Enrollments |-> IF e \in es THEN 0 ELSE answers[e]]

PromiseNext ==
  \/ \E e \in Enrollments : Offer(e) \/ Spend(e)
  \/ \E es \in SUBSET Enrollments, to \in {"loose", "gone"} : Quit(es, to)

Promise == PromiseInit /\ [][PromiseNext]_<<status, spent, answers>>

=============================================================================
