----------------------------- MODULE LoginProgress -----------------------------
(***************************************************************************)
(* What the authentication session service promises, without requests,     *)
(* copies or lookups: a session begins with nothing done, goes from one    *)
(* legal login to another, ends once, and is never open again.  If what    *)
(* works on it is orderly, a login only ever grows, and is answered for at *)
(* most once.                                                              *)
(***************************************************************************)
EXTENDS Naturals, Sequences

CONSTANTS Sessions,
          Amr,        \* what kind of factor each factor is
          StepOf,     \* the step at which it is asked for
          AdvanceBy,  \* how many steps it is worth
          Orderly     \* whether one request at a time works on a session

VARIABLES phase,   \* of each session: "unused", "open" or "over"
          path,    \* the uses of factors an open session consists of
          answers  \* how many times its login was given to somebody

(* Each factor is used when the ones before it lead to its step, and no    *)
(* kind of factor is used twice.                                           *)
Legal(uses) ==
  /\ \A i, j \in DOMAIN uses : Amr[uses[i].factor] = Amr[uses[j].factor] => i = j
  /\ \A i \in DOMAIN uses :
       StepOf[uses[i].factor] =
         IF i = 1 THEN 0 ELSE StepOf[uses[i - 1].factor] + AdvanceBy[uses[i - 1].factor]

GrowsTo(short, long) ==
  /\ Len(short) <= Len(long)
  /\ \A i \in DOMAIN short : long[i] = short[i]

ProgressInit ==
  /\ phase = [s \in Sessions |-> "unused"]
  /\ path = [s \in Sessions |-> <<>>]
  /\ answers = [s \in Sessions |-> 0]

Begin(s) ==
  /\ phase[s] = "unused"
  /\ phase' = [phase EXCEPT ![s] = "open"]
  /\ UNCHANGED <<path, answers>>

(* More than one factor is added if what was done before was not recorded. *)
Continue(s) ==
  /\ phase[s] = "open"
  /\ Legal(path'[s])
  /\ Orderly => GrowsTo(path[s], path'[s])
  /\ path' = [path EXCEPT ![s] = path'[s]]
  /\ UNCHANGED <<phase, answers>>

Over(s) ==
  /\ phase[s] # "unused"
  /\ phase' = [phase EXCEPT ![s] = "over"]
  /\ path' = [path EXCEPT ![s] = <<>>]

End(s) == Over(s) /\ UNCHANGED answers

(* The login is given to somebody, if it has ended already or ends now.    *)
Answer(s) ==
  /\ Over(s)
  /\ Orderly => answers[s] = 0
  /\ answers' = [answers EXCEPT ![s] = @ + 1]

ProgressNext == \E s \in Sessions : Begin(s) \/ Continue(s) \/ End(s) \/ Answer(s)

Progress == ProgressInit /\ [][ProgressNext]_<<phase, path, answers>>

=============================================================================
